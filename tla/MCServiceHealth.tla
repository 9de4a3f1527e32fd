-------------------------- MODULE MCServiceHealth --------------------------
(***************************************************************************)
(* Instances of ServiceHealth for TLC: traffic with a fault, answers with  *)
(* a fault, and both at once.                                              *)
(***************************************************************************)
EXTENDS ServiceHealth

\* The hour of the objectives, as one minute.
OneMinute == [w \in Windows |-> 1]

SomeBudgets ==
  {[of |-> {"requests"}, requests |-> 2, turns |-> 0, faults |-> 1],
   [of |-> {"answers"}, requests |-> 0, turns |-> 3, faults |-> 1],
   [of |-> {"requests", "answers"}, requests |-> 1, turns |-> 1, faults |-> 0]}
=============================================================================
