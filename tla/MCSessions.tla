----------------------------- MODULE MCSessions -----------------------------
(* Instances of Sessions for TLC. *)
EXTENDS Sessions, TLC

OneOfEach == [l \in Limit |-> [max |-> 1, windowSeconds |-> IF l = "registrations" THEN 3 ELSE 2]]

Symmetry == Permutations(SignIns)
=============================================================================
