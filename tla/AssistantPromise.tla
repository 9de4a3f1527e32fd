-------------------------- MODULE AssistantPromise --------------------------
(***************************************************************************)
(* What becomes of a question to the policy assistant, as the person and   *)
(* the case managers are told: it is answered or goes to a case manager, a *)
(* reported answer goes to one too, and one other person closes it, once.  *)
(* Assistant implements this, with its statements, locks and failures.     *)
(***************************************************************************)
CONSTANTS Exchanges, People, Staff, Nobody

VARIABLES
  stage,    \* what has become of each question
  asker,    \* who asked it
  closedBy, \* who closed it
  settled   \* the questions whose request is over

vars == <<stage, asker, closedBy, settled>>

Init ==
  /\ stage = [e \in Exchanges |-> "unasked"]
  /\ asker = [e \in Exchanges |-> Nobody]
  /\ closedBy = [e \in Exchanges |-> Nobody]
  /\ settled = {}

Move(e, from, to) == stage[e] = from /\ stage' = [stage EXCEPT ![e] = to]

Ask(e) ==
  /\ e \notin settled
  /\ Move(e, "unasked", "asked")
  /\ \E p \in People : asker' = [asker EXCEPT ![e] = p]
  /\ UNCHANGED <<closedBy, settled>>

\* The answer is shown, or waits for a case manager.
Answer(e) ==
  /\ e \notin settled
  /\ Move(e, "asked", "answered") \/ Move(e, "asked", "queued")
  /\ UNCHANGED <<asker, closedBy, settled>>

Settle(e) ==
  /\ e \notin settled
  /\ settled' = settled \cup {e}
  /\ UNCHANGED <<stage, asker, closedBy>>

\* Only a request that is still going can take back what was made of it.
Withdraw(e) ==
  /\ e \notin settled /\ stage[e] # "unasked"
  /\ stage' = [stage EXCEPT ![e] = "withdrawn"]
  /\ settled' = settled \cup {e}
  /\ UNCHANGED <<asker, closedBy>>

Report(e) ==
  /\ Move(e, "answered", "queued")
  /\ UNCHANGED <<asker, closedBy, settled>>

Close(e, s) ==
  /\ s # asker[e]
  /\ Move(e, "queued", "closed")
  /\ closedBy' = [closedBy EXCEPT ![e] = s]
  /\ UNCHANGED <<asker, settled>>

Next == \E e \in Exchanges : \/ Ask(e) \/ Answer(e) \/ Settle(e) \/ Withdraw(e) \/ Report(e)
                             \/ \E s \in Staff : Close(e, s)

Spec == Init /\ [][Next]_vars
=============================================================================
