-------------------------- MODULE MCCaseDecisions --------------------------
(***************************************************************************)
(* Instances of CaseDecisions for TLC: two case managers and an applicant  *)
(* who is a third; bob has an account and no staff role.                   *)
(***************************************************************************)
EXTENDS CaseDecisions, TLC

CONSTANTS m1, m2, ann, bob

Managers == {m1, m2, ann}
Accounts == Managers \cup {bob}

\* No case yet, or one nobody has, or one in review that somebody works on.
Row(status, a) == [status |-> status, approvedAt |-> FALSE, assignedTo |-> a]
Cases == {Row("None", Nobody), Row("Submitted", Nobody), Row("Denied", Nobody)}
           \cup {Row("InReview", m) : m \in {m1, m2}}

\* Whether a decision fails a control is then up to CTRL-05, whom the case is
\* assigned to when it is evaluated, and CTRL-07, whether a document is dated
\* before it.
Sound == {[status |-> "Eligible", current |-> TRUE]}

Symmetry == Permutations({m1, m2}) \cup Permutations(Requests)
=============================================================================
