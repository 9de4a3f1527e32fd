----------------------------- MODULE StaffRules -----------------------------
(***************************************************************************)
(* What Staff Access promises, one indivisible change of roles at a time.  *)
(* StaffAccess is the code: requests that read, wait for a lock, write and *)
(* commit in separate steps.  StaffAccess implements this specification,   *)
(* and this specification keeps a member of staff and an administrator.    *)
(***************************************************************************)
EXTENDS StaffRoles

VARIABLE roles   \* users.role, committed rows

Init == roles \in RoleTable

\* A new account is a citizen; a listed address may start as a case manager.
Register(u) ==
  /\ roles[u] = NoAccount
  /\ \E role \in {"citizen"} \cup (IF u \in CaseManagerEmails THEN {"case_manager"} ELSE {}) :
       roles' = [roles EXCEPT ![u] = role]

\* A person has one role: only administrator is given on top of another.
Grant(u, given) ==
  /\ \/ roles[u] = "citizen"
     \/ given = "admin" /\ roles[u] \in {"case_manager", "leadership"}
  /\ roles' = [roles EXCEPT ![u] = given]

\* A removal leaves someone who can work cases, and an administrator.
Revoke(u) ==
  /\ roles[u] \in GrantableRoles
  /\ roles[u] = "case_manager" => StaffIn(roles) \ {u} # {}
  /\ roles[u] = "admin" => AdminsIn(roles) \ {u} # {}
  /\ roles' = [roles EXCEPT ![u] = "citizen"]

\* The lists raise people together: citizens to case manager, and case
\* managers to administrator.
Raise(S, from, to) ==
  /\ \A u \in S : roles[u] = from
  /\ roles' = [u \in Users |-> IF u \in S THEN to ELSE roles[u]]

Next ==
  \/ \E u \in Users : Register(u) \/ Revoke(u)
  \/ \E u \in Users, given \in GrantableRoles : Grant(u, given)
  \/ \E S \in SUBSET CaseManagerEmails : Raise(S, "citizen", "case_manager")
  \/ \E S \in SUBSET AdminEmails : Raise(S, "case_manager", "admin")

Spec == Init /\ [][Next]_roles
-----------------------------------------------------------------------------
\* Once there is someone who can work cases there always is (roleService.ts,
\* KEEP_ONE: "someone can always work cases").
KeepsStaff == [][StaffIn(roles) # {} => StaffIn(roles') # {}]_roles

\* Once there is an administrator there always is one (KEEP_ONE: "and there
\* is always an administrator").
KeepsAdmin == [][AdminsIn(roles) # {} => AdminsIn(roles') # {}]_roles
=============================================================================
