----------------------------- MODULE StaffRoles -----------------------------
(***************************************************************************)
(* The vocabulary of staff roles (roleService.ts): who has which role, who *)
(* counts as staff, and the configured lists that bootstrap a database     *)
(* nobody works in yet.  A person is a model value; the users table is a   *)
(* function from persons to the role of their row, NoAccount when the      *)
(* person has not registered.                                              *)
(***************************************************************************)
EXTENDS FiniteSets

CONSTANTS
  Users,              \* the people who may hold an account
  CaseManagerEmails,  \* those whose address CASE_MANAGER_EMAILS lists
  AdminEmails         \* those whose address ADMIN_EMAILS lists

ASSUME UsersAssumption == IsFiniteSet(Users) /\ Users # {}
ASSUME ListsAssumption == /\ CaseManagerEmails \subseteq Users
                          /\ AdminEmails \subseteq Users

NoAccount == "none"
Roles     == {"citizen", "case_manager", "leadership", "admin"}

StaffRole == {"case_manager", "admin"}

\* The roles Staff Access gives and removes; everyone else is a citizen.
GrantableRoles == {"case_manager", "leadership", "admin"}

\* The contents of users.role for every possible account.
RoleOrNone == Roles \cup {NoAccount}
RoleTable  == [Users -> RoleOrNone]

StaffIn(table)  == {u \in Users : table[u] \in StaffRole}
AdminsIn(table) == {u \in Users : table[u] = "admin"}
=============================================================================
