-------------------------- MODULE StaffAccessProofs --------------------------
(***************************************************************************)
(* Proofs about StaffAccess for any people, lists, requests and starts.    *)
(*                                                                         *)
(* The invariant says what is true while a transaction is open.  It holds  *)
(* the lock, its target's row is still what it read (nobody else can write *)
(* a row it has written, and the lock keeps other requests out), and when  *)
(* it is a removal the other member of staff its guard counted is still    *)
(* one, because only removals take staff away and they all take the lock.  *)
(***************************************************************************)
EXTENDS StaffAccess, FiniteSetTheorems, TLAPS

Holding == {"locked", "found"} \cup Writing

\* Who holds the lock is the only one at a stage that needs it.
LockHeld == \A r \in Requests : pc[r] \in Holding => lock = r

\* A stage is only reached by the operation it belongs to.
StageOfOp ==
  \A r \in Requests :
    /\ pc[r] \in {"queued"} \cup Holding => call[r].op \in {"grant", "revoke"}
    /\ pc[r] \in {"asked", "promoting", "promoted"} => call[r].op = "grant"
    /\ pc[r] \in {"promoting", "promoted"} => call[r].given = "case_manager"
    /\ pc[r] = "found" => call[r].op = "revoke"

\* What a request has read and may do: a registration only gives a listed
\* address more than citizen, a grant only starts from a role it may replace.
Admissible ==
  \A r \in Requests :
    /\ pc[r] = "inserting" => seen[r] \in {"citizen"} \cup
                                (IF Target(r) \in CaseManagerEmails THEN {"case_manager"} ELSE {})
    /\ call[r].op = "grant" => call[r].given \in GrantableRoles
    /\ call[r].op = "revoke" => call[r].given = "citizen"
    /\ call[r].op = "grant" /\ pc[r] \in {"queued"} \cup Holding =>
         \/ seen[r] = "citizen"
         \/ call[r].given = "admin" /\ seen[r] \in {"case_manager", "leadership"}
    /\ call[r].op = "revoke" /\ pc[r] \in {"found"} \cup Writing => seen[r] \in GrantableRoles

\* The row an open transaction has written is still, for everybody else, the
\* row it read, and what it wrote is what it was asked for or a promotion.
OpenWrite ==
  \A r \in Requests : pc[r] \in Writing =>
    /\ roles[Target(r)] = seen[r]
    /\ \/ wrote[r] = call[r].given
       \/ wrote[r] = "admin" /\ call[r].given = "case_manager" /\ pc[r] \in {"promoted", "ready"}

\* Somebody other than the one being removed keeps what they are counted for.
SomeoneStays ==
  \A r \in Requests : call[r].op = "revoke" /\ pc[r] \in Writing =>
    /\ seen[r] = "case_manager" => \E v \in Users \ {Target(r)} : roles[v] \in StaffRole
    /\ seen[r] = "admin" => \E v \in Users \ {Target(r)} : roles[v] = "admin"

\* The trail is ahead of the change.
AuditAhead ==
  \A r \in Requests :
    /\ pc[r] \in {"promoting", "promoted", "ready"} => <<r, call[r].given>> \in audit
    /\ pc[r] = "ready" => <<r, wrote[r]>> \in audit

Inv  == LockHeld /\ StageOfOp /\ Admissible /\ OpenWrite /\ SomeoneStays /\ AuditAhead
IInv == TypeOK /\ Inv
-----------------------------------------------------------------------------
USE UsersAssumption, ListsAssumption, NoRequestAssumption

\* The call of a request not yet made is a call.
LEMMA NoCallType == NoCall \in Call
BY DEF NoCall, Call, RoleOrNone, Roles, NoAccount

\* Writing the entries of a start keeps the types.
LEMMA AuditRaisedType ==
  ASSUME TypeOK, NEW s \in Starts, NEW stage, NEW role \in Roles, NEW next \in StartStage,
         AuditRaised(s, stage, role, next)
  PROVE  TypeOK'
<1>1. CASE unaudited[s] = {}
  BY <1>1 DEF AuditRaised, StartAt, TypeOK, requestVars
<1>2. CASE unaudited[s] # {}
  <2>1. PICK u \in unaudited[s] : /\ listAudit' = listAudit \cup {<<u, role>>}
                                 /\ unaudited' = [unaudited EXCEPT ![s] = @ \ {u}]
    BY <1>2 DEF AuditRaised
  <2>2. u \in Users /\ UNCHANGED <<starting, roles, audit, told, lock, requestVars, raised>>
    BY <1>2, <2>1 DEF AuditRaised, TypeOK
  <2>3. listAudit' \subseteq Users \X Roles
    BY <2>1, <2>2 DEF TypeOK
  <2>4. unaudited' \in [Starts -> SUBSET Users]
    BY <2>1 DEF TypeOK
  <2> QED
    BY <2>2, <2>3, <2>4 DEF TypeOK, requestVars
<1> QED
  BY <1>1, <1>2

\* The variables keep their types through every step of a request or a start.
LEMMA TypeStep == TypeOK /\ [Next]_vars => TypeOK'
<1> SUFFICES ASSUME TypeOK, [Next]_vars PROVE TypeOK'
  OBVIOUS
<1> USE DEF TypeOK, RoleTable, RoleOrNone, Roles, NoAccount, Stage, Call, GrantableRoles, StaffRole,
            requestVars, startVars, Goto, Rollback, Target
<1>1. ASSUME NEW r \in Requests, BeginRegister(r) PROVE TypeOK'
  BY <1>1 DEF BeginRegister
<1>2. ASSUME NEW r \in Requests, RoleForNewUser(r) PROVE TypeOK'
  BY <1>2 DEF RoleForNewUser
<1>3. ASSUME NEW r \in Requests, InsertUser(r) PROVE TypeOK'
  BY <1>3 DEF InsertUser
<1>4. ASSUME NEW r \in Requests, RecordRegistration(r) PROVE TypeOK'
  BY <1>4 DEF RecordRegistration
<1>5. ASSUME NEW r \in Requests, BeginGrant(r) PROVE TypeOK'
  BY <1>5 DEF BeginGrant
<1>6. ASSUME NEW r \in Requests, BeginRevoke(r) PROVE TypeOK'
  BY <1>6 DEF BeginRevoke
<1>7. ASSUME NEW r \in Requests, FindGrantee(r) PROVE TypeOK'
  BY <1>7 DEF FindGrantee
<1>8. ASSUME NEW r \in Requests, TakeLock(r) PROVE TypeOK'
  BY <1>8 DEF TakeLock
<1>9. ASSUME NEW r \in Requests, UpdateGrantee(r) PROVE TypeOK'
  BY <1>9 DEF UpdateGrantee
<1>10. ASSUME NEW r \in Requests, FindMember(r) PROVE TypeOK'
  BY <1>10 DEF FindMember
<1>11. ASSUME NEW r \in Requests, UpdateMember(r) PROVE TypeOK'
  BY <1>11 DEF UpdateMember
<1>12. ASSUME NEW r \in Requests, WriteAudit(r) PROVE TypeOK'
  BY <1>12 DEF WriteAudit
<1>13. ASSUME NEW r \in Requests, Promote(r) PROVE TypeOK'
  BY <1>13 DEF Promote
<1>14. ASSUME NEW r \in Requests, AuditPromotion(r) PROVE TypeOK'
  BY <1>14 DEF AuditPromotion
<1>15. ASSUME NEW r \in Requests, Commit(r) PROVE TypeOK'
  BY <1>15 DEF Commit
<1>16. ASSUME NEW r \in Requests, Fail(r) PROVE TypeOK'
  BY <1>16 DEF Fail
<1>17. ASSUME NEW s \in Starts, CheckStaff(s) PROVE TypeOK'
  BY <1>17 DEF CheckStaff, StartAt, StartStage
<1>18. ASSUME NEW s \in Starts, CheckAdmins(s) PROVE TypeOK'
  BY <1>18 DEF CheckAdmins, StartAt, StartStage
<1>19. ASSUME NEW s \in Starts, BootstrapCaseManagers(s) PROVE TypeOK'
  BY <1>19 DEF BootstrapCaseManagers, RaiseListed, StartAt, StartStage
<1>20. ASSUME NEW s \in Starts, BootstrapAdmins(s) PROVE TypeOK'
  BY <1>20 DEF BootstrapAdmins, RaiseListed, StartAt, StartStage
<1>21. ASSUME NEW s \in Starts, AuditCaseManagers(s) PROVE TypeOK'
  BY <1>21, AuditRaisedType, Zenon DEF AuditCaseManagers, StartStage
<1>22. ASSUME NEW s \in Starts, AuditAdmins(s) PROVE TypeOK'
  BY <1>22, AuditRaisedType, Zenon DEF AuditAdmins, StartStage
<1>23. ASSUME NEW s \in Starts, RestartBootstrap(s) PROVE TypeOK'
  BY <1>23 DEF RestartBootstrap, StartAt, StartStage
<1>24. CASE UNCHANGED vars
  BY <1>24 DEF vars
<1> QED
  BY <1>1, <1>2, <1>3, <1>4, <1>5, <1>6, <1>7, <1>8, <1>9, <1>10, <1>11, <1>12, <1>13, <1>14,
     <1>15, <1>16, <1>17, <1>18, <1>19, <1>20, <1>21, <1>22, <1>23, <1>24
  DEF Next, Register, GrantStaffRole, RevokeStaffRole, BootstrapStaffRoles

\* Every variable always holds a value of its kind.
THEOREM TypeCorrect == Spec => []TypeOK
<1>1. Init => TypeOK
  BY NoCallType DEF Init, TypeOK, RoleOrNone, Roles, NoAccount, Stage, StartStage
<1> QED
  BY <1>1, TypeStep, PTL DEF Spec
-----------------------------------------------------------------------------
\* What COUNT(*) > 1 says of a member: there is another one.
LEMMA SomeoneElse ==
  ASSUME NEW S, IsFiniteSet(S), NEW u \in S, Cardinality(S) > 1
  PROVE  \E v \in S : v # u
<1>1. IsFiniteSet(S \ {u}) /\ Cardinality(S \ {u}) = Cardinality(S) - 1
  BY FS_RemoveElement
<1>2. S \ {u} # {}
  BY <1>1, FS_EmptySet, FS_CardinalityType
<1> QED
  BY <1>2

\* The removal's guard, as the existence of somebody else who stays.
LEMMA KeepOneKeeps ==
  ASSUME NEW u \in Users, NEW role, roles[u] = role, KeepOne(role)
  PROVE  /\ role = "case_manager" => \E v \in Users \ {u} : roles[v] \in StaffRole
         /\ role = "admin" => \E v \in Users \ {u} : roles[v] = "admin"
<1>1. IsFiniteSet(StaffIn(roles)) /\ IsFiniteSet(AdminsIn(roles))
  BY FS_Subset DEF StaffIn, AdminsIn
<1>2. ASSUME role = "case_manager" PROVE \E v \in Users \ {u} : roles[v] \in StaffRole
  <2>1. u \in StaffIn(roles) /\ Cardinality(StaffIn(roles)) > 1
    BY <1>2 DEF KeepOne, StaffIn, StaffRole
  <2>2. \E v \in StaffIn(roles) : v # u
    BY <1>1, <2>1, SomeoneElse
  <2> QED
    BY <2>2 DEF StaffIn
<1>3. ASSUME role = "admin" PROVE \E v \in Users \ {u} : roles[v] = "admin"
  <2>1. u \in AdminsIn(roles) /\ Cardinality(AdminsIn(roles)) > 1
    BY <1>3 DEF KeepOne, AdminsIn
  <2>2. \E v \in AdminsIn(roles) : v # u
    BY <1>1, <2>1, SomeoneElse
  <2> QED
    BY <2>2 DEF AdminsIn
<1> QED
  BY <1>2, <1>3

\* An undone transaction leaves nothing for the invariant to speak of.
LEMMA RollbackInv ==
  ASSUME TypeOK, Inv, NEW r \in Requests, Rollback(r), UNCHANGED <<roles, audit, call, seen>>
  PROVE  Inv'
BY DEF TypeOK, Inv, LockHeld, StageOfOp, Admissible, OpenWrite, SomeoneStays, AuditAhead,
       Holding, Writing, Stage, Goto, Rollback, Target

\* Every step keeps the invariant of open transactions.
LEMMA InvStep == TypeOK /\ Inv /\ [Next]_vars => Inv'
<1> SUFFICES ASSUME TypeOK, Inv, [Next]_vars PROVE Inv'
  OBVIOUS
<1> USE DEF TypeOK, Inv, LockHeld, StageOfOp, Admissible, OpenWrite, SomeoneStays, AuditAhead, Holding, Writing,
            RoleTable, RoleOrNone, Roles, NoAccount, Stage, Call, GrantableRoles, StaffRole,
            requestVars, startVars, Goto, Rollback, Target
<1>1. ASSUME NEW r \in Requests, BeginRegister(r) PROVE Inv'
  BY <1>1 DEF BeginRegister
<1>2. ASSUME NEW r \in Requests, RoleForNewUser(r) PROVE Inv'
  BY <1>2 DEF RoleForNewUser
<1>3. ASSUME NEW r \in Requests, InsertUser(r) PROVE Inv'
  <2>1. CASE roles[Target(r)] = NoAccount
    <3>1. \A q \in Requests : pc[q] \in Writing => Target(q) # Target(r)
      BY <2>1
    <3>2. \A q \in Requests : pc'[q] \in Holding \cup {"inserting", "asked", "queued"} => pc'[q] = pc[q]
      BY <1>3, <2>1 DEF InsertUser
    <3> QED
      BY <1>3, <2>1, <3>1, <3>2 DEF InsertUser
  <2>2. CASE roles[Target(r)] # NoAccount
    BY <1>3, <2>2 DEF InsertUser
  <2> QED
    BY <2>1, <2>2
<1>4. ASSUME NEW r \in Requests, RecordRegistration(r) PROVE Inv'
  BY <1>4 DEF RecordRegistration
<1>5. ASSUME NEW r \in Requests, BeginGrant(r) PROVE Inv'
  BY <1>5 DEF BeginGrant
<1>6. ASSUME NEW r \in Requests, BeginRevoke(r) PROVE Inv'
  BY <1>6 DEF BeginRevoke
<1>7. ASSUME NEW r \in Requests, FindGrantee(r) PROVE Inv'
  BY <1>7 DEF FindGrantee
<1>8. ASSUME NEW r \in Requests, TakeLock(r) PROVE Inv'
  BY <1>8 DEF TakeLock
<1>9. ASSUME NEW r \in Requests, UpdateGrantee(r) PROVE Inv'
  <2>1. CASE roles[Target(r)] = seen[r]
    BY <1>9, <2>1 DEF UpdateGrantee
  <2>2. CASE roles[Target(r)] # seen[r]
    BY <1>9, <2>2, RollbackInv DEF UpdateGrantee
  <2> QED
    BY <2>1, <2>2
<1>10. ASSUME NEW r \in Requests, FindMember(r) PROVE Inv'
  <2> DEFINE role == roles[Target(r)]
             may  == role \in GrantableRoles /\ (role # "case_manager" => call[r].actorRole = "admin")
  <2>1. CASE may
    <3>1. /\ seen' = [seen EXCEPT ![r] = role] /\ pc' = [pc EXCEPT ![r] = "found"]
          /\ role \in GrantableRoles /\ pc[r] = "locked" /\ call[r].op = "revoke"
          /\ UNCHANGED <<roles, audit, lock, wrote, call>>
      BY <1>10, <2>1 DEF FindMember
    <3> QED
      BY <3>1
  <2>2. CASE ~may
    <3>1. Rollback(r) /\ UNCHANGED <<roles, audit, call, seen>>
      <4> HIDE DEF Rollback, Goto, GrantableRoles, StaffRole, Target, Call, Roles
      <4> QED
        BY <1>10, <2>2 DEF FindMember
    <3> QED
      BY <3>1, RollbackInv
  <2> QED
    BY <2>1, <2>2
<1>11. ASSUME NEW r \in Requests, UpdateMember(r) PROVE Inv'
  <2>1. CASE roles[Target(r)] = seen[r] /\ KeepOne(seen[r])
    <3>1. seen[r] = "case_manager" => \E v \in Users \ {Target(r)} : roles[v] \in StaffRole
      BY <2>1, KeepOneKeeps
    <3>2. seen[r] = "admin" => \E v \in Users \ {Target(r)} : roles[v] = "admin"
      BY <2>1, KeepOneKeeps
    <3>3. /\ wrote' = [wrote EXCEPT ![r] = "citizen"] /\ pc' = [pc EXCEPT ![r] = "updated"]
          /\ pc[r] = "found" /\ roles[Target(r)] = seen[r]
          /\ UNCHANGED <<roles, audit, lock, seen, call>>
      BY <1>11, <2>1 DEF UpdateMember
    <3> QED
      BY <3>1, <3>2, <3>3
  <2>2. CASE ~(roles[Target(r)] = seen[r] /\ KeepOne(seen[r]))
    <3>1. Rollback(r) /\ UNCHANGED <<roles, audit, call, seen>>
      BY <1>11, <2>2, Zenon DEF UpdateMember
    <3> QED
      BY <3>1, RollbackInv
  <2> QED
    BY <2>1, <2>2
<1>12. ASSUME NEW r \in Requests, WriteAudit(r) PROVE Inv'
  BY <1>12 DEF WriteAudit
<1>13. ASSUME NEW r \in Requests, Promote(r) PROVE Inv'
  <2>1. CASE \E u \in Users : RoleSeenBy(r, u) = "admin"
    BY <1>13, <2>1 DEF Promote
  <2>2. CASE ~\E u \in Users : RoleSeenBy(r, u) = "admin"
    BY <1>13, <2>2 DEF Promote
  <2> QED
    BY <2>1, <2>2
<1>14. ASSUME NEW r \in Requests, AuditPromotion(r) PROVE Inv'
  BY <1>14 DEF AuditPromotion
<1>15. ASSUME NEW r \in Requests, Commit(r) PROVE Inv'
  BY <1>15 DEF Commit
<1>16. ASSUME NEW r \in Requests, Fail(r) PROVE Inv'
  BY <1>16 DEF Fail
<1>17. ASSUME NEW s \in Starts, CheckStaff(s) PROVE Inv'
  BY <1>17 DEF CheckStaff, StartAt
<1>18. ASSUME NEW s \in Starts, CheckAdmins(s) PROVE Inv'
  BY <1>18 DEF CheckAdmins, StartAt
<1>19. ASSUME NEW s \in Starts, BootstrapCaseManagers(s) PROVE Inv'
  BY <1>19 DEF BootstrapCaseManagers, RaiseListed, RowLocked, StartAt
<1>20. ASSUME NEW s \in Starts, BootstrapAdmins(s) PROVE Inv'
  BY <1>20 DEF BootstrapAdmins, RaiseListed, RowLocked, StartAt
<1>21. ASSUME NEW s \in Starts, AuditCaseManagers(s) PROVE Inv'
  BY <1>21 DEF AuditCaseManagers, AuditRaised, StartAt
<1>22. ASSUME NEW s \in Starts, AuditAdmins(s) PROVE Inv'
  BY <1>22 DEF AuditAdmins, AuditRaised, StartAt
<1>23. ASSUME NEW s \in Starts, RestartBootstrap(s) PROVE Inv'
  BY <1>23 DEF RestartBootstrap, StartAt
<1>24. CASE UNCHANGED vars
  BY <1>24 DEF vars
<1> QED
  BY <1>1, <1>2, <1>3, <1>4, <1>5, <1>6, <1>7, <1>8, <1>9, <1>10, <1>11, <1>12, <1>13, <1>14, <1>15, <1>16, <1>17, <1>18, <1>19, <1>20, <1>21, <1>22, <1>23, <1>24
  DEF Next, Register, GrantStaffRole, RevokeStaffRole, BootstrapStaffRoles

\* The invariant holds from the start, when no transaction is open.
THEOREM OpenTransactions == Spec => []IInv
<1>1. Init => Inv
  BY DEF Init, NoCall, Inv, LockHeld, StageOfOp, Admissible, OpenWrite, SomeoneStays, AuditAhead,
         Holding, Writing, Target
<1> QED
  BY <1>1, InvStep, TypeStep, TypeCorrect, PTL DEF Spec, IInv
-----------------------------------------------------------------------------
\* The rules are stated in the same words as the code's model.
LEMMA SameWords ==
  /\ Rules!NoAccount = NoAccount /\ Rules!RoleTable = RoleTable
  /\ Rules!GrantableRoles = GrantableRoles
  /\ Rules!StaffIn(roles) = StaffIn(roles) /\ Rules!AdminsIn(roles) = AdminsIn(roles)
BY DEF Rules!NoAccount, NoAccount, Rules!RoleTable, RoleTable, Rules!RoleOrNone, RoleOrNone,
       Rules!Roles, Roles, Rules!GrantableRoles, GrantableRoles, Rules!StaffIn, StaffIn,
       Rules!StaffRole, StaffRole, Rules!AdminsIn, AdminsIn

\* Nothing but an INSERT, a COMMIT and a start's UPDATE changes a role, and
\* each of them is a change the rules allow.
LEMMA RulesStep == IInv /\ [Next]_vars => [Rules!Next]_roles
<1> SUFFICES ASSUME IInv, [Next]_vars, roles' # roles PROVE Rules!Next
  BY DEF vars
<1> USE DEF IInv, TypeOK, RoleTable, RoleOrNone
<1>1. ASSUME NEW r \in Requests, InsertUser(r) PROVE Rules!Next
  <2>1. /\ roles[Target(r)] = NoAccount
        /\ roles' = [roles EXCEPT ![Target(r)] = seen[r]]
    BY <1>1 DEF InsertUser
  <2>2. Target(r) \in Users
    BY DEF Target, Call
  <2>3. seen[r] \in {"citizen"} \cup (IF Target(r) \in CaseManagerEmails THEN {"case_manager"} ELSE {})
    BY <1>1 DEF InsertUser, Inv, Admissible
  <2> QED
    BY <2>1, <2>2, <2>3, SameWords DEF Rules!Next, Rules!Register
<1>2. ASSUME NEW r \in Requests, Commit(r) PROVE Rules!Next
  <2>1. /\ pc[r] \in Writing
        /\ roles' = [roles EXCEPT ![Target(r)] = wrote[r]]
    BY <1>2 DEF Commit, Writing
  <2>2. /\ Target(r) \in Users
        /\ roles[Target(r)] = seen[r]
        /\ call[r].op \in {"grant", "revoke"}
        /\ \/ wrote[r] = call[r].given
           \/ wrote[r] = "admin" /\ call[r].given = "case_manager"
    BY <2>1 DEF Inv, OpenWrite, StageOfOp, Holding, Target, Call
  <2>3. CASE call[r].op = "grant"
    <3>1. /\ call[r].given \in GrantableRoles
          /\ \/ seen[r] = "citizen"
             \/ call[r].given = "admin" /\ seen[r] \in {"case_manager", "leadership"}
      BY <2>1, <2>3 DEF Inv, Admissible, Holding
    <3>2. wrote[r] \in GrantableRoles
      BY <2>2, <3>1 DEF GrantableRoles
    <3>3. \/ seen[r] = "citizen"
          \/ wrote[r] = "admin" /\ seen[r] \in {"case_manager", "leadership"}
      BY <2>2, <3>1
    <3> QED
      BY <2>1, <2>2, <3>2, <3>3, SameWords DEF Rules!Next, Rules!Grant
  <2>4. CASE call[r].op = "revoke"
    <3>1. seen[r] \in GrantableRoles /\ call[r].given = "citizen"
      BY <2>1, <2>4 DEF Inv, Admissible
    <3>2. wrote[r] = "citizen"
      BY <2>2, <3>1
    <3>3. seen[r] = "case_manager" => StaffIn(roles) \ {Target(r)} # {}
      BY <2>1, <2>4 DEF Inv, SomeoneStays, StaffIn
    <3>4. seen[r] = "admin" => AdminsIn(roles) \ {Target(r)} # {}
      BY <2>1, <2>4 DEF Inv, SomeoneStays, AdminsIn
    <3> QED
      BY <2>1, <2>2, <3>1, <3>2, <3>3, <3>4, SameWords DEF Rules!Next, Rules!Revoke
  <2> QED
    BY <2>2, <2>3, <2>4
<1>3. ASSUME NEW s \in Starts, BootstrapCaseManagers(s) PROVE Rules!Next
  BY <1>3 DEF BootstrapCaseManagers, RaiseListed, Rules!Next, Rules!Raise
<1>4. ASSUME NEW s \in Starts, BootstrapAdmins(s) PROVE Rules!Next
  BY <1>4 DEF BootstrapAdmins, RaiseListed, Rules!Next, Rules!Raise
<1> QED
  BY <1>1, <1>2, <1>3, <1>4
  DEF Next, vars, Register, GrantStaffRole, RevokeStaffRole, BootstrapStaffRoles,
      BeginRegister, RoleForNewUser, RecordRegistration, BeginGrant, BeginRevoke, FindGrantee,
      TakeLock, UpdateGrantee, FindMember, UpdateMember, WriteAudit, Promote, AuditPromotion,
      Fail, CheckStaff, CheckAdmins, AuditCaseManagers, AuditAdmins, AuditRaised, RestartBootstrap

\* Every interleaving of requests and starts, with any of them failing, is
\* one of indivisible changes that obey the rules of Staff Access.
THEOREM Implements == Spec => ImplementsRules
<1>1. Init => Rules!Init
  BY SameWords DEF Init, Rules!Init
<1> QED
  BY <1>1, RulesStep, OpenTransactions, PTL DEF Spec, ImplementsRules, Rules!Spec
-----------------------------------------------------------------------------
\* What the rules allow keeps a member of staff and an administrator.
LEMMA RulesKeep ==
  ASSUME roles \in RoleTable, [Rules!Next]_roles
  PROVE  /\ StaffIn(roles) # {} => StaffIn(roles') # {}
         /\ AdminsIn(roles) # {} => AdminsIn(roles') # {}
<1> USE DEF StaffIn, AdminsIn, StaffRole, RoleTable, RoleOrNone, Roles, NoAccount
<1>1. ASSUME NEW u \in Users, Rules!Register(u)
      PROVE  \A v \in Users : roles[v] \in StaffRole => roles'[v] = roles[v]
  BY <1>1, SameWords DEF Rules!Register
<1>2. ASSUME NEW u \in Users, NEW given \in GrantableRoles, Rules!Grant(u, given)
      PROVE  \A v \in Users : roles[v] \in StaffRole => roles'[v] \in {roles[v], "admin"}
  BY <1>2 DEF Rules!Grant
<1>3. ASSUME NEW u \in Users, Rules!Revoke(u)
      PROVE  /\ StaffIn(roles) # {} => StaffIn(roles') # {}
             /\ AdminsIn(roles) # {} => AdminsIn(roles') # {}
  <2>1. \A v \in Users \ {u} : roles'[v] = roles[v]
    BY <1>3 DEF Rules!Revoke
  <2>2. CASE roles[u] = "case_manager"
    BY <1>3, <2>1, <2>2, SameWords DEF Rules!Revoke
  <2>3. CASE roles[u] = "admin"
    BY <1>3, <2>1, <2>3, SameWords DEF Rules!Revoke
  <2>4. CASE roles[u] \notin StaffRole
    BY <2>1, <2>4
  <2> QED
    BY <2>2, <2>3, <2>4
<1>4. ASSUME NEW S \in SUBSET CaseManagerEmails, Rules!Raise(S, "citizen", "case_manager")
      PROVE  \A v \in Users : roles[v] \in StaffRole => roles'[v] = roles[v]
  BY <1>4 DEF Rules!Raise
<1>5. ASSUME NEW S \in SUBSET AdminEmails, Rules!Raise(S, "case_manager", "admin")
      PROVE  \A v \in Users : roles[v] \in StaffRole => roles'[v] \in {roles[v], "admin"}
  BY <1>5 DEF Rules!Raise
<1>6. CASE \A v \in Users : roles[v] \in StaffRole => roles'[v] \in {roles[v], "admin"}
  BY <1>6
<1> QED
  BY <1>1, <1>2, <1>3, <1>4, <1>5, <1>6, SameWords DEF Rules!Next

\* Once somebody can work cases, somebody always can.
THEOREM StaffKept == Spec => KeepsStaff
<1>1. IInv /\ [Next]_vars => [StaffIn(roles) # {} => StaffIn(roles') # {}]_roles
  BY RulesStep, RulesKeep DEF IInv, TypeOK
<1> QED
  BY <1>1, OpenTransactions, PTL DEF Spec, KeepsStaff

\* Once there is an administrator there always is one.
THEOREM AdminKept == Spec => KeepsAdmin
<1>1. IInv /\ [Next]_vars => [AdminsIn(roles) # {} => AdminsIn(roles') # {}]_roles
  BY RulesStep, RulesKeep DEF IInv, TypeOK
<1> QED
  BY <1>1, OpenTransactions, PTL DEF Spec, KeepsAdmin
-----------------------------------------------------------------------------
\* What has been told was in the trail first.
THEOREM AuditedFirst == Spec => []ChangesAudited
<1>1. Init => ChangesAudited
  BY DEF Init, ChangesAudited
<1>2. ChangesAudited /\ IInv /\ [Next]_vars => ChangesAudited'
  <2> SUFFICES ASSUME ChangesAudited, IInv, [Next]_vars PROVE ChangesAudited'
    OBVIOUS
  <2> USE DEF ChangesAudited
  <2>1. audit \subseteq audit'
    BY DEF Next, vars, Register, GrantStaffRole, RevokeStaffRole, BootstrapStaffRoles,
           BeginRegister, RoleForNewUser, InsertUser, RecordRegistration, BeginGrant, BeginRevoke,
           FindGrantee, TakeLock, UpdateGrantee, FindMember, UpdateMember, WriteAudit, Promote,
           AuditPromotion, Commit, Fail, CheckStaff, CheckAdmins, BootstrapCaseManagers,
           BootstrapAdmins, RaiseListed, AuditCaseManagers, AuditAdmins, AuditRaised, RestartBootstrap
  <2>2. ASSUME NEW r \in Requests, Commit(r) PROVE told' \subseteq audit
    BY <2>2 DEF Commit, IInv, Inv, AuditAhead
  <2>3. CASE told' = told
    BY <2>1, <2>3
  <2> QED
    BY <2>1, <2>2, <2>3
    DEF Next, vars, Register, GrantStaffRole, RevokeStaffRole, BootstrapStaffRoles,
        BeginRegister, RoleForNewUser, InsertUser, RecordRegistration, BeginGrant, BeginRevoke,
        FindGrantee, TakeLock, UpdateGrantee, FindMember, UpdateMember, WriteAudit, Promote,
        AuditPromotion, Fail, CheckStaff, CheckAdmins, BootstrapCaseManagers,
        BootstrapAdmins, RaiseListed, AuditCaseManagers, AuditAdmins, AuditRaised, RestartBootstrap
<1> QED
  BY <1>1, <1>2, OpenTransactions, PTL DEF Spec

\* Except for an upgrade to administrator, no role replaces another directly.
THEOREM RolesMove == Spec => OneRoleAtATime
<1> DEFINE Moves == \A u \in Users : roles'[u] # roles[u] => <<roles[u], roles'[u]>> \in RoleMoves
<1> HIDE DEF Moves
<1>1. IInv /\ [Rules!Next]_roles => [Moves]_roles
  <2> SUFFICES ASSUME IInv, Rules!Next PROVE Moves
    OBVIOUS
  <2> USE SameWords DEF IInv, TypeOK, RoleTable, RoleMoves, GrantableRoles, NoAccount
  <2>1. ASSUME NEW u \in Users, Rules!Register(u) PROVE Moves
    BY <2>1 DEF Rules!Register, Moves
  <2>2. ASSUME NEW u \in Users, Rules!Revoke(u) PROVE Moves
    <3>1. /\ roles[u] \in GrantableRoles
          /\ roles' = [roles EXCEPT ![u] = "citizen"]
      BY <2>2 DEF Rules!Revoke
    <3> QED
      BY <3>1 DEF Moves
  <2>3. ASSUME NEW u \in Users, NEW given \in GrantableRoles, Rules!Grant(u, given) PROVE Moves
    <3>1. /\ \/ roles[u] = "citizen"
             \/ given = "admin" /\ roles[u] \in {"case_manager", "leadership"}
          /\ roles' = [roles EXCEPT ![u] = given]
      BY <2>3 DEF Rules!Grant
    <3> QED
      BY <3>1 DEF Moves
  <2>4. ASSUME NEW S \in SUBSET CaseManagerEmails, Rules!Raise(S, "citizen", "case_manager") PROVE Moves
    <3>1. \A u \in Users : roles'[u] # roles[u] => roles[u] = "citizen" /\ roles'[u] = "case_manager"
      BY <2>4 DEF Rules!Raise
    <3> QED
      BY <3>1 DEF Moves
  <2>5. ASSUME NEW S \in SUBSET AdminEmails, Rules!Raise(S, "case_manager", "admin") PROVE Moves
    <3>1. \A u \in Users : roles'[u] # roles[u] => roles[u] = "case_manager" /\ roles'[u] = "admin"
      BY <2>5 DEF Rules!Raise
    <3> QED
      BY <3>1 DEF Moves
  <2> QED
    BY <2>1, <2>2, <2>3, <2>4, <2>5 DEF Rules!Next
<1> QED
  BY <1>1, RulesStep, OpenTransactions, PTL DEF Spec, OneRoleAtATime, Moves
-----------------------------------------------------------------------------
\* A promotion is told only by a commit; while one is told there is an
\* administrator, and no other transaction has one waiting to commit.
PromotionInv ==
  /\ \A r \in Requests, role \in RoleOrNone : <<r, role>> \in told => pc[r] = "ok"
  /\ \A r \in Requests : Promoted(r) => AdminsIn(roles) # {}
  /\ \A r, q \in Requests :
       (pc[q] \in {"promoted", "ready"} /\ wrote[q] = "admin" /\ call[q].given = "case_manager")
         => ~Promoted(r)
  /\ OnePromotion

\* A step that tells nobody and brings no promotion nearer to its commit.
Quiet ==
  /\ told' = told
  /\ \A q \in Requests :
       /\ pc[q] = "ok" => pc'[q] = "ok" /\ call'[q] = call[q]
       /\ pc'[q] \in {"promoted", "ready"} => \/ /\ pc[q] \in {"promoted", "ready"}
                                                /\ wrote'[q] = wrote[q] /\ call'[q] = call[q]
                                             \/ ~(wrote'[q] = "admin" /\ call'[q].given = "case_manager")

\* Every step but a promotion and a COMMIT is quiet.
LEMMA QuietSteps ==
  ASSUME IInv, [Next]_vars,
         ~\E r \in Requests : Promote(r) \/ Commit(r)
  PROVE  Quiet
<1> USE DEF Quiet, IInv, TypeOK, Stage, Goto, Rollback
<1>1. ASSUME NEW r \in Requests, Register(r) PROVE Quiet
  BY <1>1 DEF Register, BeginRegister, RoleForNewUser, InsertUser, RecordRegistration
<1>2. ASSUME NEW r \in Requests, BeginGrant(r) \/ BeginRevoke(r) PROVE Quiet
  BY <1>2 DEF BeginGrant, BeginRevoke
<1>3. ASSUME NEW r \in Requests, FindGrantee(r) \/ TakeLock(r) PROVE Quiet
  BY <1>3 DEF FindGrantee, TakeLock
<1>4. ASSUME NEW r \in Requests, UpdateGrantee(r) PROVE Quiet
  BY <1>4 DEF UpdateGrantee
<1>5. ASSUME NEW r \in Requests, FindMember(r) PROVE Quiet
  BY <1>5 DEF FindMember
<1>6. ASSUME NEW r \in Requests, UpdateMember(r) PROVE Quiet
  BY <1>6 DEF UpdateMember
<1>7. ASSUME NEW r \in Requests, WriteAudit(r) PROVE Quiet
  <2>1. wrote[r] = call[r].given
    BY <1>7 DEF WriteAudit, Inv, OpenWrite, Writing
  <2> QED
    BY <1>7, <2>1 DEF WriteAudit
<1>8. ASSUME NEW r \in Requests, AuditPromotion(r) PROVE Quiet
  BY <1>8 DEF AuditPromotion
<1>9. ASSUME NEW r \in Requests, Fail(r) PROVE Quiet
  BY <1>9 DEF Fail
<1>10. ASSUME NEW s \in Starts, BootstrapStaffRoles(s) \/ RestartBootstrap(s) PROVE Quiet
  BY <1>10 DEF BootstrapStaffRoles, CheckStaff, CheckAdmins, BootstrapCaseManagers, BootstrapAdmins,
               RaiseListed, AuditCaseManagers, AuditAdmins, AuditRaised, RestartBootstrap, requestVars
<1>11. CASE UNCHANGED vars
  BY <1>11 DEF vars, requestVars
<1> QED
  BY <1>1, <1>2, <1>3, <1>4, <1>5, <1>6, <1>7, <1>8, <1>9, <1>10, <1>11
  DEF Next, GrantStaffRole, RevokeStaffRole

\* Every step keeps the invariant of promotions: one is only made where there
\* is no administrator, and once committed there always is one.
LEMMA PromotionStep == PromotionInv /\ IInv /\ [Next]_vars => PromotionInv'
<1> SUFFICES ASSUME PromotionInv, IInv, [Next]_vars PROVE PromotionInv'
  OBVIOUS
<1> USE DEF PromotionInv, OnePromotion, Promoted
<1>1. AdminsIn(roles) # {} => AdminsIn(roles') # {}
  BY RulesStep, RulesKeep DEF IInv, TypeOK
<1>2. ASSUME NEW r \in Requests, Commit(r) PROVE PromotionInv'
  <2>1. /\ told' = told \cup {<<r, call[r].given>>, <<r, wrote[r]>>}
        /\ pc[r] = "ready" /\ pc' = [pc EXCEPT ![r] = "ok"]
        /\ roles' = [roles EXCEPT ![Target(r)] = wrote[r]]
        /\ UNCHANGED <<call, wrote>>
    BY <1>2 DEF Commit, Goto
  <2>2. \A q \in Requests : pc[q] \in Holding => q = r
    BY <2>1 DEF IInv, Inv, LockHeld, Holding, Writing
  <2>3. \A q \in Requests : q # r => (Promoted(q)' <=> Promoted(q))
    BY <2>1
  <2>4. Promoted(r)' => wrote[r] = "admin" /\ call[r].given = "case_manager"
    BY <2>1 DEF RoleOrNone, Roles
  <2>5. Promoted(r)' => AdminsIn(roles') # {}
    BY <2>1, <2>4 DEF IInv, TypeOK, RoleTable, Target, Call, AdminsIn
  <2>6. Promoted(r)' => \A q \in Requests : q # r => ~Promoted(q)'
    BY <2>1, <2>3, <2>4
  <2>7. \A q \in Requests : pc'[q] \notin {"promoted", "ready"}
    BY <2>1, <2>2 DEF IInv, TypeOK, Holding, Writing
  <2>8. \A q \in Requests, role \in RoleOrNone : <<q, role>> \in told' => pc'[q] = "ok"
    BY <2>1 DEF IInv, TypeOK
  <2>9. \A q \in Requests : Promoted(q)' => AdminsIn(roles') # {}
    BY <1>1, <2>3, <2>5
  <2> QED
    BY <2>3, <2>6, <2>7, <2>8, <2>9
<1>3. ASSUME NEW q \in Requests, Promote(q) PROVE PromotionInv'
  <2>1. /\ pc[q] = "promoting"
        /\ \/ /\ pc' = [pc EXCEPT ![q] = "ready"] /\ wrote' = wrote
           \/ /\ pc' = [pc EXCEPT ![q] = "promoted"] /\ wrote' = [wrote EXCEPT ![q] = "admin"]
              /\ ~\E u \in Users : RoleSeenBy(q, u) = "admin"
        /\ UNCHANGED <<roles, told, call>>
    BY <1>3 DEF Promote, Goto
  <2>2. \A r \in Requests : Promoted(r)' <=> Promoted(r)
    BY <2>1
  <2>3. \A r \in Requests : r # q => pc'[r] = pc[r] /\ wrote'[r] = wrote[r]
    BY <2>1 DEF IInv, TypeOK
  <2>4. \A r \in Requests : pc[r] = "ok" => pc'[r] = "ok"
    BY <2>1, <2>3
  <2>5. CASE wrote' = wrote
    <3>1. /\ wrote[q] = call[q].given
      BY <2>1 DEF IInv, Inv, OpenWrite, Writing
    <3>2. call[q].given = "case_manager"
      BY <2>1 DEF IInv, Inv, StageOfOp
    <3> QED
      BY <2>1, <2>2, <2>3, <2>4, <2>5, <3>1, <3>2
  <2>6. CASE wrote' # wrote
    <3>1. \A u \in Users : RoleSeenBy(q, u) # "admin"
      BY <2>1, <2>6
    <3>2. roles[Target(q)] = seen[q] /\ seen[q] = "citizen"
      <4>1. call[q].given = "case_manager" /\ call[q].op = "grant"
        BY <2>1 DEF IInv, Inv, StageOfOp
      <4> QED
        BY <2>1, <4>1 DEF IInv, Inv, OpenWrite, Admissible, Writing, Holding
    <3>3. \A u \in Users : roles[u] # "admin"
      BY <3>1, <3>2 DEF RoleSeenBy
    <3>4. \A r \in Requests : ~Promoted(r)
      BY <3>3 DEF AdminsIn
    <3> QED
      BY <2>1, <2>2, <2>3, <2>4, <3>4
  <2> QED
    BY <2>5, <2>6
<1>4. CASE ~\E r \in Requests : Promote(r) \/ Commit(r)
  <2>1. Quiet
    BY <1>4, QuietSteps
  <2>2. \A r \in Requests : Promoted(r)' <=> Promoted(r)
    BY <2>1 DEF Quiet, RoleOrNone, Roles
  <2> QED
    BY <1>1, <2>1, <2>2 DEF Quiet
<1> QED
  BY <1>2, <1>3, <1>4

\* The address list makes at most one administrator by way of a grant.
THEOREM PromotedOnce == Spec => []OnePromotion
<1>1. Init => PromotionInv
  BY DEF Init, PromotionInv, OnePromotion, Promoted
<1>2. PromotionInv => OnePromotion
  BY DEF PromotionInv
<1> QED
  BY <1>1, <1>2, PromotionStep, OpenTransactions, PTL DEF Spec
=============================================================================
