----------------------------- MODULE StaffAccess ----------------------------
(***************************************************************************)
(* How people get and lose staff roles (roleService.ts, and registerUser   *)
(* of authService.ts), as the separate database statements the code makes. *)
(*                                                                         *)
(* A request is one HTTP call: a registration, a grant or a removal.  A    *)
(* start is one run of bootstrapStaffRoles when a server starts; a restart *)
(* or a retry runs it again from the top.  PostgreSQL runs READ COMMITTED: *)
(* every statement sees the rows committed when it begins plus its own     *)
(* transaction's writes, and a row written by an open transaction makes    *)
(* another writer of that row wait.  The audit trail is written on another *)
(* pooled connection (logAuditEvent), so an entry stays even when the      *)
(* transaction it describes is rolled back.                                *)
(***************************************************************************)
EXTENDS StaffRoles, Naturals

CONSTANTS
  Requests,   \* the HTTP calls of the behaviour, each made at most once
  Starts,     \* server processes that run the bootstrap
  NoRequest   \* the staff lock is free

ASSUME NoRequestAssumption == NoRequest \notin Requests

VARIABLES
  roles,      \* users.role, committed rows
  audit,      \* audit_logs: <<request, role>> for each PERMISSION_* entry
  told,       \* notifications: <<request, role>>, committed with the change
  lock,       \* holder of the advisory lock STAFF_LOCK_ID
  pc,         \* how far each request has come
  call,       \* what the request asks, and the actor's role as requireStaff read it
  seen,       \* the target's role as the request last read it
  wrote,      \* the target's role as its open transaction has written it
  starting,   \* how far each start's bootstrap has come
  unaudited,  \* the people a start has raised and not yet audited
  listAudit,  \* audit_logs: <<person, role>> for the entries of a bootstrap
  raised      \* history: <<person, role>> for every role a start has given

requestVars == <<pc, call, seen, wrote>>
startVars   == <<starting, unaudited, listAudit, raised>>
vars == <<roles, audit, told, lock, requestVars, startVars>>

\* What the requests and starts come to: the committed roles are the roles of the rules.
Rules == INSTANCE StaffRules WITH roles <- roles

Call == [op : {"none", "register", "grant", "revoke"}, actor : Users,
         actorRole : RoleOrNone, target : Users, given : Roles]

\* What a request not yet made asks: nothing, of nobody in particular.
NoCall == LET u == CHOOSE v \in Users : TRUE
          IN  [op |-> "none", actor |-> u, actorRole |-> NoAccount, target |-> u, given |-> "citizen"]

Stage == {"idle", "checked", "inserting", "recording", "asked", "queued", "locked",
          "found", "updated", "promoting", "promoted", "ready", "ok", "failed"}

\* Stages at which the request's transaction has a written row.
Writing == {"updated", "promoting", "promoted", "ready"}

StartStage == {"staff?", "raise", "audit", "admin?", "raiseAdmins", "auditAdmins", "done"}

\* A database as an earlier run can have left it: leadership is only ever
\* given by an administrator, and there is always one after the first.
Init ==
  /\ roles \in {t \in RoleTable :
                  (\E u \in Users : t[u] = "leadership") => AdminsIn(t) # {}}
  /\ audit = {} /\ told = {} /\ lock = NoRequest
  /\ pc = [r \in Requests |-> "idle"]
  /\ call = [r \in Requests |-> NoCall]
  /\ seen = [r \in Requests |-> NoAccount]
  /\ wrote = [r \in Requests |-> NoAccount]
  /\ starting = [s \in Starts |-> "staff?"]
  /\ unaudited = [s \in Starts |-> {}]
  /\ listAudit = {} /\ raised = {}
-----------------------------------------------------------------------------
Target(r) == call[r].target

\* The role the request's transaction sees on a row: its own write first.
RoleSeenBy(r, u) == IF u = Target(r) /\ pc[r] \in Writing THEN wrote[r] ELSE roles[u]

\* A row an open transaction has written makes other writers of it wait.
RowLocked(u) == \E r \in Requests : pc[r] \in Writing /\ Target(r) = u

Goto(r, stage) == pc' = [pc EXCEPT ![r] = stage]

\* inTransaction's ROLLBACK, or the connection closing: the write is undone
\* and the transaction-level lock is released.
Rollback(r) ==
  /\ Goto(r, "failed")
  /\ lock' = IF lock = r THEN NoRequest ELSE lock
  /\ wrote' = [wrote EXCEPT ![r] = NoAccount]
-----------------------------------------------------------------------------
(* Registration: registerUser *)

\* The address is free, as far as the first SELECT sees.
BeginRegister(r) ==
  /\ pc[r] = "idle"
  /\ \E u \in Users :
       /\ call' = [call EXCEPT ![r] = [op |-> "register", actor |-> u, actorRole |-> NoAccount,
                                       target |-> u, given |-> "citizen"]]
       /\ Goto(r, IF roles[u] = NoAccount THEN "checked" ELSE "failed")
  /\ UNCHANGED <<roles, audit, told, lock, seen, wrote, startVars>>

\* roleForNewUser: a listed address becomes a case manager while nobody is staff.
RoleForNewUser(r) ==
  /\ pc[r] = "checked"
  /\ seen' = [seen EXCEPT ![r] = IF Target(r) \in CaseManagerEmails /\ StaffIn(roles) = {}
                                   THEN "case_manager" ELSE "citizen"]
  /\ Goto(r, "inserting")
  /\ UNCHANGED <<roles, audit, told, lock, call, wrote, startVars>>

\* The INSERT; the unique index on email refuses the second of two.
InsertUser(r) ==
  /\ pc[r] = "inserting"
  /\ IF roles[Target(r)] = NoAccount
       THEN /\ roles' = [roles EXCEPT ![Target(r)] = seen[r]]
            /\ Goto(r, IF seen[r] = "citizen" THEN "ok" ELSE "recording")
       ELSE Goto(r, "failed") /\ UNCHANGED roles
  /\ UNCHANGED <<audit, told, lock, call, seen, wrote, startVars>>

\* The route records the grant after the account exists (recordAudit).
RecordRegistration(r) ==
  /\ pc[r] = "recording"
  /\ audit' = audit \cup {<<r, seen[r]>>}
  /\ Goto(r, "ok")
  /\ UNCHANGED <<roles, told, lock, call, seen, wrote, startVars>>
-----------------------------------------------------------------------------
(* Staff Access: requireStaff, then grantStaffRole or revokeStaffRole *)

\* requireStaff reads the actor's role once; what the parameters allow is
\* decided on that reading.
BeginGrant(r) ==
  /\ pc[r] = "idle"
  /\ \E a, u \in Users, given \in GrantableRoles :
       /\ roles[a] \in StaffRole
       /\ call' = [call EXCEPT ![r] = [op |-> "grant", actor |-> a, actorRole |-> roles[a],
                                       target |-> u, given |-> given]]
       /\ Goto(r, IF given # "case_manager" /\ roles[a] # "admin" THEN "failed" ELSE "asked")
  /\ UNCHANGED <<roles, audit, told, lock, seen, wrote, startVars>>

BeginRevoke(r) ==
  /\ pc[r] = "idle"
  /\ \E a, u \in Users :
       /\ roles[a] \in StaffRole
       /\ call' = [call EXCEPT ![r] = [op |-> "revoke", actor |-> a, actorRole |-> roles[a],
                                       target |-> u, given |-> "citizen"]]
       /\ Goto(r, IF u = a THEN "failed" ELSE "queued")
  /\ UNCHANGED <<roles, audit, told, lock, seen, wrote, startVars>>

\* The grant reads its target before the transaction: no such account, or a
\* role that is not the start of an upgrade, is refused here.
FindGrantee(r) ==
  /\ pc[r] = "asked"
  /\ LET role    == roles[Target(r)]
         upgrade == call[r].given = "admin" /\ role \in {"case_manager", "leadership"}
     IN  /\ seen' = [seen EXCEPT ![r] = role]
         /\ Goto(r, IF role = "citizen" \/ upgrade THEN "queued" ELSE "failed")
  /\ UNCHANGED <<roles, audit, told, lock, call, wrote, startVars>>

\* Fault: the changes of access do not wait for each other.
TakeNoLock(r) ==
  /\ pc[r] = "queued"
  /\ lock' = r
  /\ Goto(r, "locked")
  /\ UNCHANGED <<roles, audit, told, call, seen, wrote, startVars>>

\* BEGIN; pg_advisory_xact_lock.
TakeLock(r) ==
  /\ pc[r] = "queued"
  /\ lock = NoRequest
  /\ lock' = r
  /\ Goto(r, "locked")
  /\ UNCHANGED <<roles, audit, told, call, seen, wrote, startVars>>

\* The UPDATE of a grant: only if the row still holds the role read before.
UpdateGrantee(r) ==
  /\ pc[r] = "locked" /\ call[r].op = "grant"
  /\ IF roles[Target(r)] = seen[r]
       THEN /\ wrote' = [wrote EXCEPT ![r] = call[r].given]
            /\ Goto(r, "updated")
            /\ UNCHANGED lock
       ELSE Rollback(r)
  /\ UNCHANGED <<roles, audit, told, call, seen, startVars>>

\* The removal reads its target under the lock.
FindMember(r) ==
  /\ pc[r] = "locked" /\ call[r].op = "revoke"
  /\ LET role == roles[Target(r)]
     IN  IF role \in GrantableRoles /\ (role # "case_manager" => call[r].actorRole = "admin")
           THEN /\ seen' = [seen EXCEPT ![r] = role]
                /\ Goto(r, "found")
                /\ UNCHANGED <<lock, wrote>>
           ELSE Rollback(r) /\ UNCHANGED seen
  /\ UNCHANGED <<roles, audit, told, call, startVars>>

\* KEEP_ONE, evaluated by the removal's own UPDATE.
KeepOne(role) ==
  /\ role = "case_manager" => Cardinality(StaffIn(roles)) > 1
  /\ role = "admin" => Cardinality(AdminsIn(roles)) > 1

UpdateMember(r) ==
  /\ pc[r] = "found"
  /\ IF roles[Target(r)] = seen[r] /\ KeepOne(seen[r])
       THEN /\ wrote' = [wrote EXCEPT ![r] = "citizen"]
            /\ Goto(r, "updated")
            /\ UNCHANGED lock
       ELSE Rollback(r)
  /\ UNCHANGED <<roles, audit, told, call, seen, startVars>>

\* Fault: the audit entry is left for later, as recordAudit would.
WriteNoAudit(r) ==
  /\ pc[r] = "updated"
  /\ Goto(r, IF call[r].op = "grant" /\ wrote[r] = "case_manager" /\ Target(r) \in AdminEmails
               THEN "promoting" ELSE "ready")
  /\ UNCHANGED <<roles, audit, told, lock, call, seen, wrote, startVars>>

\* logAuditEvent commits on its own connection, before the change does.
WriteAudit(r) ==
  /\ pc[r] = "updated"
  /\ audit' = audit \cup {<<r, wrote[r]>>}
  /\ Goto(r, IF call[r].op = "grant" /\ wrote[r] = "case_manager" /\ Target(r) \in AdminEmails
               THEN "promoting" ELSE "ready")
  /\ UNCHANGED <<roles, told, lock, call, seen, wrote, startVars>>

\* STORY-014: a listed new case manager becomes administrator if there is none.
Promote(r) ==
  /\ pc[r] = "promoting"
  /\ IF \E u \in Users : RoleSeenBy(r, u) = "admin"
       THEN Goto(r, "ready") /\ UNCHANGED wrote
       ELSE /\ wrote' = [wrote EXCEPT ![r] = "admin"]
            /\ Goto(r, "promoted")
  /\ UNCHANGED <<roles, audit, told, lock, call, seen, startVars>>

AuditPromotion(r) ==
  /\ pc[r] = "promoted"
  /\ audit' = audit \cup {<<r, "admin">>}
  /\ Goto(r, "ready")
  /\ UNCHANGED <<roles, told, lock, call, seen, wrote, startVars>>

\* COMMIT makes the row and its notifications visible and frees the lock.
Commit(r) ==
  /\ pc[r] = "ready"
  /\ roles' = [roles EXCEPT ![Target(r)] = wrote[r]]
  /\ told' = told \cup {<<r, call[r].given>>, <<r, wrote[r]>>}
  /\ lock' = NoRequest
  /\ Goto(r, "ok")
  /\ UNCHANGED <<audit, call, seen, wrote, startVars>>

\* A statement fails, the connection drops or the process dies.
Fail(r) ==
  /\ pc[r] \notin {"idle", "ok", "failed"}
  /\ Rollback(r)
  /\ UNCHANGED <<roles, audit, told, call, seen, startVars>>
-----------------------------------------------------------------------------
(* bootstrapStaffRoles at startup: check, one UPDATE, then an audit entry each *)

StartAt(s, stage) == starting' = [starting EXCEPT ![s] = stage]

CheckStaff(s) ==
  /\ starting[s] = "staff?"
  /\ StartAt(s, IF CaseManagerEmails = {} \/ StaffIn(roles) # {} THEN "admin?" ELSE "raise")
  /\ UNCHANGED <<roles, audit, told, lock, requestVars, unaudited, listAudit, raised>>

CheckAdmins(s) ==
  /\ starting[s] = "admin?"
  /\ StartAt(s, IF AdminEmails = {} \/ AdminsIn(roles) # {} THEN "done" ELSE "raiseAdmins")
  /\ UNCHANGED <<roles, audit, told, lock, requestVars, unaudited, listAudit, raised>>

\* One UPDATE over the listed rows that have the role; it waits for a row
\* another transaction has written.
RaiseListed(s, stage, listed, from, to, next) ==
  LET S == {u \in listed : roles[u] = from}
  IN  /\ starting[s] = stage
      /\ \A u \in S : ~RowLocked(u)
      /\ roles' = [u \in Users |-> IF u \in S THEN to ELSE roles[u]]
      /\ unaudited' = [unaudited EXCEPT ![s] = S]
      /\ raised' = raised \cup (S \X {to})
      /\ StartAt(s, next)
      /\ UNCHANGED <<audit, told, lock, requestVars, listAudit>>

BootstrapCaseManagers(s) ==
  RaiseListed(s, "raise", CaseManagerEmails, "citizen", "case_manager", "audit")

BootstrapAdmins(s) ==
  RaiseListed(s, "raiseAdmins", AdminEmails, "case_manager", "admin", "auditAdmins")

AuditRaised(s, stage, role, next) ==
  /\ starting[s] = stage
  /\ IF unaudited[s] = {}
       THEN StartAt(s, next) /\ UNCHANGED <<unaudited, listAudit>>
       ELSE \E u \in unaudited[s] :
              /\ listAudit' = listAudit \cup {<<u, role>>}
              /\ unaudited' = [unaudited EXCEPT ![s] = @ \ {u}]
              /\ UNCHANGED starting
  /\ UNCHANGED <<roles, audit, told, lock, requestVars, raised>>

AuditCaseManagers(s) == AuditRaised(s, "audit", "case_manager", "admin?")
AuditAdmins(s)       == AuditRaised(s, "auditAdmins", "admin", "done")

\* The step fails and the supervisor retries it, or the server is restarted.
RestartBootstrap(s) ==
  /\ StartAt(s, "staff?")
  /\ unaudited' = [unaudited EXCEPT ![s] = {}]
  /\ UNCHANGED <<roles, audit, told, lock, requestVars, listAudit, raised>>
-----------------------------------------------------------------------------
Register(r) == BeginRegister(r) \/ RoleForNewUser(r) \/ InsertUser(r) \/ RecordRegistration(r)

GrantStaffRole(r) == BeginGrant(r) \/ FindGrantee(r) \/ UpdateGrantee(r) \/ Promote(r) \/ AuditPromotion(r)

RevokeStaffRole(r) == BeginRevoke(r) \/ FindMember(r) \/ UpdateMember(r)

BootstrapStaffRoles(s) == CheckStaff(s) \/ BootstrapCaseManagers(s) \/ AuditCaseManagers(s)
                            \/ CheckAdmins(s) \/ BootstrapAdmins(s) \/ AuditAdmins(s)

Next ==
  \/ \E r \in Requests : \/ Register(r) \/ GrantStaffRole(r) \/ RevokeStaffRole(r)
                         \/ TakeLock(r) \/ WriteAudit(r) \/ Commit(r) \/ Fail(r)
  \/ \E s \in Starts : BootstrapStaffRoles(s) \/ RestartBootstrap(s)

Spec == Init /\ [][Next]_vars
-----------------------------------------------------------------------------
\* Every variable holds a value of its kind.
TypeOK ==
  /\ roles \in RoleTable
  /\ audit \subseteq Requests \X RoleOrNone
  /\ told \subseteq Requests \X RoleOrNone
  /\ lock \in Requests \cup {NoRequest}
  /\ pc \in [Requests -> Stage]
  /\ call \in [Requests -> Call]
  /\ seen \in [Requests -> RoleOrNone]
  /\ wrote \in [Requests -> RoleOrNone]
  /\ starting \in [Starts -> StartStage]
  /\ unaudited \in [Starts -> SUBSET Users]
  /\ listAudit \subseteq Users \X Roles
  /\ raised \subseteq Users \X Roles

\* Every interleaving of registrations, grants, removals and bootstraps, with
\* any of them failing part way, changes roles only as the rules allow.
ImplementsRules == Rules!Spec

\* Once there is someone who can work cases there always is, whatever two
\* managers remove at the same instant (roleService.ts KEEP_ONE).
KeepsStaff == [][StaffIn(roles) # {} => StaffIn(roles') # {}]_roles

\* Once there is an administrator there always is one (KEEP_ONE).
KeepsAdmin == [][AdminsIn(roles) # {} => AdminsIn(roles') # {}]_roles

\* A role never changes through Staff Access without its audit entry: what a
\* committed change has told its target is in the audit trail, though the
\* trail is written on another connection.
ChangesAudited == told \subseteq audit

\* ADMIN_EMAILS makes at most one new case manager an administrator, however
\* many listed people are given access at once.
Promoted(r) == call[r].given = "case_manager" /\ <<r, "admin">> \in told
OnePromotion == \A r, q \in Requests : Promoted(r) /\ Promoted(q) => r = q

\* A role seen a moment ago is never written over: except for upgrades to
\* administrator, a person's role is removed before they are given another.
RoleMoves == {<<NoAccount, "citizen">>, <<NoAccount, "case_manager">>}
               \cup ({"citizen"} \X GrantableRoles)
               \cup {<<"case_manager", "admin">>, <<"leadership", "admin">>}
               \cup (GrantableRoles \X {"citizen"})
OneRoleAtATime ==
  [][\A u \in Users : roles'[u] # roles[u] => <<roles[u], roles'[u]>> \in RoleMoves]_roles

-----------------------------------------------------------------------------
\* What the comment of bootstrapStaffRoles says: "Every grant is audited."
\* When no start is under way, every role a start has given has its entry.
ListGrantsAudited ==
  (\A s \in Starts : starting[s] = "done") => raised \subseteq listAudit
=============================================================================
