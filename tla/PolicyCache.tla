---------------------------- MODULE PolicyCache ----------------------------
(***************************************************************************)
(* The access policy in force (policyService.ts, asked by enforcePolicy):  *)
(* versions saved one at a time in access_policy_versions, and the copy    *)
(* each process of the API decides with.  A process reads the table when a *)
(* request finds its copy older than REFRESH_MS, or after a save of its    *)
(* own; it has one read at a time, in the promise `pending`.  That the     *)
(* database runs a query and that the process learns the result are two    *)
(* steps.                                                                  *)
(***************************************************************************)
EXTENDS Naturals, FiniteSets

CONSTANTS
  Processes,  \* the instances of the API
  Callers,    \* those that serve the caller, again and again
  Saves,      \* the PUT /policies calls, each made at most once
  Calls,      \* what they may ask for: settings to turn on and off, and where
  Settings,   \* what an administrator can change: a rule switched off, a route limited
  Closing,    \* the setting that closes the route asked about to the caller's role
  Denying,    \* the setting that switches off the rule the caller relies on
  NoSave,
  MaxFailures \* bound: how many reads of the table fail

ASSUME CallersAssumption == Callers \subseteq Processes
ASSUME CallsAssumption ==
  \A c \in Calls : c.on \subseteq Settings /\ c.off \subseteq Settings /\ c.process \in Processes
ASSUME SettingsAssumption == {Closing, Denying} \subseteq Settings
ASSUME NoSaveAssumption == NoSave \notin Saves
ASSUME BoundAssumption == MaxFailures \in Nat

VARIABLES
  versions,  \* access_policy_versions: the rows committed
  serial,    \* the last number drawn for a version (a rollback leaves a gap)
  audit,     \* POLICY_CHANGE entries, by version
  lock,      \* which save holds POLICY_LOCK_ID
  loaded,    \* by process: the policy in force, once there is one
  fresh,     \* by process: checkedAt is less than REFRESH_MS ago
  pending,   \* by process: how far its read of the table has come
  seen,      \* by process: what the read was answered
  failures,
  pc,        \* how far each save has come
  call,      \* the save's change and the process that serves it
  wrote,     \* the version the save has read, then the one it writes
  missed,    \* history: saves whose own look at the table failed
  asking,    \* by caller: how far the request has come
  record,    \* ... the record is loaded for the decision
  first,     \* ... the policy in force when that was found out
  answer     \* ... the last decision

table    == <<versions, serial, audit>>
process  == <<loaded, fresh, pending, seen, failures>>
saving   == <<lock, call, wrote>>
deciding == <<record, first, answer>>
vars == <<table, process, saving, deciding, pc, missed, asking>>

\* A version as stored: what differs from the code defaults.
Version  == [version : Nat, state : SUBSET Settings]
Defaults == [version |-> 0, state |-> {}]
Nothing  == [version |-> 0, state |-> {"not loaded"}]
NoAnswer == [allow |-> FALSE, by |-> Nothing, first |-> Nothing]

Latest == IF versions = {} THEN Defaults
          ELSE CHOOSE v \in versions : \A w \in versions : w.version <= v.version

ApplyChange(state, c) == (state \ c.off) \cup c.on

Init ==
  /\ versions = {} /\ serial = 0 /\ audit = {} /\ lock = NoSave
  /\ loaded = [p \in Processes |-> Nothing]
  /\ fresh = [p \in Processes |-> FALSE]
  /\ pending = [p \in Processes |-> "none"]
  /\ seen = [p \in Processes |-> Defaults]
  /\ failures = 0
  /\ pc = [r \in Saves |-> "idle"]
  /\ call \in [Saves -> Calls]
  /\ wrote = [r \in Saves |-> Defaults]
  /\ missed = {}
  /\ asking = [p \in Callers |-> "idle"]
  /\ record = [p \in Callers |-> FALSE]
  /\ first = [p \in Callers |-> Nothing]
  /\ answer = [p \in Callers |-> NoAnswer]
-----------------------------------------------------------------------------
(* The policy in force: current, refresh, load *)

Goto(r, stage) == pc' = [pc EXCEPT ![r] = stage]
At(p)    == {r \in Saves : call[r].process = p}
Serves(p) == loaded[p] # Nothing

\* A read begins: a refresh counts as a look from now on, the first load does not.
BeginRead(p) ==
  /\ pending' = [pending EXCEPT ![p] = IF Serves(p) THEN "max" ELSE "row"]
  /\ fresh' = [fresh EXCEPT ![p] = Serves(p)]
  /\ UNCHANGED <<loaded, seen, failures>>

\* pending ??= ...: a read under way is shared.
JoinRead(p) == IF pending[p] = "none" THEN BeginRead(p) ELSE UNCHANGED process

\* Fault: the promise is kept after a failed read.
SettleForGood(p) ==
  /\ pending' = [pending EXCEPT ![p] = IF pending[p] \in {"max", "row"} THEN "stuck" ELSE "none"]
  /\ seen' = [seen EXCEPT ![p] = Defaults]
  /\ pc' = [r \in Saves |-> IF r \notin At(p) THEN pc[r]
                            ELSE CASE pc[r] = "waiting" -> "settled"
                                   [] pc[r] = "forcing" -> "saved"
                                   [] OTHER -> pc[r]]
  /\ asking' = [q \in Callers |-> IF q # p THEN asking[q]
                                   ELSE CASE asking[p] = "looking" -> "looked"
                                          [] asking[p] = "looking again" -> "ready"
                                          [] OTHER -> asking[p]]

\* The promise settles: whoever awaits it goes on.
Settle(p) ==
  /\ pending' = [pending EXCEPT ![p] = "none"]
  /\ seen' = [seen EXCEPT ![p] = Defaults]
  /\ pc' = [r \in Saves |-> IF r \notin At(p) THEN pc[r]
                            ELSE CASE pc[r] = "waiting" -> "settled"
                                   [] pc[r] = "forcing" -> "saved"
                                   [] OTHER -> pc[r]]
  /\ asking' = [q \in Callers |-> IF q # p THEN asking[q]
                                   ELSE CASE asking[p] = "looking" -> "looked"
                                          [] asking[p] = "looking again" -> "ready"
                                          [] OTHER -> asking[p]]

\* startPolicy, which the supervisor runs before the data routes open.
StartPolicy(p) ==
  /\ ~Serves(p) /\ pending[p] = "none"
  /\ BeginRead(p)
  /\ UNCHANGED <<table, saving, deciding, pc, missed, asking>>

\* REFRESH_MS has gone by; only requests ask.
Expire(p) ==
  /\ fresh[p]
  /\ fresh' = [fresh EXCEPT ![p] = FALSE]
  /\ UNCHANGED <<table, loaded, pending, seen, failures, saving, deciding, pc, missed, asking>>

\* The database answers with what is committed now.
RunQuery(p) ==
  /\ pending[p] \in {"max", "row"}
  /\ seen' = [seen EXCEPT ![p] = Latest]
  /\ pending' = [pending EXCEPT ![p] = IF @ = "max" THEN "max known" ELSE "row known"]
  /\ UNCHANGED <<table, loaded, fresh, failures, saving, deciding, pc, missed, asking>>

\* refresh: the number is the one in force, or the row is fetched.
CompareVersion(p) ==
  /\ pending[p] = "max known"
  /\ IF seen[p].version = loaded[p].version
       THEN Settle(p)
       ELSE pending' = [pending EXCEPT ![p] = "row"] /\ UNCHANGED <<seen, pc, asking>>
  /\ UNCHANGED <<table, loaded, fresh, failures, saving, deciding, missed>>

\* load: the newest version is in force.
LoadVersion(p) ==
  /\ pending[p] = "row known"
  /\ loaded' = [loaded EXCEPT ![p] = seen[p]]
  /\ fresh' = [fresh EXCEPT ![p] = TRUE]
  /\ Settle(p)
  /\ UNCHANGED <<table, failures, saving, deciding, missed>>

\* refresh swallows the error and keeps the policy in force; a first load that
\* fails is tried again by the supervisor.
ReadFails(p) ==
  /\ pending[p] # "none" /\ failures < MaxFailures
  /\ failures' = failures + 1
  /\ missed' = missed \cup {r \in At(p) : pc[r] = "forcing"}
  /\ Settle(p)
  /\ UNCHANGED <<table, loaded, fresh, saving, deciding>>
-----------------------------------------------------------------------------
(* Changing the policy: savePolicy *)

BeginSave(r) ==
  /\ pc[r] = "idle" /\ Serves(call[r].process)
  /\ Goto(r, "queued")
  /\ UNCHANGED <<table, process, saving, deciding, missed, asking>>

\* Fault: nothing keeps two changes apart.
TakeNoLock(r) ==
  /\ pc[r] = "queued"
  /\ Goto(r, "locked")
  /\ UNCHANGED <<table, process, saving, deciding, missed, asking>>

TakeLock(r) ==
  /\ pc[r] = "queued" /\ lock = NoSave
  /\ lock' = r
  /\ Goto(r, "locked")
  /\ UNCHANGED <<table, process, call, wrote, deciding, missed, asking>>

Rollback(r) ==
  /\ Goto(r, "failed")
  /\ lock' = IF lock = r THEN NoSave ELSE lock

\* The newest version, and whether the change would change it.
ReadLatest(r) ==
  /\ pc[r] = "locked"
  /\ wrote' = [wrote EXCEPT ![r] = Latest]
  /\ IF ApplyChange(Latest.state, call[r]) = Latest.state
       THEN Rollback(r)
       ELSE Goto(r, "read") /\ UNCHANGED lock
  /\ UNCHANGED <<table, process, call, deciding, missed, asking>>

InsertVersion(r) ==
  /\ pc[r] = "read"
  /\ serial' = serial + 1
  /\ wrote' = [wrote EXCEPT ![r] = [version |-> serial', state |-> ApplyChange(@.state, call[r])]]
  /\ Goto(r, "inserted")
  /\ UNCHANGED <<versions, audit, process, lock, call, deciding, missed, asking>>

AuditVersion(r) ==
  /\ pc[r] = "inserted"
  /\ audit' = audit \cup {wrote[r].version}
  /\ Goto(r, "audited")
  /\ UNCHANGED <<versions, serial, process, saving, deciding, missed, asking>>

\* Fault: the process puts its own version in force without a read.
CommitAndApply(r) ==
  /\ pc[r] = "audited"
  /\ versions' = versions \cup {wrote[r]}
  /\ loaded' = [loaded EXCEPT ![call[r].process] = wrote[r]]
  /\ lock' = IF lock = r THEN NoSave ELSE lock
  /\ Goto(r, "saved")
  /\ UNCHANGED <<serial, audit, fresh, pending, seen, failures, call, wrote, deciding, missed, asking>>

CommitSave(r) ==
  /\ pc[r] = "audited"
  /\ versions' = versions \cup {wrote[r]}
  /\ lock' = IF lock = r THEN NoSave ELSE lock
  /\ Goto(r, "committed")
  /\ UNCHANGED <<serial, audit, process, call, wrote, deciding, missed, asking>>

\* Fault: the read that is under way is taken for this one.
ForceShared(r) ==
  /\ pc[r] = "committed"
  /\ Goto(r, "forcing")
  /\ JoinRead(call[r].process)
  /\ UNCHANGED <<table, saving, deciding, missed, asking>>

\* getPolicyView, current(true): a read begun before the save is awaited first.
ForceRead(r) ==
  /\ pc[r] = "committed"
  /\ LET p == call[r].process
     IN  IF pending[p] # "none"
           THEN Goto(r, "waiting") /\ UNCHANGED process
           ELSE Goto(r, "forcing") /\ BeginRead(p)
  /\ UNCHANGED <<table, saving, deciding, missed, asking>>

\* The commit is answered too late or not at all, or the process stops: nobody looks.
LoseAnswer(r) ==
  /\ pc[r] = "committed"
  /\ Goto(r, "lost")
  /\ UNCHANGED <<table, process, saving, deciding, missed, asking>>

\* Then it reads again, or shares a read begun since.
ForceAgain(r) ==
  /\ pc[r] = "settled"
  /\ Goto(r, "forcing")
  /\ JoinRead(call[r].process)
  /\ UNCHANGED <<table, saving, deciding, missed, asking>>

\* A refused statement or a lost connection, before the commit.
Fail(r) ==
  /\ pc[r] \in {"queued", "locked", "read", "inserted", "audited"}
  /\ Rollback(r)
  /\ UNCHANGED <<table, process, call, wrote, deciding, missed, asking>>
-----------------------------------------------------------------------------
(* Deciding: enforcePolicy, recordToLoad, decide *)

\* current(): the policy in force will do while it is fresh.
LookUp(p) ==
  /\ Serves(p) /\ asking[p] \in {"idle", "recorded"}
  /\ IF fresh[p]
       THEN /\ asking' = [asking EXCEPT ![p] = IF @ = "idle" THEN "looked" ELSE "ready"]
            /\ UNCHANGED process
       ELSE /\ asking' = [asking EXCEPT ![p] = IF @ = "idle" THEN "looking" ELSE "looking again"]
            /\ JoinRead(p)
  /\ answer' = [answer EXCEPT ![p] = NoAnswer]
  /\ UNCHANGED <<table, saving, record, first, pc, missed>>

\* recordToLoad: no record is loaded for a role the route is closed to.
RecordToLoad(p) ==
  /\ asking[p] = "looked"
  /\ first' = [first EXCEPT ![p] = loaded[p]]
  /\ record' = [record EXCEPT ![p] = Closing \notin loaded[p].state]
  /\ asking' = [asking EXCEPT ![p] = "recorded"]
  /\ UNCHANGED <<table, process, saving, answer, pc, missed>>

\* The policy's rule for this caller and this record.
Permits(state) == Closing \notin state /\ Denying \notin state

\* Fault: the answer is the one of the policy looked up first.
DecideAsBefore(p) ==
  /\ asking[p] = "ready"
  /\ answer' = [answer EXCEPT ![p] = [allow |-> record[p] /\ Permits(first[p].state),
                                      by |-> loaded[p], first |-> first[p]]]
  /\ asking' = [asking EXCEPT ![p] = "idle"]
  /\ record' = [record EXCEPT ![p] = FALSE]
  /\ first' = [first EXCEPT ![p] = Nothing]
  /\ UNCHANGED <<table, process, saving, pc, missed>>

\* evaluate, straight after the version is read: without the record no rule matches.
Decide(p) ==
  /\ asking[p] = "ready"
  /\ answer' = [answer EXCEPT ![p] = [allow |-> record[p] /\ Permits(loaded[p].state),
                                      by |-> loaded[p], first |-> first[p]]]
  /\ asking' = [asking EXCEPT ![p] = "idle"]
  /\ record' = [record EXCEPT ![p] = FALSE]
  /\ first' = [first EXCEPT ![p] = Nothing]
  /\ UNCHANGED <<table, process, saving, pc, missed>>

Read(p)     == RunQuery(p) \/ CompareVersion(p) \/ LoadVersion(p)
InForce(p)  == StartPolicy(p) \/ Read(p) \/ ReadFails(p)
SavePolicy(r) ==
  \/ BeginSave(r) \/ TakeLock(r) \/ ReadLatest(r) \/ InsertVersion(r) \/ AuditVersion(r)
  \/ CommitSave(r) \/ ForceRead(r) \/ ForceAgain(r) \/ LoseAnswer(r) \/ Fail(r)
EnforcePolicy(p) == LookUp(p) \/ RecordToLoad(p) \/ Decide(p)

Next ==
  \/ \E p \in Processes : InForce(p)
  \/ \E p \in Callers : Expire(p) \/ EnforcePolicy(p)
  \/ \E r \in Saves : SavePolicy(r)

Spec == Init /\ [][Next]_vars

\* The supervisor runs startPolicy until it succeeds, reads come to an end, and
\* time goes by.  Nothing is assumed of the callers and the administrators.
Fairness ==
  /\ \A p \in Processes : WF_vars(StartPolicy(p)) /\ WF_vars(Read(p))
  /\ \A p \in Callers : WF_vars(Expire(p))

FairSpec == Spec /\ Fairness
-----------------------------------------------------------------------------
\* Types; a process that decides has a policy, and a row was written by its save.
TypeOK ==
  /\ versions \subseteq Version /\ serial \in Nat /\ audit \subseteq 1 .. serial
  /\ \A v \in versions : v.version \in 1 .. serial
  /\ lock \in Saves \cup {NoSave}
  /\ loaded \in [Processes -> Version \cup {Nothing}] /\ fresh \in [Processes -> BOOLEAN]
  /\ pending \in [Processes -> {"none", "max", "row", "max known", "row known"}]
  /\ seen \in [Processes -> Version] /\ failures \in 0 .. MaxFailures
  /\ pc \in [Saves -> {"idle", "queued", "locked", "read", "inserted", "audited", "committed",
                       "waiting", "settled", "forcing", "saved", "lost", "failed"}]
  /\ call \in [Saves -> Calls]
  /\ wrote \in [Saves -> Version] /\ missed \subseteq Saves
  /\ asking \in [Callers -> {"idle", "looking", "looked", "recorded", "looking again", "ready"}]
  /\ record \in [Callers -> BOOLEAN] /\ first \in [Callers -> Version \cup {Nothing}]
  /\ answer \in [Callers -> [allow : BOOLEAN, by : Version \cup {Nothing}, first : Version \cup {Nothing}]]
  /\ \A p \in Callers : asking[p] # "idle" => Serves(p)

Saved == {"committed", "waiting", "settled", "forcing", "saved", "lost"}

Before(v) == {w \in versions : w.version < v.version}

\* The version a version was made on: the newest one older than it.
Previous(v) == IF Before(v) = {} THEN Defaults
               ELSE CHOOSE w \in Before(v) : \A x \in Before(v) : x.version <= w.version

\* "two administrators cannot overwrite each other's change": each version is the
\* one before it with the change of one save, also when saves overlap or fail
\* (savePolicy under POLICY_LOCK_ID).
NoChangeLost ==
  \A r \in Saves : pc[r] \in Saved =>
    /\ wrote[r] \in versions
    /\ wrote[r].state = ApplyChange(Previous(wrote[r]).state, call[r])

\* "a policy never changes without its audit entry" (savePolicy).
ChangesAudited == \A v \in versions : v.version \in audit

\* No process ever goes back to an older version, however reads, saves and
\* failures overlap (current shares one read at a time).
NeverBack ==
  [][\A p \in Processes : Serves(p) => loaded'[p].version >= loaded[p].version]_loaded

\* "applies it in this process at once": when a save answers, its process has
\* its version or a newer one in force, unless the look at the table failed
\* (savePolicy, current(true)).
AppliesAtOnce ==
  \A r \in Saves : pc[r] = "saved" /\ r \notin missed =>
    loaded[call[r].process].version >= wrote[r].version

\* The version reported is the one that decided; a request is allowed only by
\* the policy in force at that moment, and refused only for a reason in that one
\* or in the one its record was looked up under (enforcePolicy, decide).
DecisionsJustified ==
  \A p \in Callers :
    LET a == answer[p]
    IN  a.by # Nothing => IF a.allow THEN Permits(a.by.state)
                          ELSE ~Permits(a.by.state) \/ ~Permits(a.first.state)

\* Where a caller keeps asking, a saved version is in force in the end, whatever
\* reads failed before (refresh, and current's `pending`).
InForceInTheEnd ==
  \A p \in Callers : WF_vars(EnforcePolicy(p)) =>
    \A r \in Saves : pc[r] \in Saved ~> loaded[p].version >= wrote[r].version
=============================================================================
