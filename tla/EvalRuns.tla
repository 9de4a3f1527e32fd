------------------------------ MODULE EvalRuns ------------------------------
(***************************************************************************)
(* The evaluation and fairness runs of the policy assistant                *)
(* (evalRunService.ts): started by administrators at most once an hour of  *)
(* a kind, finished in the background by the process that started them,    *)
(* given up when it seems to have restarted, and marked as the baseline    *)
(* later runs are compared with.  Runs of one mode.                        *)
(***************************************************************************)
EXTENDS Integers, FiniteSets

CONSTANTS
  Starts,               \* the requests to start a run; each names the run it makes
  Marks,                \* the requests to mark a run as the baseline
  Nobody,
  RUN_INTERVAL_MINUTES,
  STALE_RUN_MINUTES,
  LastMinute            \* bound: where the clock stops

ASSUME RequestsAssumption == Starts \cap Marks = {} /\ Nobody \notin Starts \cup Marks
ASSUME MinutesAssumption  == /\ RUN_INTERVAL_MINUTES \in Nat /\ STALE_RUN_MINUTES \in Nat
                             /\ LastMinute \in Nat

VARIABLES
  now,
  status,    \* assistant_eval_runs.status, by the request that started the run
  created,   \* created_at
  baseline,  \* the runs with is_baseline
  audit,     \* AI_EVAL_RUN and AI_EVAL_BASELINE entries
  lock,      \* who holds RUN_LOCK_ID
  held,      \* by run: the open transaction that has locked its row
  pc,        \* how far each request has come, and the run after it
  kind,      \* by start: the kind of run asked for
  began,     \* by start: NOW() of its transaction
  target,    \* by mark: the run to be the baseline
  released   \* by mark: the rows its UPDATE is to release, then the ones it has

rows   == <<status, created, baseline>>
locals == <<kind, began, target, released>>
vars   == <<now, rows, audit, lock, held, pc, locals>>

Kinds  == {"eval", "fairness"}
Exists(r) == status[r] # "none"

Init ==
  /\ now = 0
  /\ status = [r \in Starts |-> "none"] /\ created = [r \in Starts |-> 0]
  /\ baseline = {} /\ audit = {}
  /\ lock = Nobody /\ held = [r \in Starts |-> Nobody]
  /\ pc = [r \in Starts \cup Marks |-> "idle"]
  /\ kind \in [Starts -> Kinds] /\ began = [r \in Starts |-> 0]
  /\ target = [m \in Marks |-> Nobody] /\ released = [m \in Marks |-> {}]

Tick ==
  /\ now < LastMinute
  /\ now' = now + 1
  /\ UNCHANGED <<rows, audit, lock, held, pc, locals>>

Goto(x, stage) == pc' = [pc EXCEPT ![x] = stage]
HeldBy(x)  == {r \in Starts : held[r] = x}
Free(x)    == held' = [r \in Starts |-> IF held[r] = x THEN Nobody ELSE held[r]]
Hold(x, S) == held' = [r \in Starts |-> IF r \in S THEN x ELSE held[r]]

Rollback(x, stage) ==
  /\ Goto(x, stage) /\ Free(x)
  /\ lock' = IF lock = x THEN Nobody ELSE lock
-----------------------------------------------------------------------------
(* startRun *)

BeginStart(r) ==
  /\ pc[r] = "idle"
  /\ began' = [began EXCEPT ![r] = now]
  /\ Goto(r, "queued")
  /\ UNCHANGED <<now, rows, audit, lock, held, kind, target, released>>

\* Fault: nothing keeps two starts apart.
TakeNoLock(r) ==
  /\ pc[r] = "queued"
  /\ Goto(r, "locked")
  /\ UNCHANGED <<now, rows, audit, lock, held, locals>>

TakeLock(r) ==
  /\ pc[r] = "queued" /\ lock = Nobody
  /\ lock' = r
  /\ Goto(r, "locked")
  /\ UNCHANGED <<now, rows, audit, held, locals>>

\* Fault: the condition on the status is left out.
StaleByAge(q, r) == Exists(q) /\ created[q] < began[r] - STALE_RUN_MINUTES

Stale(q, r) == status[q] = "running" /\ created[q] < began[r] - STALE_RUN_MINUTES

\* The UPDATE of the runs that seem cut off; their rows are locked until the end.
FailStale(r) ==
  /\ pc[r] = "locked"
  /\ Hold(r, {q \in Starts : Stale(q, r)})
  /\ Goto(r, "marked")
  /\ UNCHANGED <<now, rows, audit, lock, locals>>

Recent(q, r) == Exists(q) /\ kind[q] = kind[r] /\ created[q] > began[r] - RUN_INTERVAL_MINUTES

\* A run within the hour: refused, and what was given up is taken back with it.
CountRuns(r) ==
  /\ pc[r] = "marked"
  /\ IF \E q \in Starts : Recent(q, r)
       THEN Rollback(r, "refused")
       ELSE Goto(r, "counted") /\ UNCHANGED <<lock, held>>
  /\ UNCHANGED <<now, rows, audit, locals>>

\* The INSERT and the COMMIT.
CommitStart(r) ==
  /\ pc[r] = "counted"
  /\ status' = [q \in Starts |-> IF q = r THEN "running"
                                 ELSE IF q \in HeldBy(r) THEN "failed" ELSE status[q]]
  /\ created' = [created EXCEPT ![r] = began[r]]
  /\ Free(r)
  /\ lock' = IF lock = r THEN Nobody ELSE lock
  /\ Goto(r, "started")
  /\ UNCHANGED <<now, baseline, audit, locals>>

\* The entry; then the run goes on in the background.
LogStart(r) ==
  /\ pc[r] = "started"
  /\ audit' = audit \cup {<<r, "started">>}
  /\ Goto(r, "working")
  /\ UNCHANGED <<now, rows, lock, held, locals>>

Fail(r) ==
  /\ pc[r] \in {"queued", "locked", "marked", "counted"}
  /\ Rollback(r, "error")
  /\ UNCHANGED <<now, rows, audit, locals>>
-----------------------------------------------------------------------------
(* finishRun *)

\* Waits for a transaction that has locked the row.
WriteStatus(r, s) ==
  /\ held[r] = Nobody
  /\ status' = [status EXCEPT ![r] = s]
  /\ UNCHANGED <<created, baseline>>

StoreRun(r) ==
  /\ pc[r] = "working"
  /\ WriteStatus(r, "completed")
  /\ Goto(r, "stored")
  /\ UNCHANGED <<now, audit, lock, held, locals>>

LogFinish(r) ==
  /\ pc[r] = "stored"
  /\ audit' = audit \cup {<<r, "finished">>}
  /\ Goto(r, "done")
  /\ UNCHANGED <<now, rows, lock, held, locals>>

\* The work, its UPDATE or its entry failed.
RunError(r) ==
  /\ pc[r] \in {"working", "stored"}
  /\ Goto(r, "failing")
  /\ UNCHANGED <<now, rows, audit, lock, held, locals>>

\* Each of its two statements may fail, and nothing comes of that.
MarkFailed(r) ==
  /\ pc[r] = "failing"
  /\ WriteStatus(r, "failed") \/ UNCHANGED rows
  /\ audit' \in {audit, audit \cup {<<r, "failed">>}}
  /\ Goto(r, "done")
  /\ UNCHANGED <<now, lock, held, locals>>

\* The process restarts, or the entry of the start cannot be written: nobody works
\* on the run any more.
Abandon(r) ==
  /\ pc[r] \in {"started", "working", "stored", "failing"}
  /\ Goto(r, "gone")
  /\ UNCHANGED <<now, rows, audit, lock, held, locals>>
-----------------------------------------------------------------------------
(* markBaseline *)

\* SELECT ... FOR UPDATE, and the checks.
FindRun(m, r) ==
  /\ pc[m] = "idle"
  /\ held[r] = Nobody /\ status[r] = "completed" /\ kind[r] = "eval"
  /\ Hold(m, {r})
  /\ target' = [target EXCEPT ![m] = r]
  /\ Goto(m, "found")
  /\ UNCHANGED <<now, rows, audit, lock, kind, began, released>>

\* The UPDATE begins: the baselines it sees.
FindBaseline(m) ==
  /\ pc[m] = "found"
  /\ released' = [released EXCEPT ![m] = baseline]
  /\ Goto(m, "releasing")
  /\ UNCHANGED <<now, rows, audit, lock, held, kind, began, target>>

\* Fault: the release is committed at once.
ReleaseAlone(m) ==
  /\ pc[m] = "releasing"
  /\ \A r \in released[m] : held[r] \in {Nobody, m}
  /\ baseline' = baseline \ released[m]
  /\ Hold(m, released[m] \cap baseline)
  /\ Goto(m, "released")
  /\ UNCHANGED <<now, status, created, audit, lock, locals>>

\* It waits for each row that is locked, and looks at it again.
ReleaseBaseline(m) ==
  /\ pc[m] = "releasing"
  /\ \A r \in released[m] : held[r] \in {Nobody, m}
  /\ released' = [released EXCEPT ![m] = @ \cap baseline]
  /\ Hold(m, released[m] \cap baseline)
  /\ Goto(m, "released")
  /\ UNCHANGED <<now, rows, audit, lock, kind, began, target>>

\* The unique index waits for a baseline not yet committed, and refuses a second.
SetBaseline(m) ==
  /\ pc[m] = "released"
  /\ \A n \in Marks : pc[n] # "set"
  /\ IF baseline \subseteq released[m] \cup {target[m]}
       THEN Goto(m, "set") /\ UNCHANGED <<lock, held>>
       ELSE Rollback(m, "error")
  /\ UNCHANGED <<now, rows, audit, locals>>

CommitMark(m) ==
  /\ pc[m] = "set"
  /\ baseline' = (baseline \ released[m]) \cup {target[m]}
  /\ Free(m)
  /\ Goto(m, "committed")
  /\ UNCHANGED <<now, status, created, audit, lock, locals>>

LogMark(m) ==
  /\ pc[m] = "committed"
  /\ audit' = audit \cup {<<target[m], "baseline">>}
  /\ Goto(m, "done")
  /\ UNCHANGED <<now, rows, lock, held, locals>>

FailMark(m) ==
  /\ pc[m] \in {"found", "releasing", "released", "set"}
  /\ Rollback(m, "error")
  /\ UNCHANGED <<now, rows, audit, locals>>

StartRun(r) == BeginStart(r) \/ TakeLock(r) \/ FailStale(r) \/ CountRuns(r)
               \/ CommitStart(r) \/ LogStart(r) \/ Fail(r)
FinishRun(r) == StoreRun(r) \/ LogFinish(r) \/ RunError(r) \/ MarkFailed(r) \/ Abandon(r)
MarkBaseline(m) ==
  \/ \E r \in Starts : FindRun(m, r)
  \/ FindBaseline(m) \/ ReleaseBaseline(m) \/ SetBaseline(m) \/ CommitMark(m)
  \/ LogMark(m) \/ FailMark(m)

Next ==
  \/ Tick
  \/ \E r \in Starts : StartRun(r) \/ FinishRun(r)
  \/ \E m \in Marks : MarkBaseline(m)

Spec == Init /\ [][Next]_vars
-----------------------------------------------------------------------------
StartStage == {"idle", "queued", "locked", "marked", "counted", "refused", "error", "started",
               "working", "stored", "failing", "done", "gone"}
MarkStage  == {"idle", "found", "releasing", "released", "set", "error", "committed", "done"}

\* Types; a baseline is an evaluation run.
TypeOK ==
  /\ now \in 0 .. LastMinute
  /\ status \in [Starts -> {"none", "running", "completed", "failed"}]
  /\ created \in [Starts -> 0 .. now] /\ began \in [Starts -> 0 .. now]
  /\ audit \subseteq Starts \X {"started", "finished", "failed", "baseline"}
  /\ lock \in Starts \cup {Nobody} /\ held \in [Starts -> Starts \cup Marks \cup {Nobody}]
  /\ pc \in [Starts \cup Marks -> StartStage \cup MarkStage]
  /\ \A r \in Starts : pc[r] \in StartStage
  /\ \A m \in Marks : pc[m] \in MarkStage
  /\ kind \in [Starts -> Kinds] /\ target \in [Marks -> Starts \cup {Nobody}]
  /\ released \in [Marks -> SUBSET Starts]
  /\ baseline \subseteq {r \in Starts : kind[r] = "eval"}

\* "At most one run of a kind in any hour", however starts overlap: a start that
\* waits for the lock counts with the time its transaction began (startRun).
OncePerHour ==
  \A q, r \in Starts : q # r /\ Exists(q) /\ Exists(r) /\ kind[q] = kind[r] =>
    \/ created[q] >= created[r] + RUN_INTERVAL_MINUTES
    \/ created[r] >= created[q] + RUN_INTERVAL_MINUTES

\* There is at most one baseline, and once there is one there always is, whatever
\* marks overlap and fail (markBaseline and the unique index of migration 022).
OneBaseline ==
  /\ [](\A q, r \in baseline : q = r)
  /\ [][baseline # {} => baseline' # {}]_baseline

\* A run that has stored its results becomes failed only by an error of its own:
\* a start that gives up stale runs at the same moment never overwrites it
\* (startRun's UPDATE beside finishRun's).
CompletedStays ==
  [][\A r \in Starts : status[r] = "completed" /\ status'[r] # "completed" => pc[r] = "failing"]_status
=============================================================================
