---------------------------- MODULE Availability ----------------------------
(***************************************************************************)
(* The start of the API without a database, the gate in front of the data  *)
(* routes and the probe that closes and opens it (startup.ts,              *)
(* availability.ts, index.ts), together with the requests that share the   *)
(* pool of connections (connection.ts) and whose failures close the gate.  *)
(***************************************************************************)
EXTENDS Integers, FiniteSets

CONSTANTS
  Steps,      \* how many steps a start has
  PoolMax,    \* DATABASE_POOL_MAX
  DataRequests, \* the requests that can be under way at the same time
  Nobody

ASSUME SizesAssumption == Steps \in Nat \ {0} /\ PoolMax \in Nat \ {0}
ASSUME DataRequestsAssumption == IsFiniteSet(DataRequests) /\ Nobody \notin DataRequests

VARIABLES
  db,         \* whether the database can be reached
  reachable,  \* index.ts: whether it could before the steps
  listening,  \* whether the port is open
  stage,      \* the supervisor: what it is doing
  step,       \* the step it is at
  done,       \* the steps that have finished
  startupComplete, database, \* availability.ts: the state the gate asks
  probe,      \* the monitor: asleep, or waiting for the answer of SELECT 1
  phase,      \* by request: how far it has come
  lock        \* the request whose transaction holds the advisory lock

gate == <<startupComplete, database>>
boot == <<reachable, listening, stage, step, done>>
work == <<phase, lock>>
availabilityVars == <<db, boot, gate, probe, work>>

AvailabilityInit ==
  /\ db \in {"up", "down"}
  /\ reachable = FALSE /\ listening = FALSE
  /\ stage = "begin" /\ step = 1 /\ done = {}
  /\ startupComplete = FALSE /\ database = "ok"
  /\ probe = "off"
  /\ phase = [r \in DataRequests |-> "idle"] /\ lock = Nobody

Open == startupComplete /\ database = "ok"

\* Who holds a pooled connection; the audit entry's is given back at once.
Connected == {"reading", "changing", "locked", "audited"}
InUse     == Cardinality({r \in DataRequests : phase[r] \in Connected})
Saturated == InUse >= PoolMax

MarkDown == database' = "down"
MarkUp   == database' = "ok"

\* The network, or the database's host.
Outage  == db = "up" /\ db' = "down" /\ UNCHANGED <<boot, gate, probe, work>>
Recover == db = "down" /\ db' = "up" /\ UNCHANGED <<boot, gate, probe, work>>
-----------------------------------------------------------------------------
(* start and runSteps *)

\* With the database out of reach the port opens at once.
BeginStart ==
  /\ stage = "begin"
  /\ reachable' = (db = "up") /\ listening' = (db = "down")
  /\ stage' = "running"
  /\ UNCHANGED <<db, step, done, gate, probe, work>>

Running == stage = "running" /\ step <= Steps

RunStep ==
  /\ Running /\ db = "up"
  /\ done' = done \cup {step} /\ step' = step + 1
  /\ UNCHANGED <<db, reachable, listening, stage, gate, probe, work>>

\* The database answered, and the work is wrong: onFatal, and the process exits.
FailRelease ==
  /\ Running /\ db = "up"
  /\ stage' = "exited" /\ listening' = FALSE
  /\ UNCHANGED <<db, reachable, step, done, gate, probe, work>>

\* Fault: the loop goes on to the next step.
SkipStep ==
  /\ Running /\ db = "down"
  /\ MarkDown /\ stage' = "waiting" /\ step' = step + 1
  /\ UNCHANGED <<db, reachable, listening, done, startupComplete, probe, work>>

\* The same step again, after the backoff.
StepUnreachable ==
  /\ Running /\ db = "down"
  /\ MarkDown /\ stage' = "waiting"
  /\ UNCHANGED <<db, reachable, listening, step, done, startupComplete, probe, work>>

Retry ==
  /\ stage = "waiting" /\ stage' = "running"
  /\ UNCHANGED <<db, reachable, listening, step, done, gate, probe, work>>

\* startupDone: the gate opens, the port too if it has not, and the monitor begins.
CompleteStartup ==
  /\ stage = "running" /\ step > Steps
  /\ MarkUp /\ startupComplete' = TRUE
  /\ stage' = "serving" /\ listening' = TRUE /\ probe' = "asleep"
  /\ UNCHANGED <<db, reachable, step, done, work>>
-----------------------------------------------------------------------------
(* monitor, and GET /health *)

SendProbe ==
  /\ probe = "asleep" /\ probe' = "asked"
  /\ UNCHANGED <<db, boot, gate, work>>

ProbeAnswers ==
  /\ probe = "asked" /\ db = "up" /\ ~Saturated
  /\ MarkUp /\ probe' = "asleep"
  /\ UNCHANGED <<db, boot, startupComplete, work>>

\* Fault: the loop ends at the first failure.
ProbeFailsForGood ==
  /\ probe = "asked" /\ (db = "down" \/ Saturated)
  /\ MarkDown /\ probe' = "off"
  /\ UNCHANGED <<db, boot, startupComplete, work>>

\* Refused, or no answer within four seconds, which a full pool brings about too.
ProbeFails ==
  /\ probe = "asked" /\ (db = "down" \/ Saturated)
  /\ MarkDown /\ probe' = "asleep"
  /\ UNCHANGED <<db, boot, startupComplete, work>>

\* A check that waits for a full pool says so and closes nothing.
CheckHealth ==
  /\ listening /\ Open /\ db = "down" /\ ~Saturated
  /\ MarkDown
  /\ UNCHANGED <<db, boot, startupComplete, probe, work>>
-----------------------------------------------------------------------------
(* A request of a data route *)

Enter(r, s) == phase' = [phase EXCEPT ![r] = s]
Leave(r, s) == Enter(r, s) /\ lock' = IF lock = r THEN Nobody ELSE lock
Away == <<db, boot, gate, probe>>

\* requireDatabase lets it through, and it waits for a connection.
LetThrough(r) ==
  /\ phase[r] = "idle" /\ listening /\ Open
  /\ Enter(r, "queued")
  /\ UNCHANGED <<Away, lock>>

\* It reads, or changes what an advisory lock guards.
Connect(r) ==
  /\ phase[r] = "queued" /\ db = "up" /\ ~Saturated
  /\ Enter(r, "reading") \/ Enter(r, "changing")
  /\ UNCHANGED <<Away, lock>>

TakeLock(r) ==
  /\ phase[r] = "changing" /\ db = "up" /\ lock = Nobody
  /\ Enter(r, "locked") /\ lock' = r
  /\ UNCHANGED Away

\* logAuditEvent inside the transaction: a second connection, for one statement.
LogChange(r) ==
  /\ phase[r] = "locked" /\ db = "up" /\ ~Saturated
  /\ Enter(r, "audited")
  /\ UNCHANGED <<Away, lock>>

Finish(r) ==
  /\ phase[r] \in {"reading", "audited"} /\ db = "up"
  /\ Leave(r, "idle")
  /\ UNCHANGED Away

\* Fault: the pool has no connectionTimeoutMillis.
NeverTimeOut(r) == FALSE /\ UNCHANGED availabilityVars

\* connectionTimeoutMillis: no connection in time, for it or for its entry; the
\* transaction is rolled back and its own connection given back.
TimeOut(r) ==
  /\ phase[r] \in {"queued", "locked"} /\ (db = "down" \/ Saturated)
  /\ Leave(r, "timedOut")
  /\ UNCHANGED Away

Break(r) ==
  /\ phase[r] \in Connected /\ db = "down"
  /\ Leave(r, "broken")
  /\ UNCHANGED Away

\* errorHandler: a timeout while the pool is full is overload, all else an outage.
HandleError(r) ==
  /\ phase[r] \in {"timedOut", "broken"}
  /\ IF phase[r] = "timedOut" /\ Saturated THEN UNCHANGED database ELSE MarkDown
  /\ Enter(r, "idle")
  /\ UNCHANGED <<db, boot, startupComplete, probe, lock>>
-----------------------------------------------------------------------------
Supervisor == BeginStart \/ RunStep \/ FailRelease \/ StepUnreachable \/ Retry \/ CompleteStartup
Monitor    == SendProbe \/ ProbeAnswers \/ ProbeFails
Request(r) == LetThrough(r) \/ Connect(r) \/ TakeLock(r) \/ LogChange(r) \/ Finish(r) \/ TimeOut(r)
                \/ Break(r) \/ HandleError(r)

AvailabilityNext ==
  Outage \/ Recover \/ Supervisor \/ Monitor \/ CheckHealth \/ \E r \in DataRequests : Request(r)
AvailabilitySpec == AvailabilityInit /\ [][AvailabilityNext]_availabilityVars

\* The timers of the process fire and what it has begun goes on; the pool and the
\* advisory lock serve in turn, and a broken connection is noticed.  Nothing makes the
\* database come back or a request arrive.
Progress(r) == Connect(r) \/ LogChange(r) \/ Finish(r) \/ TimeOut(r) \/ Break(r) \/ HandleError(r)
AvailabilityFairness ==
  /\ WF_availabilityVars(Supervisor) /\ WF_availabilityVars(Monitor)
  /\ \A r \in DataRequests : /\ WF_availabilityVars(Progress(r))
                             /\ SF_availabilityVars(TakeLock(r) \/ Break(r))
AvailabilityFairSpec == AvailabilitySpec /\ AvailabilityFairness
-----------------------------------------------------------------------------
AvailabilityTypeOK ==
  /\ db \in {"up", "down"} /\ reachable \in BOOLEAN /\ listening \in BOOLEAN
  /\ stage \in {"begin", "running", "waiting", "serving", "exited"}
  /\ step \in 1..(Steps + 1) /\ done \subseteq 1..Steps
  /\ startupComplete \in BOOLEAN /\ database \in {"ok", "down"}
  /\ probe \in {"off", "asleep", "asked"}
  /\ phase \in [DataRequests -> {"idle", "queued", "timedOut", "broken"} \cup Connected]
  /\ lock \in DataRequests \cup {Nobody}

\* No request is served before every step is done, whatever the database did while
\* they ran (startup.ts); and when it could be reached no port is open before that, so
\* that "a bad release exits before Render sees a port" (index.ts).
ServedAfterStart ==
  /\ \A r \in DataRequests : phase[r] # "idle" => done = 1..Steps
  /\ listening /\ reachable => done = 1..Steps

\* The lock belongs to a transaction that is still going, and to one at a time.
LockHeld == \A r \in DataRequests : phase[r] \in {"locked", "audited"} <=> lock = r

\* "The API opens by itself when the database returns" (index.ts): when the database
\* stays within reach the data routes open again and again, unless the release fails.
OpensInTheEnd == <>[](db = "up") => []<>Open \/ <>(stage = "exited")

\* "A probe every few seconds notices a database that goes away later" (startup.ts).
ClosesInTheEnd == <>[](db = "down") => <>[]~Open

\* The gate follows the database, in both directions (monitor, runSteps).
GateFollows == OpensInTheEnd /\ ClosesInTheEnd

\* Every request let through is answered, also when the pool is full of changes that
\* wait for a lock whose holder waits for a second connection.
RequestsAnswered == \A r \in DataRequests : phase[r] = "queued" ~> phase[r] = "idle"

-----------------------------------------------------------------------------
(* What does not hold *)

\* "The service is overloaded, the database is not down" (app.ts, availability.ts): a
\* full pool does not close the gate while the database answers all along.
OverloadStaysOpen == [](db = "up") => [](database = "ok")

\* "The API now starts and listens whatever the database is doing" (availability.ts).
Listens == <>(listening \/ stage = "exited")
=============================================================================
