--------------------------- MODULE ServiceHealth ---------------------------
(***************************************************************************)
(* What the service measures about itself: requests counted in memory by   *)
(* the minute (metricsRecorder.ts), the rows they are written to           *)
(* (metricsStore.ts), the objectives evaluated on those rows (slo.ts,      *)
(* sloService.ts) and the alerts kept in step with them and with the       *)
(* drift of the answers (aiQualityService.ts).  One route.                 *)
(***************************************************************************)
EXTENDS Integers, Sequences, FiniteSetsExt

CONSTANTS
  Windows,          \* the windows an objective is evaluated over
  SLO_WINDOWS,      \* by window: its minutes
  MIN_REQUESTS,
  Views,            \* AI quality pages being loaded, the timer's among them
  TimerView,
  Pages,            \* pages of figures being loaded
  LastMinute,       \* bound: where the clock stops
  Budgets           \* bounds: what a behaviour is made of, and how much of it there is

ASSUME WindowsAssumption == /\ SLO_WINDOWS \in [Windows -> Nat \ {0}] /\ MIN_REQUESTS \in Nat \ {0}
                            /\ TimerView \in Views /\ LastMinute \in Nat
                            /\ Budgets \subseteq [of : SUBSET {"requests", "answers"}, requests : Nat,
                                                  turns : Nat, faults : Nat]

VARIABLES
  now,        \* in minutes
  counted,    \* history: by minute, what this process has counted
  memory,     \* the minutes the recorder holds
  rows,       \* route_metrics_minute, by minute
  queue,      \* the flushes asked for, in the order their promises are chained
  snapshot,   \* by caller: the rows its flush is writing
  closed,     \* by caller: the minutes its flush will forget
  drift,      \* whether a signal of the answers has drifted
  alerts,     \* assistant_quality_alerts, with what has been sent about each
  pc,         \* the timer, the page, the check of the objectives and each view
  wanted,     \* by check: the keys that should be open
  open,       \* by check: the alerts it has read as open
  left        \* of the budget: the requests, turns of the drift and faults still to come

metrics    == <<now, counted, memory, rows, queue, snapshot, closed>>
sync       == <<alerts, wanted, open>>
healthVars == <<metrics, drift, sync, pc, left>>

Minute  == 0 .. LastMinute
Callers == {"tick", "slo"} \cup Pages
Checks  == {"slo"} \cup Views
Drift   == "drift"   \* the key of the only signal
Zero    == [requests |-> 0, errors |-> 0]

HealthInit ==
  /\ now = 0 /\ memory = {} /\ queue = <<>>
  /\ counted = [m \in Minute |-> Zero] /\ rows = [m \in Minute |-> Zero]
  /\ snapshot = [c \in Callers |-> <<>>] /\ closed = [c \in Callers |-> {}]
  /\ drift = FALSE /\ alerts = <<>>
  /\ pc = [c \in Callers \cup Views |-> "idle"]
  /\ wanted = [c \in Checks |-> {}] /\ open = [c \in Checks |-> {}]
  /\ left \in Budgets

Goto(c, stage) == pc' = [pc EXCEPT ![c] = stage]
Spend(what) == left[what] > 0 /\ left' = [left EXCEPT ![what] = @ - 1]
-----------------------------------------------------------------------------
(* The environment *)

NextMinute == now < LastMinute /\ now' = now + 1
              /\ UNCHANGED <<counted, memory, rows, queue, snapshot, closed, drift, sync, pc, left>>

\* recordRequest, when a request has been answered.
RecordRequest(failed) ==
  /\ Spend("requests")
  /\ counted' = [counted EXCEPT ![now].requests = @ + 1, ![now].errors = @ + failed]
  /\ memory' = memory \cup {now}
  /\ UNCHANGED <<now, rows, queue, snapshot, closed, drift, sync, pc>>

AnswersChange ==
  /\ Spend("turns")
  /\ drift' = ~drift
  /\ UNCHANGED <<metrics, sync, pc>>

\* The process restarts: what is in memory, and every call under way, is gone.
Restart ==
  /\ Spend("faults")
  /\ counted' = [m \in Minute |-> Zero] /\ memory' = {} /\ queue' = <<>>
  /\ snapshot' = [c \in Callers |-> <<>>] /\ closed' = [c \in Callers |-> {}]
  /\ pc' = [c \in DOMAIN pc |-> "idle"]
  /\ wanted' = [c \in Checks |-> {}] /\ open' = [c \in Checks |-> {}]
  /\ UNCHANGED <<now, rows, drift, alerts>>
-----------------------------------------------------------------------------
(* flushMetrics *)

Ask(c) == pc[c] = "idle" /\ Goto(c, "flushing") /\ queue' = Append(queue, c)

\* The timer, a page of figures being loaded, and "Check now".  A check under way is joined.
StartFlush(c) ==
  /\ "requests" \in left.of /\ Ask(c)
  /\ UNCHANGED <<now, counted, memory, rows, snapshot, closed, drift, sync, left>>

\* Fault: flushes are not chained.
AnyTurn(c) == pc[c] = "flushing"

Turn(c) == queue # <<>> /\ Head(queue) = c

\* The caller goes on, whether or not its flush was written; the timer's tick goes on to
\* the check of the objectives.
Returned(c) ==
  /\ snapshot' = [snapshot EXCEPT ![c] = <<>>] /\ closed' = [closed EXCEPT ![c] = {}]
  /\ IF c = "tick" /\ pc["slo"] = "idle"
       THEN queue' = Append(Tail(queue), "slo") /\ pc' = [pc EXCEPT ![c] = "idle", !["slo"] = "flushing"]
       ELSE queue' = Tail(queue) /\ Goto(c, IF c = "slo" THEN "measuring" ELSE "idle")

\* pendingRows: the minutes that have closed and, but for the timer, the one in progress.
PendingRows(c) ==
  LET minutes == {m \in memory : m < now \/ c # "tick"}
  IN  /\ pc[c] = "flushing" /\ Turn(c) /\ snapshot[c] = <<>>
      /\ IF minutes = {}
           THEN Returned(c)
           ELSE /\ snapshot' = [snapshot EXCEPT ![c] = [m \in minutes |-> counted[m]]]
                /\ closed' = [closed EXCEPT ![c] = {m \in minutes : m < now}]
                /\ UNCHANGED <<queue, pc>>
      /\ UNCHANGED <<now, counted, memory, rows, drift, sync, left>>

Written(c) == [m \in Minute |-> IF m \in DOMAIN snapshot[c] THEN snapshot[c][m] ELSE rows[m]]

Forget(c) == memory' = memory \ closed[c]

CommitFlush(c) ==
  /\ pc[c] = "flushing" /\ snapshot[c] # <<>>
  /\ rows' = Written(c)
  /\ Forget(c)
  /\ Returned(c)
  /\ UNCHANGED <<now, counted, drift, sync, left>>

\* It fails, before or after the database has committed; that is only logged.
FailFlush(c) ==
  /\ pc[c] = "flushing" /\ Turn(c)
  /\ Spend("faults")
  /\ rows' \in {rows, Written(c)}
  /\ Returned(c)
  /\ UNCHANGED <<now, counted, memory, drift, sync>>
-----------------------------------------------------------------------------
(* evaluateWindow, for the objective of availability, and evaluateDrift *)

Total(w, what) == MapThenSumSet(LAMBDA m : rows[m][what],
                                              {m \in Minute : m <= now /\ m > now - SLO_WINDOWS[w]})

Breached(w) == /\ Total(w, "requests") >= MIN_REQUESTS
               /\ 1000 * Total(w, "errors") > 5 * Total(w, "requests")

Keys(c)   == IF c = "slo" THEN Windows ELSE {Drift}
Wanted(c) == IF c = "slo" THEN {w \in Windows : Breached(w)} ELSE {k \in {Drift} : drift}

OpenAlerts(keys) == {i \in 1 .. Len(alerts) : alerts[i].open /\ alerts[i].key \in keys}

Measured(c) == wanted' = [wanted EXCEPT ![c] = Wanted(c)] /\ Goto(c, "reading")

\* checkSlos goes on once its flush has returned.
MeasureSlos ==
  /\ pc["slo"] = "measuring"
  /\ Measured("slo")
  /\ UNCHANGED <<metrics, drift, alerts, open, left>>

\* getQualityView, for the page or the timer.
StartView(v) ==
  /\ "answers" \in left.of /\ pc[v] = "idle"
  /\ Measured(v)
  /\ UNCHANGED <<metrics, drift, alerts, open, left>>
-----------------------------------------------------------------------------
(* syncSloAlerts and syncAlerts *)

\* Fault: an alert that has been cleared is taken for open.
ReadAll(c) ==
  /\ pc[c] = "reading"
  /\ open' = [open EXCEPT ![c] = {i \in 1 .. Len(alerts) : alerts[i].key \in Keys(c)}]
  /\ Goto(c, "syncing")
  /\ UNCHANGED <<metrics, drift, alerts, wanted, left>>

ReadOpen(c) ==
  /\ pc[c] = "reading"
  /\ open' = [open EXCEPT ![c] = OpenAlerts(Keys(c))]
  /\ Goto(c, "syncing")
  /\ UNCHANGED <<metrics, drift, alerts, wanted, left>>

ToOpen(c)  == wanted[c] \ {alerts[i].key : i \in open[c]}
ToClear(c) == {i \in open[c] : alerts[i].key \notin wanted[c]}
Tried(c, key) == wanted' = [wanted EXCEPT ![c] = @ \ {key}]

\* The alert as it is inserted, after so many of the entry and the notification.
New(key, said) == [key |-> key, open |-> TRUE, logged |-> IF said > 0 THEN 1 ELSE 0,
                   notified |-> IF said > 1 THEN 1 ELSE 0, cleared |-> 0]
Cleared(alert, said) == [alert EXCEPT !.open = FALSE, !.cleared = @ + said]

\* Fault: the alert another check has opened is announced too.
OpenOrFind(c, key, said) ==
  alerts' = IF OpenAlerts({key}) = {} THEN Append(alerts, New(key, said))
            ELSE [i \in DOMAIN alerts |-> IF i \in OpenAlerts({key}) /\ said > 1
                                            THEN [alerts[i] EXCEPT !.notified = @ + 1] ELSE alerts[i]]

\* The unique index lets one check open it; only that check announces it.
Open(c, key, said) ==
  alerts' = IF OpenAlerts({key}) = {} THEN Append(alerts, New(key, said)) ELSE alerts

\* The UPDATE ... WHERE cleared_at IS NULL lets one check clear it.
Clear(c, i, said) == alerts' = IF alerts[i].open THEN [alerts EXCEPT ![i] = Cleared(@, said)] ELSE alerts

\* What is said about an alert is read by no check: it is one step with the row.
OpenAlert(c) ==
  /\ pc[c] = "syncing"
  /\ \E key \in ToOpen(c) : Open(c, key, 2) /\ Tried(c, key)
  /\ UNCHANGED <<metrics, drift, open, pc, left>>

ClearAlert(c) ==
  /\ pc[c] = "syncing" /\ ToOpen(c) = {}
  /\ \E i \in ToClear(c) : Clear(c, i, 1) /\ open' = [open EXCEPT ![c] = @ \ {i}]
  /\ UNCHANGED <<metrics, drift, wanted, pc, left>>

Ended(c) == wanted' = [wanted EXCEPT ![c] = {}] /\ open' = [open EXCEPT ![c] = {}] /\ Goto(c, "idle")

EndCheck(c) ==
  /\ pc[c] = "syncing" /\ ToOpen(c) = {} /\ ToClear(c) = {}
  /\ Ended(c)
  /\ UNCHANGED <<metrics, drift, alerts, left>>

\* A statement fails, maybe after the row and before all is said: the check is over.
FailCheck(c) ==
  /\ pc[c] \in {"measuring", "reading", "syncing"}
  /\ Spend("faults")
  /\ \/ UNCHANGED alerts
     \/ pc[c] = "syncing" /\ \E key \in ToOpen(c), said \in {0, 1} : Open(c, key, said)
     \/ pc[c] = "syncing" /\ ToOpen(c) = {} /\ \E i \in ToClear(c) : Clear(c, i, 0)
  /\ Ended(c)
  /\ UNCHANGED <<metrics, drift>>
-----------------------------------------------------------------------------
FlushMetrics(c) == PendingRows(c) \/ CommitFlush(c)
Check(c) == ReadOpen(c) \/ OpenAlert(c) \/ ClearAlert(c) \/ EndCheck(c)

HealthNext ==
  \/ NextMinute \/ AnswersChange \/ Restart \/ \E failed \in {0, 1} : RecordRequest(failed)
  \/ \E c \in Callers : StartFlush(c) \/ FlushMetrics(c) \/ FailFlush(c)
  \/ \E v \in Views : StartView(v)
  \/ MeasureSlos \/ \E c \in Checks : Check(c) \/ FailCheck(c)

HealthSpec == HealthInit /\ [][HealthNext]_healthVars

\* The timer goes on, and what has been asked of the database is answered.
HealthFairness ==
  /\ WF_healthVars(StartFlush("tick")) /\ WF_healthVars(StartView(TimerView))
  /\ \A c \in Callers : WF_healthVars(FlushMetrics(c))
  /\ WF_healthVars(MeasureSlos) /\ \A c \in Checks : WF_healthVars(Check(c))
HealthFairSpec == HealthSpec /\ HealthFairness
-----------------------------------------------------------------------------
\* Every variable holds a value of its kind.
HealthTypeOK ==
  /\ now \in Minute /\ memory \subseteq Minute /\ drift \in BOOLEAN
  /\ counted \in [Minute -> [requests : Nat, errors : Nat]]
  /\ rows \in [Minute -> [requests : Nat, errors : Nat]]
  /\ queue \in Seq(Callers)
  /\ \A c \in Callers : DOMAIN snapshot[c] \subseteq Minute /\ closed[c] \subseteq Minute
  /\ alerts \in Seq([key : Windows \cup {Drift}, open : BOOLEAN, logged : Nat, notified : Nat,
                     cleared : Nat])
  /\ \A c \in Checks : wanted[c] \subseteq Keys(c) /\ open[c] \subseteq Nat

\* "it is complete once the minute closes" (flushMetrics): of a minute that has closed and
\* left memory, the row says exactly what this process has counted in it, whatever flushes
\* overlapped, came late or failed.
MinutesComplete ==
  \A m \in Minute : m < now /\ m \notin memory /\ counted[m] # Zero => rows[m] = counted[m]

\* "A lasting breach alerts once": of a key there is at most one open alert, and of an alert
\* each thing is said at most once, however many checks and pages found it at the same moment.
AlertsOnce ==
  /\ \A i, j \in 1 .. Len(alerts) : alerts[i].open /\ alerts[j].open /\ i # j =>
                                      alerts[i].key # alerts[j].key
  /\ \A i \in 1 .. Len(alerts) : /\ alerts[i].logged <= 1 /\ alerts[i].notified <= 1
                                 /\ alerts[i].cleared <= 1

\* The alerts follow: what stays breached has an alert in the end, and one whose cause is gone
\* is cleared, though checks fail, restart and act on what they read a while ago.
Wrong(key)  == IF key = Drift THEN drift ELSE Breached(key)
AlertsFollow ==
  \A key \in Windows \cup {Drift} :
    /\ <>[]Wrong(key) => <>[](OpenAlerts({key}) # {})
    /\ <>[]~Wrong(key) => <>[](OpenAlerts({key}) = {})
-----------------------------------------------------------------------------
\* "a breach opens an alert (an audit event and a notification to every administrator)"
\* (sloService.ts): an alert that stays open is notified in the end.
AlertsTold == \A i \in 1 .. 2 : <>[](i \in OpenAlerts(Windows)) => <>(i <= Len(alerts) /\ alerts[i].notified = 1)
=============================================================================
