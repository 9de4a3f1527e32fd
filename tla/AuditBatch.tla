----------------------------- MODULE AuditBatch -----------------------------
(***************************************************************************)
(* The batches of the audit log in one process (auditService.ts            *)
(* recordAudit and flushAuditEntries, with the SIGTERM handler of          *)
(* index.ts).  A flush takes what is pending and sends it; while its       *)
(* INSERT is under way the process records and flushes other entries.      *)
(* That the database runs a statement and that the process learns of it    *)
(* are two steps: the answer may be lost.                                  *)
(***************************************************************************)
EXTENDS Naturals, Sequences

CONSTANTS
  Entries,        \* the entries recorded, each at most once
  Gone,           \* those the database refuses: their actor no longer exists
  AUDIT_BATCH_MAX

ASSUME GoneAssumption == Gone \subseteq Entries
ASSUME MaxAssumption  == AUDIT_BATCH_MAX \in Nat \ {0}

VARIABLES
  status,       \* the process: serving, closing (the last flush is under way) or exited
  recorded,     \* history: the entries given to recordAudit
  pendingAudit, \* the entries collected so far
  auditTimer,   \* a flush is due at the end of this turn of the event loop
  flushes,      \* the calls of flushAuditEntries that wait for the database
  written,      \* the rows of audit_logs, by entry
  reported,     \* entries named on the server log as not written
  outage,       \* history: some statement failed that the database had no reason to refuse
  unsure,       \* history: entries whose batch was written and reported as failed
  lastBatch     \* history: the entries of the flush the exit waits for

vars == <<status, recorded, pendingAudit, auditTimer, flushes, written, reported, outage, unsure, lastBatch>>
history == <<recorded, outage, unsure, lastBatch>>

Elems(s) == {s[i] : i \in DOMAIN s}

\* What a flush waits for: the INSERT of all its rows, or of the first row left;
\* "sent" until the database runs it, then "ran".
Flush == [rows : Seq(Entries), one : BOOLEAN, stage : {"sent", "ran"}, last : BOOLEAN]

Waiting == UNION {Elems(f.rows) : f \in flushes}

Init ==
  /\ status = "serving"
  /\ recorded = {} /\ pendingAudit = <<>> /\ auditTimer = FALSE /\ flushes = {}
  /\ written = [e \in Entries |-> 0]
  /\ reported = {} /\ outage = FALSE /\ unsure = {} /\ lastBatch = {}
-----------------------------------------------------------------------------
\* flushAuditEntries, as far as its first await: the rows are taken.
FlushEntries(rows, last) ==
  /\ auditTimer' = FALSE
  /\ pendingAudit' = <<>>
  /\ flushes' = IF rows = <<>> THEN flushes
                ELSE flushes \cup {[rows |-> rows, one |-> FALSE, stage |-> "sent", last |-> last]}

\* Fault: no flush is asked for while another is under way.
RecordUnlessFlushing(e) ==
  /\ status # "exited" /\ e \notin recorded
  /\ recorded' = recorded \cup {e}
  /\ pendingAudit' = Append(pendingAudit, e)
  /\ auditTimer' = (auditTimer \/ flushes = {})
  /\ UNCHANGED <<status, flushes, written, reported, outage, unsure, lastBatch>>

RecordAudit(e) ==
  /\ status # "exited" /\ e \notin recorded
  /\ recorded' = recorded \cup {e}
  /\ LET rows == Append(pendingAudit, e)
     IN  IF Len(rows) >= AUDIT_BATCH_MAX
           THEN FlushEntries(rows, FALSE)
           ELSE pendingAudit' = rows /\ auditTimer' = TRUE /\ UNCHANGED flushes
  /\ UNCHANGED <<status, written, reported, outage, unsure, lastBatch>>

\* Fault: the pending entries are cleared once the INSERT has been sent.
TimerSendsTwice ==
  /\ status # "exited" /\ auditTimer
  /\ auditTimer' = FALSE
  /\ flushes' = flushes \cup {[rows |-> pendingAudit, one |-> FALSE, stage |-> "sent", last |-> FALSE]}
  /\ UNCHANGED <<status, pendingAudit, written, reported, history>>

\* The setImmediate callback.
TimerFires ==
  /\ status # "exited" /\ auditTimer
  /\ FlushEntries(pendingAudit, FALSE)
  /\ UNCHANGED <<status, written, reported, history>>
-----------------------------------------------------------------------------
(* The database.  It may run a statement after the process has gone. *)

Sent(f) == IF f.one THEN {Head(f.rows)} ELSE Elems(f.rows)

Replace(f, g) == flushes' = (flushes \ {f}) \cup g

RunInsert(f) ==
  /\ f.stage = "sent" /\ Sent(f) \cap Gone = {}
  /\ written' = [e \in Entries |-> IF e \in Sent(f) THEN written[e] + 1 ELSE written[e]]
  /\ Replace(f, {[f EXCEPT !.stage = "ran"]})
  /\ UNCHANGED <<status, pendingAudit, auditTimer, reported, history>>

\* The call of flushAuditEntries returns; process.exit follows the last one.
Return(f) ==
  /\ Replace(f, {})
  /\ status' = IF f.last THEN "exited" ELSE status

\* The loop over the rows goes on with the next one, or is over.
NextRow(f) ==
  IF Len(f.rows) = 1
    THEN Return(f)
    ELSE /\ Replace(f, {[f EXCEPT !.rows = Tail(f.rows), !.stage = "sent"]})
         /\ UNCHANGED status

InsertAnswered(f) ==
  /\ status # "exited" /\ f.stage = "ran"
  /\ IF f.one THEN NextRow(f) ELSE Return(f)
  /\ UNCHANGED <<pendingAudit, auditTimer, written, reported, history>>

\* catch (batchError): the rows go one at a time.
FallBack(f) ==
  /\ Replace(f, {[f EXCEPT !.one = TRUE, !.stage = "sent"]})
  /\ UNCHANGED <<status, reported>>

\* Fault: the loop does not catch what a row throws.
ReportAndStop(f) ==
  /\ reported' = reported \cup {Head(f.rows)}
  /\ Return(f)

\* catch (error): the row is reported and lost.
ReportRow(f) ==
  /\ reported' = reported \cup {Head(f.rows)}
  /\ NextRow(f)

\* The statement is refused, or the connection is lost before or after the
\* database has run it.
InsertFailed(f) ==
  /\ status # "exited"
  /\ outage' = (outage \/ Sent(f) \cap Gone = {})
  /\ unsure' = IF f.stage = "ran" /\ ~f.one THEN unsure \cup Elems(f.rows) ELSE unsure
  /\ IF f.one THEN ReportRow(f) ELSE FallBack(f)
  /\ UNCHANGED <<pendingAudit, auditTimer, written, recorded, lastBatch>>
-----------------------------------------------------------------------------
(* The end of the process *)

\* Fault: the exit does not wait for the flush.
CloseAndExit ==
  /\ status = "serving"
  /\ status' = "exited"
  /\ lastBatch' = Elems(pendingAudit)
  /\ FlushEntries(pendingAudit, TRUE)
  /\ UNCHANGED <<written, reported, recorded, outage, unsure>>

\* The callback of server.close at SIGTERM.
CloseServer ==
  /\ status = "serving"
  /\ status' = IF pendingAudit = <<>> THEN "exited" ELSE "closing"
  /\ lastBatch' = Elems(pendingAudit)
  /\ FlushEntries(pendingAudit, TRUE)
  /\ UNCHANGED <<written, reported, recorded, outage, unsure>>

\* Killed outright.
Kill ==
  /\ status # "exited"
  /\ status' = "exited"
  /\ lastBatch' = {}
  /\ UNCHANGED <<pendingAudit, auditTimer, flushes, written, reported, recorded, outage, unsure>>

Answer(f) == InsertAnswered(f) \/ InsertFailed(f)

Next ==
  \/ \E e \in Entries : RecordAudit(e)
  \/ TimerFires
  \/ \E f \in flushes : RunInsert(f) \/ Answer(f)
  \/ CloseServer
  \/ Kill

Spec == Init /\ [][Next]_vars

\* The event loop comes to the end of its turn, and every statement is answered,
\* or refused, or its connection is given up (database/connection.ts).
Fairness ==
  /\ WF_vars(TimerFires)
  /\ \A e \in Entries :
       WF_vars(\E f \in flushes : e \in Elems(f.rows) /\ Answer(f))

FairSpec == Spec /\ Fairness
-----------------------------------------------------------------------------
\* Types; what waits for the database has rows, and nothing waits twice.
TypeOK ==
  /\ status \in {"serving", "closing", "exited"}
  /\ recorded \subseteq Entries /\ reported \subseteq recorded
  /\ unsure \subseteq recorded /\ lastBatch \subseteq recorded
  /\ pendingAudit \in Seq(Entries) /\ Len(pendingAudit) < AUDIT_BATCH_MAX
  /\ auditTimer \in BOOLEAN /\ outage \in BOOLEAN
  /\ flushes \subseteq Flush
  /\ written \in [Entries -> 0 .. 2]

\* "nothing about it is dropped": as long as the process lives, an entry it was
\* given is in hand, or written, or named on the server log, whatever overlaps
\* and whatever fails (recordAudit, flushAuditEntries).
NothingDropped ==
  status # "exited" =>
    \A e \in recorded : \/ e \in Elems(pendingAudit) \cup Waiting
                        \/ written[e] > 0
                        \/ e \in reported

\* An entry is in the log twice only if its batch was written and the answer
\* lost; flushes that overlap never share an entry (flushAuditEntries takes the
\* rows before its first await).
WrittenOnce == \A e \in Entries : written[e] > 1 => e \in unsure

\* "so only the bad one is lost": while statements fail only because an actor is
\* gone, the entries reported are the ones that name such an actor, and the
\* others that went with them are written (flushAuditEntries' fall-back).
OnlyBadLost ==
  ~outage => /\ reported \subseteq Gone
             /\ status # "exited" =>
                  \A e \in recorded \ Gone : e \in Elems(pendingAudit) \cup Waiting \/ written[e] = 1

\* SIGTERM "writes the pending entries first": when the process has stopped by
\* itself, each entry that was pending then is written or reported (the SIGTERM
\* handler).  Entries of a flush begun earlier are not covered.
PendingWrittenAtStop ==
  status = "exited" => \A e \in lastBatch : written[e] > 0 \/ e \in reported

\* Every entry leaves the process's hands in the end: a timer is due whenever
\* something is pending, and every flush comes to its end.
EntriesSettle ==
  \A e \in Entries :
    e \in recorded ~> status = "exited" \/ written[e] > 0 \/ e \in reported
-----------------------------------------------------------------------------
\* What the comment of recordAudit says of a stop: a process "that is killed
\* outright (not stopped with SIGTERM, which writes the pending entries first)
\* can lose the entries of that last turn".  When the last flush is over and the
\* process exits, every entry a flush has taken is written, reported, or in an
\* INSERT that was sent.
StopLosesNothing ==
  [][\A f \in flushes : f.last /\ f \notin flushes' /\ status' = "exited" /\ status # "exited" =>
       \A e \in Waiting : written'[e] > 0 \/ e \in reported' \/ \E g \in flushes' : e \in Sent(g)]_vars
=============================================================================
