--------------------------- MODULE CaseDecisions ---------------------------
(***************************************************************************)
(* One exemption, the case opened for it, and the compliance check of each *)
(* decision (caseService.ts, complianceService.ts).  Every statement of    *)
(* that code names one case, so cases do not meet and one is enough.       *)
(*                                                                         *)
(* A request is one HTTP call that got past its first checks: a refused    *)
(* call leaves no trace.  PostgreSQL runs READ COMMITTED; a transaction's  *)
(* writes become visible together at its COMMIT, and until then the rows   *)
(* it has updated (held) make another writer of them wait.  The audit      *)
(* entry and the evaluation of a decision come after its COMMIT.           *)
(***************************************************************************)
EXTENDS Naturals, Sequences

CONSTANTS
  People, Staff,  \* everyone with an account, and those who can work cases
  Applicant,      \* whose exemption it is; may be staff
  Nobody,         \* cases.assigned_to is NULL
  Requests,       \* the HTTP calls of the behaviour, each made at most once
  Earlier,        \* the cases row as earlier calls can have left it, or none yet
  OnFile,         \* the dates of the documents they left: none, or time 0
  Determinations  \* what the exemptions row can say whenever it is read: the applicant
                  \* changes the profile and has eligibility checked again at any time

ASSUME PeopleAssumption == Staff \subseteq People /\ Applicant \in People /\ Nobody \notin People
ASSUME EarlierAssumption ==
  /\ \A row \in Earlier :
       /\ row \in [status : {"None", "Submitted", "InReview", "Denied"}, approvedAt : {FALSE},
                  assignedTo : Staff \cup {Nobody}]
       /\ row.status = "None" => row.assignedTo = Nobody
  /\ OnFile \subseteq {0}
ASSUME DataAssumption ==
  Determinations \subseteq [status : {"Eligible", "PendingReview", "NotEligible"}, current : BOOLEAN]

VARIABLES
  caseRow,      \* the cases row; status "None" before it is inserted
  documents,    \* created_at of the case_documents of the type the exemption requires
  noted,        \* the requests with a row in case_notes
  timeline,     \* history: the case_events that carry a status, in the order of their COMMITs
  audit,        \* requests whose change is in audit_logs
  checks,       \* decisions with rows in compliance_checks
  reviews,      \* compliance_reviews.status of each review
  resolutions,  \* history: <<review, request>> for each resolution committed
  pc,           \* how far each request has come
  call,         \* what the request asks
  seen,         \* the case status the request has read
  held,         \* rows the request's open transaction has written
  found,        \* the controls the request's decision was found to fail
  clock,        \* the database's clock; it only matters when a transaction begins
  began         \* CURRENT_TIMESTAMP of the request's open transaction, the time of its BEGIN

requestVars == <<pc, call, seen, held, found>>
reviewVars  == <<checks, reviews, resolutions>>
fileVars    == <<documents, noted>>
timeVars    == <<clock, began>>
vars == <<caseRow, fileVars, timeline, audit, reviewVars, requestVars, timeVars>>
-----------------------------------------------------------------------------
\* The values of CaseStatus, written without their blanks.
CaseStatus == {"Draft", "Submitted", "InReview", "Approved", "Denied", "Appealed"}
Decision   == {"Approved", "Denied"}

\* TRANSITIONS: who may move a case, from where and to where.
Transitions == {<<"Draft", "Submitted", "applicant">>, <<"Submitted", "InReview", "staff">>,
                <<"InReview", "Approved", "staff">>, <<"InReview", "Denied", "staff">>,
                <<"Denied", "Appealed", "applicant">>, <<"Appealed", "InReview", "staff">>}

AllowedTransitions(from, by) == {to \in CaseStatus : <<from, to, by>> \in Transitions}

\* A decision can have a review for the controls it failed and one for an
\* evaluation that went wrong.
Review == Requests \X {"controls", "error"}
CaseKey == <<"case", "row">>   \* the cases row, among the rows a transaction can hold

\* DECISION_CONTROLS and evaluateControls, on what loadDecisionContext reads.
Controls == {"CTRL-01", "CTRL-02", "CTRL-03", "CTRL-04", "CTRL-05", "CTRL-06", "CTRL-07", "CTRL-08"}

AppliesTo(decision) ==
  IF decision = "Approved" THEN Controls \ {"CTRL-03"} ELSE Controls \ {"CTRL-01", "CTRL-07"}

Passes(control, ctx) ==
  CASE control = "CTRL-01" -> ctx.exemption.status \in {"Eligible", "PendingReview"}
    [] control = "CTRL-02" -> ctx.exemption.current
    [] control = "CTRL-03" -> ctx.entry.reason
    [] control = "CTRL-04" -> ctx.entry.actor # Applicant
    [] control = "CTRL-05" -> ctx.assignedTo = ctx.entry.actor
    [] control = "CTRL-06" -> ctx.entry.from = "InReview"
    [] control = "CTRL-07" -> \E filed \in ctx.documents : filed <= ctx.entry.created_at
    [] control = "CTRL-08" -> ctx.audited

EvaluateControls(ctx) == {c \in AppliesTo(ctx.entry.to) : ~Passes(c, ctx)}

\* A row of case_events with when it was committed, which no column says.
Entry == [by : Requests, actor : People, from : CaseStatus \cup {"None"}, to : CaseStatus,
          reason : BOOLEAN, created_at : Nat, committed : Nat]

Call == [op : {"none"}]
          \cup [op : {"apply"}, actor : People]
          \cup [op : {"status"}, actor : People, to : CaseStatus, reason : BOOLEAN]
          \cup [op : {"assign"}, assignee : Staff \cup {Nobody}]
          \cup [op : {"note", "document"}]
          \cup [op : {"resolve"}, actor : People, review : Review, action : {"accept", "reopen"}]

Stage == {"idle", "asked", "reviewing", "ready", "begun", "resolved", "writing", "committed",
          "evaluating", "recording", "auditing", "reporting", "ended"}

Init ==
  /\ caseRow \in Earlier
  /\ documents = IF caseRow.status = "None" THEN {} ELSE OnFile
  /\ noted = {}
  /\ timeline = <<>> /\ audit = {} /\ checks = {} /\ resolutions = {}
  /\ reviews = [v \in Review |-> "none"]
  /\ pc = [r \in Requests |-> "idle"]
  /\ call = [r \in Requests |-> [op |-> "none"]]
  /\ seen = [r \in Requests |-> "None"]
  /\ held = [r \in Requests |-> {}]
  /\ found = [r \in Requests |-> {}]
  /\ clock = 0 /\ began = [r \in Requests |-> 0]
-----------------------------------------------------------------------------
Op(r) == call[r].op
Asks(r, request) == call' = [call EXCEPT ![r] = request]
Goto(r, stage) == pc' = [pc EXCEPT ![r] = stage]

\* UPDATE waits for a row another open transaction has written.
TakeRow(r, row) ==
  /\ \A q \in Requests \ {r} : row \notin held[q]
  /\ held' = [held EXCEPT ![r] = @ \cup {row}]

\* inTransaction: BEGIN, and nothing else yet.  Every row the transaction inserts will
\* bear this time, however long it waits for a row of another before its COMMIT.
Begin(r) ==
  /\ pc[r] = "ready"
  /\ clock' = clock + 1
  /\ began' = [began EXCEPT ![r] = clock']
  /\ Goto(r, "begun")
  /\ UNCHANGED <<caseRow, fileVars, timeline, audit, reviewVars, call, seen, held, found>>

\* COMMIT or ROLLBACK.
End(r) ==
  /\ held' = [held EXCEPT ![r] = {}]
  /\ began' = [began EXCEPT ![r] = 0]
  /\ UNCHANGED clock

\* recordEvent, for the entries that carry a status, and its transaction's COMMIT.
\* getCaseDetail shows them ORDER BY created_at.
RecordEvent(r, from, to, reason) ==
  timeline' = Append(timeline, [by |-> r, actor |-> call[r].actor, from |-> from, to |-> to,
                                reason |-> reason, created_at |-> began[r], committed |-> clock])
-----------------------------------------------------------------------------
(* applyForExemption *)

BeginApply(r) ==
  /\ pc[r] = "idle"
  /\ \E exemption \in Determinations : exemption.status # "NotEligible"
  /\ Asks(r, [op |-> "apply", actor |-> Applicant])
  /\ Goto(r, "asked")
  /\ UNCHANGED <<caseRow, fileVars, timeline, audit, reviewVars, seen, held, found, timeVars>>

FindNoCase(r) ==
  /\ pc[r] = "asked" /\ Op(r) = "apply"
  /\ Goto(r, IF caseRow.status = "None" THEN "ready" ELSE "ended")
  /\ UNCHANGED <<caseRow, fileVars, timeline, audit, reviewVars, call, seen, held, found, timeVars>>

\* The unique index on cases.exemption_id refuses the second of two.
InsertCase(r) ==
  /\ pc[r] = "begun" /\ Op(r) = "apply"
  /\ caseRow.status = "None"
  /\ caseRow' = [caseRow EXCEPT !.status = "Submitted"]
  /\ RecordEvent(r, "None", "Submitted", FALSE)
  /\ End(r)
  /\ Goto(r, "committed")
  /\ UNCHANGED <<fileVars, audit, reviewVars, call, seen, found>>

InsertRefused(r) ==
  /\ pc[r] = "begun" /\ Op(r) = "apply"
  /\ caseRow.status # "None"
  /\ End(r)
  /\ Goto(r, "ended")
  /\ UNCHANGED <<caseRow, fileVars, timeline, audit, reviewVars, call, seen, found>>
-----------------------------------------------------------------------------
(* changeStatus and assignCase *)

\* Fault: a case manager stays staff on their own case.
SideByRole(a) == IF a \in Staff THEN "staff" ELSE "applicant"

\* On their own case a case manager is only the applicant.
Side(a) == IF a = Applicant THEN "applicant" ELSE "staff"

\* The case is read and the move decided on before the transaction begins.
BeginStatus(r) ==
  /\ pc[r] = "idle"
  /\ caseRow.status # "None"
  /\ \E a \in Staff \cup {Applicant} : \E to \in AllowedTransitions(caseRow.status, Side(a)) :
       \E reason \in IF to = "Denied" THEN BOOLEAN ELSE {FALSE} :
         /\ to = "Denied" => reason
         /\ Asks(r, [op |-> "status", actor |-> a, to |-> to, reason |-> reason])
  /\ seen' = [seen EXCEPT ![r] = caseRow.status]
  /\ Goto(r, "ready")
  /\ UNCHANGED <<caseRow, fileVars, timeline, audit, reviewVars, held, found, timeVars>>

\* Giving a case to whoever has it already writes nothing.  The BEGIN of an assignment,
\* or of a note, needs no step of its own: nothing reads the date of what they insert.
BeginAssign(r) ==
  /\ pc[r] = "idle"
  /\ caseRow.status # "None"
  /\ \E to \in (Staff \cup {Nobody}) \ {caseRow.assignedTo} : Asks(r, [op |-> "assign", assignee |-> to])
  /\ Goto(r, "begun")
  /\ UNCHANGED <<caseRow, fileVars, timeline, audit, reviewVars, seen, held, found, timeVars>>

\* The UPDATE of the cases row: a reopening has the review's row already.
TakeCaseRow(r) ==
  /\ \/ pc[r] = "begun" /\ Op(r) \in {"status", "assign"}
     \/ pc[r] = "resolved" /\ call[r].action = "reopen"
  /\ TakeRow(r, CaseKey)
  /\ Goto(r, "writing")
  /\ UNCHANGED <<caseRow, fileVars, timeline, audit, reviewVars, call, seen, found, timeVars>>

\* The UPDATE has no condition on the status that was read.
CommitStatus(r) ==
  /\ pc[r] = "writing" /\ Op(r) = "status"
  /\ caseRow' = [caseRow EXCEPT !.status = call[r].to,
                                !.approvedAt = @ \/ call[r].to = "Approved"]
  /\ RecordEvent(r, seen[r], call[r].to, call[r].reason)
  /\ End(r)
  /\ Goto(r, "committed")
  /\ UNCHANGED <<fileVars, audit, reviewVars, call, seen, found>>

CommitAssign(r) ==
  /\ pc[r] = "writing" /\ Op(r) = "assign"
  /\ caseRow' = [caseRow EXCEPT !.assignedTo = call[r].assignee]
  /\ End(r)
  /\ Goto(r, "committed")
  /\ UNCHANGED <<fileVars, timeline, audit, reviewVars, call, seen, found>>

(* addNote and addDocument *)

BeginAdd(r) ==
  /\ pc[r] = "idle"
  /\ caseRow.status # "None"
  /\ \/ Asks(r, [op |-> "note"]) /\ Goto(r, "begun")
     \/ Asks(r, [op |-> "document"]) /\ Goto(r, "ready")
  /\ UNCHANGED <<caseRow, fileVars, timeline, audit, reviewVars, seen, held, found, timeVars>>

\* The INSERT waits for nobody: writers of the cases row leave its key alone.
CommitAdd(r) ==
  /\ pc[r] = "begun"
  /\ \/ Op(r) = "note" /\ noted' = noted \cup {r} /\ UNCHANGED documents
     \/ Op(r) = "document" /\ documents' \in {documents, documents \cup {began[r]}} /\ UNCHANGED noted
  /\ End(r)
  /\ Goto(r, "committed")
  /\ UNCHANGED <<caseRow, timeline, audit, reviewVars, call, seen, found>>

IsDecision(r) == Op(r) = "status" /\ call[r].to \in Decision

\* Fault: the evaluation starts while the audit entry is still to be written.
LogLater(r) ==
  /\ pc[r] = "committed"
  /\ Goto(r, IF IsDecision(r) THEN "evaluating" ELSE "ended")
  /\ UNCHANGED <<caseRow, fileVars, timeline, audit, reviewVars, call, seen, held, found, timeVars>>

\* logAuditEvent after the COMMIT; then a decision is evaluated.
LogChange(r) ==
  /\ pc[r] = "committed"
  /\ audit' = audit \cup {r}
  /\ Goto(r, IF IsDecision(r) THEN "evaluating" ELSE "ended")
  /\ UNCHANGED <<caseRow, fileVars, timeline, reviewVars, call, seen, held, found, timeVars>>
-----------------------------------------------------------------------------
(* evaluateDecision *)

\* loadDecisionContext reads the entry, the documents dated before it, and everything
\* else as it is now.  (CTRL-08 takes any audit entry of this move since; the decision's
\* own is one.)
LoadDecisionContext(r) ==
  /\ pc[r] = "evaluating"
  /\ \E i \in 1 .. Len(timeline), exemption \in Determinations :
       /\ timeline[i].by = r
       /\ found' = [found EXCEPT ![r] = EvaluateControls(
            [entry |-> timeline[i], exemption |-> exemption,
             assignedTo |-> caseRow.assignedTo, documents |-> documents,
             audited |-> r \in audit])]
  /\ Goto(r, "recording")
  /\ UNCHANGED <<caseRow, fileVars, timeline, audit, reviewVars, call, seen, held, timeVars>>

\* Fault: the review is opened after the transaction that records the checks.
RecordChecksOnly(r) ==
  /\ pc[r] = "recording"
  /\ checks' = checks \cup {r}
  /\ Goto(r, "auditing")
  /\ UNCHANGED <<caseRow, fileVars, timeline, audit, reviews, resolutions, call, seen, held, found, timeVars>>

\* One transaction inserts the control results and opens the review.
RecordChecks(r) ==
  /\ pc[r] = "recording"
  /\ checks' = checks \cup {r}
  /\ reviews' = IF found[r] = {} THEN reviews ELSE [reviews EXCEPT ![<<r, "controls">>] = "Open"]
  /\ Goto(r, "auditing")
  /\ UNCHANGED <<caseRow, fileVars, timeline, audit, resolutions, call, seen, held, found, timeVars>>

AuditChecks(r) ==
  /\ pc[r] = "auditing"
  /\ Goto(r, "ended")
  /\ UNCHANGED <<caseRow, fileVars, timeline, audit, reviewVars, call, seen, held, found, timeVars>>

\* Any of these throws; the catch opens a review instead.
EvaluationError(r) ==
  /\ pc[r] \in {"evaluating", "recording", "auditing"}
  /\ Goto(r, "reporting")
  /\ UNCHANGED <<caseRow, fileVars, timeline, audit, reviewVars, call, seen, held, found, timeVars>>

ReportError(r) ==
  /\ pc[r] = "reporting"
  /\ reviews' = [reviews EXCEPT ![<<r, "error">>] = "Open"]
  /\ Goto(r, "ended")
  /\ UNCHANGED <<caseRow, fileVars, timeline, audit, checks, resolutions, call, seen, held, found, timeVars>>

\* The INSERT of that review fails too: it is only logged to the console.
ReportLost(r) ==
  /\ pc[r] = "reporting"
  /\ Goto(r, "ended")
  /\ UNCHANGED <<caseRow, fileVars, timeline, audit, reviewVars, call, seen, held, found, timeVars>>
-----------------------------------------------------------------------------
(* resolveReview *)

Decider(review) == call[review[1]].actor

FindReview(r) ==
  /\ pc[r] = "idle"
  /\ \E v \in Review, a \in Staff, action \in {"accept", "reopen"} :
       /\ reviews[v] = "Open"
       /\ a # Decider(v)
       /\ Asks(r, [op |-> "resolve", actor |-> a, review |-> v, action |-> action])
  /\ Goto(r, "reviewing")
  /\ UNCHANGED <<caseRow, fileVars, timeline, audit, reviewVars, seen, held, found, timeVars>>

ReadReviewedCase(r) ==
  /\ pc[r] = "reviewing"
  /\ seen' = [seen EXCEPT ![r] = caseRow.status]
  /\ Goto(r, IF call[r].actor = Applicant THEN "ended" ELSE "ready")
  /\ UNCHANGED <<caseRow, fileVars, timeline, audit, reviewVars, call, held, found, timeVars>>

\* The UPDATE of the review, whatever its status is by now.
TakeReviewRow(r) ==
  /\ pc[r] = "begun" /\ Op(r) = "resolve"
  /\ TakeRow(r, call[r].review)
  /\ Goto(r, "resolved")
  /\ UNCHANGED <<caseRow, fileVars, timeline, audit, reviewVars, call, seen, found, timeVars>>

Resolve(r) ==
  /\ reviews' = [reviews EXCEPT ![call[r].review] = "Resolved"]
  /\ resolutions' = resolutions \cup {<<call[r].review, r>>}
  /\ End(r)
  /\ Goto(r, "committed")
  /\ UNCHANGED <<fileVars, audit, checks, call, seen, found>>

CommitAccept(r) ==
  /\ pc[r] = "resolved" /\ call[r].action = "accept"
  /\ Resolve(r)
  /\ UNCHANGED <<caseRow, timeline>>

\* Fault: the reopening leaves no entry on the timeline.
ReopenSilently(r) ==
  /\ pc[r] = "writing" /\ Op(r) = "resolve"
  /\ Resolve(r)
  /\ caseRow' = [caseRow EXCEPT !.status = "InReview", !.approvedAt = FALSE]
  /\ UNCHANGED timeline

CommitReopen(r) ==
  /\ pc[r] = "writing" /\ Op(r) = "resolve"
  /\ Resolve(r)
  /\ caseRow' = [caseRow EXCEPT !.status = "InReview", !.approvedAt = FALSE]
  /\ RecordEvent(r, seen[r], "InReview", FALSE)
-----------------------------------------------------------------------------
\* Fault: a failed call keeps its connection, and the transaction open on it.
FailWithoutRollback(r) ==
  /\ held[r] # {}
  /\ Goto(r, "ended")
  /\ UNCHANGED <<caseRow, fileVars, timeline, audit, reviewVars, call, seen, held, found, timeVars>>

\* A statement fails or the process dies: the call ends and its transaction is rolled
\* back.  (A call that fails while it holds no row is one that never goes on.)
Fail(r) ==
  /\ held[r] # {}
  /\ Goto(r, "ended")
  /\ End(r)
  /\ UNCHANGED <<caseRow, fileVars, timeline, audit, reviewVars, call, seen, found>>
-----------------------------------------------------------------------------
ApplyForExemption(r) == BeginApply(r) \/ FindNoCase(r) \/ InsertCase(r) \/ InsertRefused(r)

ChangeStatus(r) == BeginStatus(r) \/ CommitStatus(r)

AssignCase(r) == BeginAssign(r) \/ CommitAssign(r)

AddToFile(r) == BeginAdd(r) \/ CommitAdd(r)

EvaluateDecision(r) == LoadDecisionContext(r) \/ RecordChecks(r) \/ AuditChecks(r)
                         \/ EvaluationError(r) \/ ReportError(r) \/ ReportLost(r)

ResolveReview(r) == FindReview(r) \/ ReadReviewedCase(r) \/ TakeReviewRow(r)
                      \/ CommitAccept(r) \/ CommitReopen(r)

Next ==
  \E r \in Requests : \/ ApplyForExemption(r) \/ ChangeStatus(r) \/ AssignCase(r) \/ AddToFile(r)
                      \/ Begin(r) \/ TakeCaseRow(r) \/ LogChange(r) \/ EvaluateDecision(r)
                      \/ ResolveReview(r) \/ Fail(r)

Spec == Init /\ [][Next]_vars
-----------------------------------------------------------------------------
\* Every variable holds a value of its kind.
TypeOK ==
  /\ caseRow \in [status : CaseStatus \cup {"None"}, approvedAt : BOOLEAN,
                  assignedTo : Staff \cup {Nobody}]
  /\ documents \subseteq Nat /\ noted \subseteq Requests
  /\ timeline \in Seq(Entry)
  /\ audit \subseteq Requests /\ checks \subseteq Requests
  /\ reviews \in [Review -> {"none", "Open", "Resolved"}]
  /\ resolutions \subseteq Review \X Requests
  /\ pc \in [Requests -> Stage]
  /\ call \in [Requests -> Call]
  /\ seen \in [Requests -> CaseStatus \cup {"None"}]
  /\ held \in [Requests -> SUBSET (Review \cup {CaseKey})]
  /\ found \in [Requests -> SUBSET Controls]
  /\ clock \in Nat /\ began \in [Requests -> Nat]

\* Two changes overlapped when each began before the other's COMMIT.
Overlapped(e, f) == e.created_at <= f.committed /\ f.created_at <= e.committed

\* The timeline, which is shown by created_at, tells how the case stands: an entry says
\* its status, and whatever is shown after that entry belongs to a change that overlapped
\* it (inTransaction around the UPDATE and recordEvent, in changeStatus and resolveReview).
StatusOnTimeline ==
  timeline # <<>> =>
    \E i \in 1 .. Len(timeline) :
      /\ timeline[i].to = caseRow.status
      /\ \A j \in 1 .. Len(timeline) :
           timeline[j].created_at > timeline[i].created_at => Overlapped(timeline[i], timeline[j])

\* Two applications sent at once for one exemption open one case.
OneApplication ==
  \A i, j \in 1 .. Len(timeline) : timeline[i].from = "None" /\ timeline[j].from = "None" => i = j

\* approved_at says what the timeline says: the case was approved and no review
\* has sent it back since, by the order of the COMMITs and not of the dates,
\* whichever of two overlapping writers came last.
ApprovalDated ==
  /\ caseRow.approvedAt <=>
       \E i \in 1 .. Len(timeline) :
         /\ timeline[i].to = "Approved"
         /\ \A j \in i + 1 .. Len(timeline) : Op(timeline[j].by) # "resolve"
  /\ caseRow.status = "Approved" => caseRow.approvedAt

\* Nobody decides their own exemption or resolves the review of it, and who
\* made a decision never resolves its review (NIST AC-5), even after the case
\* has gone round again.
DutiesSeparated ==
  /\ \A i \in 1 .. Len(timeline) : timeline[i].to \in Decision =>
       timeline[i].actor \in Staff \ {Applicant}
  /\ \A x \in resolutions : call[x[2]].actor \in Staff \ {Applicant, Decider(x[1])}

\* Every move on the timeline is one its actor may make, or a reopening, and starts
\* from a status that the case had at first or that was committed before the move's own
\* date: no decision without a time In Review, no appeal without a denial, however the
\* calls overlapped.
MovesJustified ==
  \A i \in 1 .. Len(timeline) :
    LET e == timeline[i]
    IN  /\ Op(e.by) = "status" => <<e.from, e.to, Side(e.actor)>> \in Transitions
        /\ \/ e.from = timeline[1].from
           \/ \E j \in 1 .. Len(timeline) : timeline[j].to = e.from /\ timeline[j].committed < e.created_at

\* The timeline is the account of the case: there is one of it, it says how the case
\* stands as far as calls that did not overlap go, it explains the approval date, and it
\* was lawful, whatever calls overlap and fail (changeStatus, applyForExemption, resolveReview).
TimelineTrue == OneApplication /\ StatusOnTimeline /\ ApprovalDated /\ MovesJustified

\* A decision whose recorded checks include a failed control has a review, and
\* every review is of a committed, audited decision.
FailuresReviewed ==
  /\ \A r \in checks : found[r] # {} => reviews[<<r, "controls">>] # "none"
  /\ \A v \in Review : reviews[v] # "none" =>
       /\ v[1] \in audit
       /\ \E i \in 1 .. Len(timeline) : timeline[i].by = v[1] /\ timeline[i].to \in Decision

\* The workflow's own guards make four of the controls true: a denial has its
\* grounds, the decider is not the applicant, the decision is recorded from
\* In Review and is in the audit log before it is evaluated.
GuardedControls ==
  \A r \in checks : found[r] \cap {"CTRL-03", "CTRL-04", "CTRL-06", "CTRL-08"} = {}

\* Calls that wait for each other's rows never wait for ever: who holds a row
\* can commit at once, or waits only for someone who can.
RowsComeFree ==
  \A r \in Requests : held[r] # {} =>
    \/ pc[r] = "writing"
    \/ pc[r] = "resolved" /\ \A q \in Requests : CaseKey \in held[q] => pc[q] = "writing"
-----------------------------------------------------------------------------
\* What the comment of TRANSITIONS says: "Approved is final."  Only a
\* compliance review takes a case away from Approved, back to In Review.
ApprovedIsFinal ==
  [][caseRow.status = "Approved" /\ caseRow'.status # "Approved" => resolutions' # resolutions]_vars

\* What a reader of the case page takes the timeline for (USER-GUIDE.md): that the entry
\* shown last says how the case stands.  A change that began before another and took the
\* row after it is shown before it.
EndsInStatus ==
  \A i \in 1 .. Len(timeline) :
    (\A j \in 1 .. Len(timeline) : timeline[j].created_at <= timeline[i].created_at)
      => timeline[i].to = caseRow.status

\* What the comment of evaluateDecision says: "no decision is left unchecked
\* without someone being told."
DecisionsChecked ==
  \A i \in 1 .. Len(timeline) :
    LET r == timeline[i].by
    IN  timeline[i].to \in Decision /\ pc[r] = "ended" =>
          r \in checks \/ reviews[<<r, "error">>] # "none"
=============================================================================
