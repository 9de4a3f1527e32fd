------------------------ MODULE CaseDecisionsProofs ------------------------
(***************************************************************************)
(* The properties of CaseDecisions for every set of people and calls, and  *)
(* whatever the exemptions row says when it is read.                       *)
(***************************************************************************)
EXTENDS CaseDecisions, TLAPS

Committed == {"committed", "evaluating", "recording", "auditing", "reporting", "ended"}

\* Each stage belongs to its operation.
StageFor(r) ==
  /\ pc[r] = "idle" <=> Op(r) = "none"
  /\ pc[r] = "asked" => Op(r) = "apply"
  /\ pc[r] = "ready" => Op(r) \in {"apply", "status", "document", "resolve"}
  /\ pc[r] = "begun" => Op(r) \in {"apply", "status", "assign", "note", "document", "resolve"}
  /\ pc[r] = "writing" => Op(r) \in {"status", "assign", "resolve"}
  /\ pc[r] \in {"reviewing", "resolved"} => Op(r) = "resolve"
  /\ pc[r] \in {"evaluating", "recording", "auditing", "reporting"} => IsDecision(r)
StageOfOp == \A r \in Requests : StageFor(r)

\* The stages of a call that has read the status it will write about.
HasRead == {"ready", "begun", "resolved", "writing"}

\* A change of status asks for a move from what it has read; who resolves a review is staff
\* and not its decider, and by the time of the writes not the applicant.
CallsAdmitted ==
  \A r \in Requests :
    /\ Op(r) = "status" =>
         /\ <<seen[r], call[r].to, Side(call[r].actor)>> \in Transitions
         /\ call[r].actor \in Staff \cup {Applicant}
         /\ call[r].to = "Denied" => call[r].reason
    /\ Op(r) = "resolve" =>
         /\ call[r].actor \in Staff \ {Decider(call[r].review)}
         /\ reviews[call[r].review] # "none"
    /\ Op(r) = "resolve" /\ pc[r] \in HasRead => call[r].actor # Applicant

\* A transaction begins before it commits, and the timeline is in the order of the COMMITs.
TimesTrue ==
  /\ \A r \in Requests : began[r] <= clock
  /\ \A i \in 1 .. Len(timeline) :
       /\ timeline[i].created_at <= timeline[i].committed /\ timeline[i].committed <= clock
       /\ \A j \in 1 .. i : timeline[j].committed <= timeline[i].committed

\* The entry committed last says the status of the case.
LastSays == timeline # <<>> => caseRow.status = timeline[Len(timeline)].to

\* What a call has read was the status of the case before its transaction began.
Was(s, t) == IF timeline = <<>> THEN s = caseRow.status
             ELSE \/ s = timeline[1].from
                  \/ \E j \in 1 .. Len(timeline) : timeline[j].to = s /\ timeline[j].committed < t
BeginsAt(r) == IF pc[r] = "ready" THEN clock + 1 ELSE began[r]
SeenWas ==
  \A r \in Requests : pc[r] \in HasRead /\ Op(r) \in {"status", "resolve"} =>
    seen[r] \in CaseStatus /\ Was(seen[r], BeginsAt(r))

\* An entry says what its request asked for, and the request is past its COMMIT.
EntryOf(r, e) ==
  /\ e.actor = call[r].actor
  /\ \/ Op(r) = "apply" /\ e.from = "None" /\ e.to = "Submitted"
     \/ Op(r) = "status" /\ e.from = seen[r] /\ e.to = call[r].to /\ e.reason = call[r].reason
     \/ Op(r) = "resolve" /\ e.from \in CaseStatus /\ e.to = "InReview"
EntriesTrue ==
  \A i \in 1 .. Len(timeline) : pc[timeline[i].by] \in Committed /\ EntryOf(timeline[i].by, timeline[i])

\* A case is opened once, by the first entry.
OpenedFirst ==
  \A i \in 1 .. Len(timeline) :
    /\ timeline[i].from = "None" => i = 1
    /\ \/ timeline[i].from = timeline[1].from
       \/ \E j \in 1 .. Len(timeline) :
            timeline[j].to = timeline[i].from /\ timeline[j].committed < timeline[i].created_at

\* A decision past its COMMIT is on the timeline, and in the audit log when it is evaluated.
OnTimeline(r) == \E i \in 1 .. Len(timeline) : timeline[i].by = r /\ timeline[i].to \in Decision
DecisionsThere ==
  /\ \A r \in Requests : pc[r] = "committed" /\ IsDecision(r) => OnTimeline(r)
  /\ \A r \in Requests : pc[r] \in {"evaluating", "recording", "auditing", "reporting"} => OnTimeline(r) /\ r \in audit
  /\ \A r \in audit : pc[r] \in Committed
  /\ \A r \in checks : pc[r] \in {"auditing", "reporting", "ended"}

\* Whatever a decision is found to fail, it is none of the controls the workflow guards.
FoundGuarded == \A r \in Requests : found[r] \cap {"CTRL-03", "CTRL-04", "CTRL-06", "CTRL-08"} = {}

\* Only an open transaction holds rows, and the case's only when it can commit.
HeldOpen ==
  \A r \in Requests : /\ held[r] # {} => pc[r] \in {"resolved", "writing"}
                      /\ CaseKey \in held[r] => pc[r] = "writing"

\* Resolutions were made by calls that could.
ResolversApart == \A x \in resolutions : Op(x[2]) = "resolve" /\ call[x[2]].actor # Applicant
                                          /\ call[x[2]].review = x[1]

IInv ==
  /\ TypeOK /\ StageOfOp /\ CallsAdmitted /\ SeenWas /\ EntriesTrue /\ OpenedFirst /\ DecisionsThere
  /\ FoundGuarded /\ HeldOpen /\ ResolversApart /\ TimesTrue /\ LastSays /\ ApprovalDated /\ FailuresReviewed
-----------------------------------------------------------------------------
LEMMA CaseIsNoReview == CaseKey \notin Review
BY DEF CaseKey, Review

LEMMA StatusNames == "None" \notin CaseStatus /\ Decision \subseteq CaseStatus
BY DEF CaseStatus, Decision

LEMMA CallFields ==
  ASSUME TypeOK, NEW r \in Requests
  PROVE  /\ Op(r) \in {"apply", "status"} => call[r].actor \in People
         /\ Op(r) = "status" => call[r].to \in CaseStatus /\ call[r].reason \in BOOLEAN
         /\ Op(r) = "assign" => call[r].assignee \in Staff \cup {Nobody}
         /\ Op(r) = "resolve" => call[r].actor \in People /\ call[r].review \in Review
<1>1. call[r] \in Call
  BY DEF TypeOK
<1>2. CASE Op(r) = "apply"
  BY <1>1, <1>2 DEF Op, Call
<1>3. CASE Op(r) = "status"
  BY <1>1, <1>3 DEF Op, Call
<1>4. CASE Op(r) = "assign"
  BY <1>1, <1>4 DEF Op, Call
<1>5. CASE Op(r) = "resolve"
  BY <1>1, <1>5 DEF Op, Call
<1>6. QED
  BY <1>2, <1>3, <1>4, <1>5

LEMMA MovesAre ==
  ASSUME NEW from, NEW to, NEW by, <<from, to, by>> \in Transitions
  PROVE  /\ from \in CaseStatus /\ to \in CaseStatus
         /\ to \in Decision => from = "InReview" /\ by = "staff"
BY DEF Transitions, CaseStatus, Decision

LEMMA ChoiceIsMove ==
  ASSUME NEW from, NEW by, NEW to \in AllowedTransitions(from, by)
  PROVE  <<from, to, by>> \in Transitions
BY DEF AllowedTransitions

LEMMA Appended ==
  ASSUME TypeOK, NEW e \in Entry, timeline' = Append(timeline, e)
  PROVE  /\ Len(timeline) \in Nat /\ Len(timeline') = Len(timeline) + 1
         /\ \A i \in 1 .. Len(timeline) : timeline'[i] = timeline[i]
         /\ timeline'[Len(timeline) + 1] = e
         /\ timeline' # <<>> /\ timeline' \in Seq(Entry)
<1>1. timeline \in Seq(Entry)
  BY DEF TypeOK
<1>2. QED
  BY <1>1

LEMMA EntryKinds ==
  ASSUME TypeOK
  PROVE  /\ Len(timeline) \in Nat /\ (timeline = <<>> <=> Len(timeline) = 0)
         /\ \A i \in 1 .. Len(timeline) : /\ timeline[i] \in Entry /\ timeline[i].by \in Requests
                                          /\ timeline[i].to \in CaseStatus
<1>1. timeline \in Seq(Entry)
  BY DEF TypeOK
<1>2. \A i \in 1 .. Len(timeline) : timeline[i] \in Entry
  BY <1>1
<1>3. QED
  BY <1>1, <1>2 DEF Entry
-----------------------------------------------------------------------------
LEMMA Start == Init => IInv
<1> SUFFICES ASSUME Init PROVE IInv
  OBVIOUS
<1>1. TypeOK
  <2>1. caseRow \in [status : CaseStatus \cup {"None"}, approvedAt : BOOLEAN, assignedTo : Staff \cup {Nobody}]
    BY EarlierAssumption DEF Init, CaseStatus
  <2>2. documents \subseteq Nat
    <3>1. OnFile \subseteq {0} /\ documents \subseteq OnFile
      BY EarlierAssumption DEF Init
    <3>2. QED
      BY <3>1
  <2>3. timeline \in Seq(Entry)
    BY DEF Init
  <2>4. call \in [Requests -> Call] /\ pc \in [Requests -> Stage]
    BY DEF Init, Call, Stage
  <2>5. QED
    BY <2>1, <2>2, <2>3, <2>4 DEF TypeOK, Init
<1>2. timeline = <<>> /\ Len(timeline) = 0
  BY DEF Init
<1>3. \A r \in Requests : Op(r) = "none" /\ pc[r] = "idle" /\ found[r] = {} /\ held[r] = {}
  BY DEF Init, Op
<1>4. StageOfOp /\ CallsAdmitted /\ SeenWas /\ FoundGuarded /\ HeldOpen
  BY <1>3 DEF StageOfOp, StageFor, CallsAdmitted, SeenWas, FoundGuarded, HeldOpen
<1>5. EntriesTrue /\ OpenedFirst /\ LastSays /\ TimesTrue
  BY <1>2 DEF Init, EntriesTrue, OpenedFirst, LastSays, TimesTrue
<1>6. DecisionsThere /\ ResolversApart
  BY <1>3 DEF Init, DecisionsThere, ResolversApart
<1>7. ApprovalDated
  <2>1. ~caseRow.approvedAt /\ caseRow.status # "Approved"
    BY EarlierAssumption DEF Init
  <2>2. 1 .. Len(timeline) = {}
    BY <1>2
  <2>3. QED
    BY <2>1, <2>2 DEF ApprovalDated
<1>8. FailuresReviewed
  BY DEF Init, FailuresReviewed
<1>9. QED
  BY <1>1, <1>4, <1>5, <1>6, <1>7, <1>8 DEF IInv
-----------------------------------------------------------------------------
(* What any step leaves alone. *)

Step(r) == \/ ApplyForExemption(r) \/ ChangeStatus(r) \/ AssignCase(r) \/ AddToFile(r)
           \/ Begin(r) \/ TakeCaseRow(r) \/ LogChange(r) \/ EvaluateDecision(r) \/ ResolveReview(r) \/ Fail(r)

LEMMA StepIsOne == [Next]_vars <=> (\E r \in Requests : Step(r)) \/ UNCHANGED vars
BY DEF Next, Step

\* What a call asks is settled when it begins, and so is what a change of status has read.
LEMMA CallsStay ==
  ASSUME TypeOK, StageOfOp, [Next]_vars, NEW q \in Requests, pc[q] # "idle"
  PROVE  /\ pc'[q] # "idle" /\ call'[q] = call[q]
         /\ ~(Op(q) = "resolve" /\ pc[q] = "reviewing") => seen'[q] = seen[q]
         /\ pc[q] \in Committed => pc'[q] \in Committed
<1> USE DEF TypeOK, Goto, Asks, Op, Committed
<1> DEFINE Kept == /\ pc'[q] # "idle" /\ call'[q] = call[q] /\ seen'[q] = seen[q]
                   /\ pc[q] \in Committed => pc'[q] \in Committed
<1>1. ASSUME NEW r \in Requests, BeginApply(r) PROVE Kept
  BY <1>1 DEF BeginApply
<1>2. ASSUME NEW r \in Requests, FindNoCase(r) PROVE Kept
  BY <1>2 DEF FindNoCase
<1>3. ASSUME NEW r \in Requests, InsertCase(r) PROVE Kept
  BY <1>3 DEF InsertCase
<1>4. ASSUME NEW r \in Requests, InsertRefused(r) PROVE Kept
  BY <1>4 DEF InsertRefused
<1>5. ASSUME NEW r \in Requests, BeginStatus(r) PROVE Kept
  BY <1>5 DEF BeginStatus
<1>6. ASSUME NEW r \in Requests, CommitStatus(r) PROVE Kept
  BY <1>6 DEF CommitStatus
<1>7. ASSUME NEW r \in Requests, BeginAssign(r) PROVE Kept
  BY <1>7 DEF BeginAssign
<1>8. ASSUME NEW r \in Requests, CommitAssign(r) PROVE Kept
  BY <1>8 DEF CommitAssign
<1>9. ASSUME NEW r \in Requests, BeginAdd(r) PROVE Kept
  BY <1>9 DEF BeginAdd
<1>10. ASSUME NEW r \in Requests, CommitAdd(r) PROVE Kept
  BY <1>10 DEF CommitAdd
<1>11. ASSUME NEW r \in Requests, TakeCaseRow(r) PROVE Kept
  BY <1>11 DEF TakeCaseRow
<1>12. ASSUME NEW r \in Requests, LogChange(r) PROVE Kept
  BY <1>12 DEF LogChange
<1>13. ASSUME NEW r \in Requests, LoadDecisionContext(r) PROVE Kept
  BY <1>13 DEF LoadDecisionContext
<1>14. ASSUME NEW r \in Requests, RecordChecks(r) PROVE Kept
  BY <1>14 DEF RecordChecks
<1>15. ASSUME NEW r \in Requests, AuditChecks(r) PROVE Kept
  BY <1>15 DEF AuditChecks
<1>16. ASSUME NEW r \in Requests, EvaluationError(r) PROVE Kept
  BY <1>16 DEF EvaluationError
<1>17. ASSUME NEW r \in Requests, ReportError(r) PROVE Kept
  BY <1>17 DEF ReportError
<1>18. ASSUME NEW r \in Requests, ReportLost(r) PROVE Kept
  BY <1>18 DEF ReportLost
<1>19. ASSUME NEW r \in Requests, FindReview(r) PROVE Kept
  BY <1>19 DEF FindReview
<1>20. ASSUME NEW r \in Requests, TakeReviewRow(r) PROVE Kept
  BY <1>20 DEF TakeReviewRow
<1>21. ASSUME NEW r \in Requests, CommitAccept(r) PROVE Kept
  BY <1>21 DEF CommitAccept, Resolve
<1>22. ASSUME NEW r \in Requests, CommitReopen(r) PROVE Kept
  BY <1>22 DEF CommitReopen, Resolve
<1>23. ASSUME NEW r \in Requests, Fail(r) PROVE Kept
  BY <1>23 DEF Fail
<1>24. ASSUME NEW r \in Requests, Begin(r) PROVE Kept
  BY <1>24 DEF Begin
<1>25. ASSUME NEW r \in Requests, ReadReviewedCase(r)
      PROVE  /\ pc'[q] # "idle" /\ call'[q] = call[q] /\ (q # r => seen'[q] = seen[q])
             /\ Op(r) = "resolve" /\ pc[r] = "reviewing"
             /\ pc[q] \in Committed => pc'[q] \in Committed
  BY <1>25 DEF ReadReviewedCase, StageOfOp, StageFor
<1>26. CASE UNCHANGED vars
  BY <1>26 DEF vars, requestVars
<1>27. QED
  BY <1>1, <1>2, <1>3, <1>4, <1>5, <1>6, <1>7, <1>8, <1>9, <1>10, <1>11, <1>12, <1>13, <1>14, <1>15, <1>16, <1>17, <1>18, <1>19, <1>20, <1>21, <1>22, <1>23, <1>24, <1>25, <1>26, StepIsOne
  DEF Step, ApplyForExemption, ChangeStatus, AssignCase, AddToFile, EvaluateDecision, ResolveReview
-----------------------------------------------------------------------------
(* The timeline and the case change together. *)

\* r commits the entry e, and the case gets its status.
Adds(r, e) ==
  /\ e \in Entry /\ e.by = r /\ EntryOf(r, e)
  /\ timeline' = Append(timeline, e)
  /\ caseRow'.status = e.to
  /\ caseRow'.approvedAt = IF Op(r) = "resolve" THEN FALSE ELSE caseRow.approvedAt \/ e.to = "Approved"
  /\ \/ Op(r) = "apply" /\ caseRow.status = "None"
     \/ e.from \in CaseStatus /\ Was(e.from, e.created_at)
  /\ e.created_at = began[r] /\ e.committed = clock /\ clock' = clock
  /\ pc[r] \notin Committed /\ pc' = [pc EXCEPT ![r] = "committed"]
  /\ UNCHANGED <<call, seen, audit, checks>>

Quiet == /\ timeline' = timeline
         /\ caseRow'.status = caseRow.status /\ caseRow'.approvedAt = caseRow.approvedAt

LEMMA Inserts ==
  ASSUME TypeOK, StageOfOp, NEW r \in Requests, InsertCase(r)
  PROVE  \E e \in Entry : Adds(r, e)
<1> DEFINE e == [by |-> r, actor |-> call[r].actor, from |-> "None", to |-> "Submitted", reason |-> FALSE,
                 created_at |-> began[r], committed |-> clock]
<1>1. Op(r) = "apply" /\ pc[r] = "begun" /\ caseRow.status = "None"
  BY DEF InsertCase, StageOfOp, StageFor
<1>2. e \in Entry
  <2>1. began[r] \in Nat /\ clock \in Nat
    BY DEF TypeOK
  <2>2. QED
    BY <1>1, <2>1, CallFields DEF Entry, CaseStatus
<1>3. timeline' = Append(timeline, e) /\ pc' = [pc EXCEPT ![r] = "committed"] /\ UNCHANGED <<call, seen, audit, checks, clock>>
  BY DEF InsertCase, RecordEvent, Goto, reviewVars, End
<1>4. caseRow'.status = "Submitted" /\ caseRow'.approvedAt = caseRow.approvedAt
  BY DEF InsertCase, TypeOK
<1>5. EntryOf(r, e)
  BY <1>1 DEF EntryOf
<1>6. caseRow'.approvedAt = IF Op(r) = "resolve" THEN FALSE ELSE caseRow.approvedAt \/ e.to = "Approved"
  BY <1>1, <1>4 DEF TypeOK
<1>7. QED
  BY <1>1, <1>2, <1>3, <1>4, <1>5, <1>6 DEF Adds, Committed

LEMMA Changes ==
  ASSUME TypeOK, CallsAdmitted, SeenWas, NEW r \in Requests, CommitStatus(r)
  PROVE  \E e \in Entry : Adds(r, e)
<1> DEFINE e == [by |-> r, actor |-> call[r].actor, from |-> seen[r], to |-> call[r].to, reason |-> call[r].reason,
                 created_at |-> began[r], committed |-> clock]
<1>1. Op(r) = "status" /\ pc[r] = "writing"
  BY DEF CommitStatus
<1>2. seen[r] \in CaseStatus /\ Was(seen[r], began[r])
  BY <1>1 DEF SeenWas, HasRead, BeginsAt
<1>3. e \in Entry
  <2>1. began[r] \in Nat /\ clock \in Nat
    BY DEF TypeOK
  <2>2. QED
    BY <1>1, <1>2, <2>1, CallFields DEF Entry
<1>4. timeline' = Append(timeline, e) /\ pc' = [pc EXCEPT ![r] = "committed"] /\ UNCHANGED <<call, seen, audit, checks, clock>>
  BY DEF CommitStatus, RecordEvent, Goto, reviewVars, End
<1>5. caseRow'.status = call[r].to /\ caseRow'.approvedAt = (caseRow.approvedAt \/ call[r].to = "Approved")
  BY DEF CommitStatus, TypeOK
<1>6. EntryOf(r, e)
  BY <1>1 DEF EntryOf
<1>7. caseRow'.approvedAt = IF Op(r) = "resolve" THEN FALSE ELSE caseRow.approvedAt \/ e.to = "Approved"
  BY <1>1, <1>5
<1>8. QED
  BY <1>1, <1>2, <1>3, <1>4, <1>5, <1>6, <1>7 DEF Adds, Committed

LEMMA Reopens ==
  ASSUME TypeOK, CallsAdmitted, SeenWas, NEW r \in Requests, CommitReopen(r)
  PROVE  \E e \in Entry : Adds(r, e)
<1> DEFINE e == [by |-> r, actor |-> call[r].actor, from |-> seen[r], to |-> "InReview", reason |-> FALSE,
                 created_at |-> began[r], committed |-> clock]
<1>1. Op(r) = "resolve" /\ pc[r] = "writing"
  BY DEF CommitReopen
<1>2. seen[r] \in CaseStatus /\ Was(seen[r], began[r])
  BY <1>1 DEF SeenWas, HasRead, BeginsAt
<1>3. e \in Entry
  <2>1. began[r] \in Nat /\ clock \in Nat
    BY DEF TypeOK
  <2>2. QED
    BY <1>1, <1>2, <2>1, CallFields DEF Entry, CaseStatus
<1>4. timeline' = Append(timeline, e) /\ pc' = [pc EXCEPT ![r] = "committed"] /\ UNCHANGED <<call, seen, audit, checks, clock>>
  BY DEF CommitReopen, Resolve, RecordEvent, Goto, End
<1>5. caseRow'.status = "InReview" /\ caseRow'.approvedAt = FALSE
  BY DEF CommitReopen, TypeOK
<1>6. EntryOf(r, e)
  BY <1>1, <1>2 DEF EntryOf
<1>7. QED
  BY <1>1, <1>2, <1>3, <1>4, <1>5, <1>6 DEF Adds, Committed

LEMMA WhoWrites ==
  ASSUME TypeOK, StageOfOp, CallsAdmitted, SeenWas, [Next]_vars
  PROVE  (\E r \in Requests, e \in Entry : Adds(r, e)) \/ Quiet
<1> DEFINE Written == (\E r \in Requests, e \in Entry : Adds(r, e)) \/ Quiet
<1>1. ASSUME NEW r \in Requests, ApplyForExemption(r) PROVE Written
  <2>1. CASE InsertCase(r)
    BY <2>1, Inserts
  <2>2. CASE BeginApply(r) \/ FindNoCase(r) \/ InsertRefused(r)
    BY <2>2 DEF BeginApply, FindNoCase, InsertRefused, Quiet
  <2>3. QED
    BY <1>1, <2>1, <2>2 DEF ApplyForExemption
<1>2. ASSUME NEW r \in Requests, ChangeStatus(r) PROVE Written
  <2>1. CASE CommitStatus(r)
    BY <2>1, Changes
  <2>2. CASE BeginStatus(r)
    BY <2>2 DEF BeginStatus, Quiet
  <2>3. QED
    BY <1>2, <2>1, <2>2 DEF ChangeStatus
<1>3. ASSUME NEW r \in Requests, AssignCase(r) PROVE Written
  <2>1. CASE CommitAssign(r)
    BY <2>1 DEF CommitAssign, Quiet, TypeOK
  <2>2. CASE BeginAssign(r)
    BY <2>2 DEF BeginAssign, Quiet
  <2>3. QED
    BY <1>3, <2>1, <2>2 DEF AssignCase
<1>4. ASSUME NEW r \in Requests, AddToFile(r) \/ Begin(r) \/ TakeCaseRow(r) \/ LogChange(r) \/ Fail(r) PROVE Written
  BY <1>4 DEF AddToFile, BeginAdd, CommitAdd, Begin, TakeCaseRow, LogChange, Fail, Quiet
<1>5. ASSUME NEW r \in Requests, EvaluateDecision(r) PROVE Written
  BY <1>5 DEF EvaluateDecision, LoadDecisionContext, RecordChecks, AuditChecks, EvaluationError, ReportError, ReportLost, Quiet
<1>6. ASSUME NEW r \in Requests, ResolveReview(r) PROVE Written
  <2>1. CASE CommitReopen(r)
    BY <2>1, Reopens
  <2>2. CASE FindReview(r) \/ ReadReviewedCase(r) \/ TakeReviewRow(r) \/ CommitAccept(r)
    BY <2>2 DEF FindReview, ReadReviewedCase, TakeReviewRow, CommitAccept, Quiet
  <2>3. QED
    BY <1>6, <2>1, <2>2 DEF ResolveReview
<1>7. CASE UNCHANGED vars
  BY <1>7 DEF vars, Quiet
<1>8. QED
  BY <1>1, <1>2, <1>3, <1>4, <1>5, <1>6, <1>7, StepIsOne DEF Step
-----------------------------------------------------------------------------
(* The timeline. *)

LEMMA StatusKept ==
  ASSUME TypeOK, StageOfOp, CallsAdmitted, SeenWas, LastSays, [Next]_vars
  PROVE  LastSays'
<1>1. ASSUME NEW r \in Requests, NEW e \in Entry, Adds(r, e) PROVE LastSays'
  BY <1>1, Appended DEF Adds, LastSays
<1>2. CASE Quiet
  BY <1>2 DEF Quiet, LastSays
<1>3. QED
  BY <1>1, <1>2, WhoWrites

\* Time passes at a BEGIN; a COMMIT or a ROLLBACK forgets its transaction's.
LEMMA TimePasses ==
  ASSUME TypeOK, [Next]_vars
  PROVE  \/ \E r \in Requests : Begin(r)
         \/ clock' = clock /\ began' \in [Requests -> Nat] /\ \A q \in Requests : began'[q] \in {began[q], 0}
<1> DEFINE Passes2 == clock' = clock /\ began' \in [Requests -> Nat] /\ \A q \in Requests : began'[q] \in {began[q], 0}
<1>0. ASSUME NEW r \in Requests, End(r) PROVE Passes2
  <2>1. began \in [Requests -> Nat] /\ clock' = clock /\ began' = [began EXCEPT ![r] = 0]
    BY <1>0 DEF End, TypeOK
  <2>2. QED
    BY <2>1
<1>1. ASSUME NEW r \in Requests, InsertCase(r) \/ InsertRefused(r) \/ CommitAdd(r) \/ Fail(r) PROVE Passes2
  <2>1. End(r)
    BY <1>1 DEF InsertCase, InsertRefused, CommitAdd, Fail
  <2>2. QED
    BY <1>0, <2>1
<1>2. ASSUME NEW r \in Requests, CommitStatus(r) \/ CommitAssign(r) \/ CommitAccept(r) \/ CommitReopen(r) PROVE Passes2
  <2>1. End(r)
    BY <1>2 DEF CommitStatus, CommitAssign, CommitAccept, CommitReopen, Resolve
  <2>2. QED
    BY <1>0, <2>1
<1>3. ASSUME UNCHANGED timeVars PROVE Passes2
  BY <1>3 DEF timeVars, TypeOK
<1>4. ASSUME NEW r \in Requests, BeginApply(r) \/ FindNoCase(r) \/ BeginStatus(r) \/ BeginAssign(r) \/ BeginAdd(r) \/ TakeCaseRow(r)
      PROVE  UNCHANGED timeVars
  BY <1>4 DEF BeginApply, FindNoCase, BeginStatus, BeginAssign, BeginAdd, TakeCaseRow
<1>5. ASSUME NEW r \in Requests, LogChange(r) \/ LoadDecisionContext(r) \/ RecordChecks(r) \/ AuditChecks(r) \/ EvaluationError(r)
      PROVE  UNCHANGED timeVars
  BY <1>5 DEF LogChange, LoadDecisionContext, RecordChecks, AuditChecks, EvaluationError
<1>6. ASSUME NEW r \in Requests, ReportError(r) \/ ReportLost(r) \/ FindReview(r) \/ ReadReviewedCase(r) \/ TakeReviewRow(r)
      PROVE  UNCHANGED timeVars
  BY <1>6 DEF ReportError, ReportLost, FindReview, ReadReviewedCase, TakeReviewRow
<1>7. CASE UNCHANGED vars
  BY <1>3, <1>7 DEF vars
<1>8. QED
  BY <1>1, <1>2, <1>3, <1>4, <1>5, <1>6, <1>7, StepIsOne
  DEF Step, ApplyForExemption, ChangeStatus, AssignCase, AddToFile, EvaluateDecision, ResolveReview

LEMMA TimeTyped ==
  ASSUME TypeOK, [Next]_vars
  PROVE  clock' \in Nat /\ began' \in [Requests -> Nat] /\ clock <= clock'
<1>1. ASSUME NEW r \in Requests, Begin(r) PROVE clock' \in Nat /\ began' \in [Requests -> Nat] /\ clock <= clock'
  BY <1>1 DEF Begin, TypeOK
<1>2. QED
  BY <1>1, TimePasses DEF TypeOK

LEMMA TimesKept ==
  ASSUME TypeOK, StageOfOp, CallsAdmitted, SeenWas, TimesTrue, [Next]_vars
  PROVE  TimesTrue'
<1> DEFINE n == Len(timeline)
<1>1. clock \in Nat /\ clock' \in Nat /\ clock <= clock' /\ began \in [Requests -> Nat] /\ began' \in [Requests -> Nat]
  BY TimeTyped DEF TypeOK
<1>2. ASSUME NEW q \in Requests PROVE began'[q] <= clock'
  <2>1. began[q] \in Nat /\ began[q] <= clock
    BY <1>1 DEF TimesTrue
  <2>2. ASSUME NEW r \in Requests, Begin(r) PROVE began'[q] <= clock'
    BY <1>1, <2>1, <2>2 DEF Begin
  <2>3. CASE clock' = clock /\ began'[q] \in {began[q], 0}
    BY <1>1, <2>1, <2>3
  <2>4. QED
    BY <2>2, <2>3, TimePasses
<1>3. /\ n \in Nat
      /\ \A i \in 1 .. n : /\ timeline[i].created_at \in Nat /\ timeline[i].committed \in Nat
                           /\ timeline[i].created_at <= timeline[i].committed /\ timeline[i].committed <= clock
                           /\ \A j \in 1 .. i : timeline[j].committed <= timeline[i].committed
  BY EntryKinds DEF TimesTrue, Entry
<1>4. ASSUME NEW r \in Requests, NEW e \in Entry, Adds(r, e)
      PROVE  \A i \in 1 .. Len(timeline') :
               /\ timeline'[i].created_at <= timeline'[i].committed /\ timeline'[i].committed <= clock'
               /\ \A j \in 1 .. i : timeline'[j].committed <= timeline'[i].committed
  <2>1. /\ Len(timeline') = n + 1 /\ timeline'[n + 1] = e /\ \A i \in 1 .. n : timeline'[i] = timeline[i]
    BY <1>4, Appended DEF Adds
  <2>2. e.created_at <= clock /\ e.committed = clock /\ clock' = clock
    BY <1>4 DEF Adds, TimesTrue
  <2>3. ASSUME NEW i \in 1 .. n + 1
        PROVE  /\ timeline'[i].created_at <= timeline'[i].committed /\ timeline'[i].committed <= clock
               /\ \A j \in 1 .. i : timeline'[j].committed <= timeline'[i].committed
    <3>1. CASE i = n + 1
      <4>1. \A j \in 1 .. i : j = n + 1 \/ j \in 1 .. n
        BY <1>3, <3>1
      <4>2. QED
        BY <1>1, <1>3, <2>1, <2>2, <3>1, <4>1
    <3>2. CASE i \in 1 .. n
      <4>1. \A j \in 1 .. i : j \in 1 .. n
        BY <1>3, <3>2
      <4>2. QED
        BY <1>3, <2>1, <3>2, <4>1
    <3>3. QED
      BY <1>3, <3>1, <3>2
  <2>4. QED
    BY <2>1, <2>2, <2>3
<1>5. CASE Quiet
  <2>1. timeline' = timeline
    BY <1>5 DEF Quiet
  <2>2. \A i \in 1 .. n : timeline[i].committed <= clock'
    BY <1>1, <1>3
  <2>3. QED
    BY <1>2, <1>3, <2>1, <2>2 DEF TimesTrue
<1>6. QED
  BY <1>2, <1>4, <1>5, WhoWrites DEF TimesTrue

\* A new entry starts from a status the case really had.
LEMMA StillWas ==
  ASSUME TypeOK, NEW r \in Requests, NEW e \in Entry, Adds(r, e), NEW s, NEW t, Was(s, t)
  PROVE  Was(s, t)'
<1>1. CASE timeline = <<>>
  <2>1. s = caseRow.status
    BY <1>1 DEF Was
  <2>2. e.from = caseRow.status
    BY <1>1 DEF Adds, EntryOf, Was
  <2>3. timeline'[1] = e /\ timeline' # <<>>
    BY <1>1, Appended DEF Adds
  <2>4. QED
    BY <2>1, <2>2, <2>3 DEF Was
<1>2. CASE timeline # <<>>
  <2>1. Len(timeline) \in Nat \ {0}
    BY <1>2, EntryKinds
  <2>2. s = timeline[1].from \/ \E j \in 1 .. Len(timeline) : timeline[j].to = s /\ timeline[j].committed < t
    BY <1>2 DEF Was
  <2>3. /\ timeline' # <<>> /\ timeline'[1] = timeline[1] /\ Len(timeline') = Len(timeline) + 1
        /\ \A j \in 1 .. Len(timeline) : timeline'[j] = timeline[j]
    BY <2>1, Appended DEF Adds
  <2>4. \A j \in 1 .. Len(timeline) : j \in 1 .. Len(timeline')
    BY <2>1, <2>3
  <2>5. QED
    BY <2>2, <2>3, <2>4 DEF Was
<1>3. QED
  BY <1>1, <1>2

\* What was so before one time was so before any later one, and a quiet step changes nothing of it.
LEMMA WasBefore ==
  ASSUME TypeOK, NEW s, NEW t \in Nat, NEW u \in Nat, t <= u, Was(s, t)
  PROVE  Was(s, u)
<1>1. CASE timeline = <<>>
  BY <1>1 DEF Was
<1>2. CASE timeline # <<>>
  <2>1. \A j \in 1 .. Len(timeline) : timeline[j].committed \in Nat
    BY EntryKinds DEF Entry
  <2>2. \A j \in 1 .. Len(timeline) : timeline[j].committed < t => timeline[j].committed < u
    BY <2>1
  <2>3. QED
    BY <1>2, <2>2 DEF Was
<1>3. QED
  BY <1>1, <1>2

LEMMA OpenedKept ==
  ASSUME TypeOK, StageOfOp, CallsAdmitted, SeenWas, LastSays, OpenedFirst, [Next]_vars
  PROVE  OpenedFirst'
<1>1. ASSUME NEW r \in Requests, NEW e \in Entry, Adds(r, e) PROVE OpenedFirst'
  <2> DEFINE n == Len(timeline)
  <2>1. /\ n \in Nat /\ Len(timeline') = n + 1 /\ timeline'[n + 1] = e
        /\ \A i \in 1 .. n : timeline'[i] = timeline[i]
    BY <1>1, Appended DEF Adds
  <2>2. CASE n = 0
    BY <2>1, <2>2 DEF OpenedFirst
  <2>3. CASE n # 0
    <3>1. timeline # <<>> /\ caseRow.status \in CaseStatus
      BY <2>1, <2>3, EntryKinds DEF LastSays
    <3>2. e.from \in CaseStatus /\ Was(e.from, e.created_at)
      BY <1>1, <3>1, StatusNames DEF Adds
    <3>3. e.from # "None"
      BY <3>2, StatusNames
    <3>4. \/ e.from = timeline[1].from
          \/ \E j \in 1 .. n : timeline[j].to = e.from /\ timeline[j].committed < e.created_at
      BY <3>1, <3>2 DEF Was
    <3>5. \A j \in 1 .. n : j \in 1 .. n + 1
      BY <2>1
    <3>6. ASSUME NEW i \in 1 .. n + 1
          PROVE  /\ timeline'[i].from = "None" => i = 1
                 /\ \/ timeline'[i].from = timeline'[1].from
                    \/ \E j \in 1 .. n + 1 : timeline'[j].to = timeline'[i].from
                                             /\ timeline'[j].committed < timeline'[i].created_at
      <4>1. timeline'[1] = timeline[1]
        BY <2>1, <2>3
      <4>2. CASE i = n + 1
        BY <2>1, <3>3, <3>4, <3>5, <4>1, <4>2
      <4>3. CASE i \in 1 .. n
        BY <2>1, <3>5, <4>1, <4>3 DEF OpenedFirst
      <4>4. QED
        BY <2>1, <4>2, <4>3
    <3>7. QED
      BY <2>1, <3>6 DEF OpenedFirst
  <2>4. QED
    BY <2>2, <2>3
<1>2. CASE Quiet
  BY <1>2 DEF Quiet, OpenedFirst
<1>3. QED
  BY <1>1, <1>2, WhoWrites

\* Who has an entry on the timeline asks for the same, and stays past its COMMIT.
LEMMA WritersStay ==
  ASSUME TypeOK, StageOfOp, EntriesTrue, [Next]_vars, NEW i \in 1 .. Len(timeline)
  PROVE  /\ timeline[i].by \in Requests /\ pc'[timeline[i].by] \in Committed
         /\ call'[timeline[i].by] = call[timeline[i].by] /\ seen'[timeline[i].by] = seen[timeline[i].by]
<1> DEFINE q == timeline[i].by
<1>1. q \in Requests /\ pc[q] \in Committed
  BY EntryKinds DEF EntriesTrue
<1>2. pc[q] # "idle" /\ pc[q] # "reviewing"
  BY <1>1 DEF Committed
<1>3. QED
  BY <1>1, <1>2, CallsStay

LEMMA EntriesKept ==
  ASSUME TypeOK, StageOfOp, CallsAdmitted, SeenWas, EntriesTrue, [Next]_vars
  PROVE  EntriesTrue'
<1>1. ASSUME NEW r \in Requests, NEW e \in Entry, Adds(r, e) PROVE EntriesTrue'
  <2>1. /\ Len(timeline) \in Nat /\ Len(timeline') = Len(timeline) + 1 /\ timeline'[Len(timeline) + 1] = e
        /\ \A i \in 1 .. Len(timeline) : timeline'[i] = timeline[i]
    BY <1>1, Appended DEF Adds
  <2>2. e.by = r /\ pc'[r] \in Committed /\ call' = call /\ seen' = seen /\ EntryOf(r, e)
    BY <1>1 DEF Adds, Committed, TypeOK
  <2>3. ASSUME NEW i \in 1 .. Len(timeline')
        PROVE  pc'[timeline'[i].by] \in Committed /\ EntryOf(timeline'[i].by, timeline'[i])
    <3>1. CASE i = Len(timeline) + 1
      BY <2>1, <2>2, <3>1
    <3>2. CASE i \in 1 .. Len(timeline)
      BY <2>1, <3>2, WritersStay DEF EntriesTrue
    <3>3. QED
      BY <2>1, <3>1, <3>2
  <2>4. QED
    BY <2>2, <2>3 DEF EntriesTrue, EntryOf, Op
<1>2. CASE Quiet
  BY <1>2, WritersStay DEF Quiet, EntriesTrue, EntryOf, Op
<1>3. QED
  BY <1>1, <1>2, WhoWrites

LEMMA DatedKept ==
  ASSUME TypeOK, StageOfOp, CallsAdmitted, SeenWas, EntriesTrue, ApprovalDated, [Next]_vars
  PROVE  ApprovalDated'
<1>1. ASSUME NEW r \in Requests, NEW e \in Entry, Adds(r, e) PROVE ApprovalDated'
  <2> DEFINE n == Len(timeline)
             Stands(i) == timeline[i].to = "Approved" /\ \A j \in i + 1 .. n : call[timeline[j].by].op # "resolve"
             StandsNow(i) == timeline'[i].to = "Approved"
                               /\ \A j \in i + 1 .. n + 1 : call[timeline'[j].by].op # "resolve"
  <2>1. /\ n \in Nat /\ Len(timeline') = n + 1 /\ timeline'[n + 1] = e
        /\ \A i \in 1 .. n : timeline'[i] = timeline[i]
    BY <1>1, Appended DEF Adds
  <2>2. caseRow.approvedAt <=> \E i \in 1 .. n : Stands(i)
    BY DEF ApprovalDated, Op
  <2>3. caseRow'.approvedAt <=> \E i \in 1 .. n + 1 : StandsNow(i)
    <3>1. CASE Op(r) = "resolve"
      <4>1. e.to = "InReview" /\ ~caseRow'.approvedAt /\ e.by = r
        BY <1>1, <3>1 DEF Adds, EntryOf
      <4>2. ASSUME NEW i \in 1 .. n + 1, StandsNow(i) PROVE FALSE
        <5>1. i # n + 1
          BY <2>1, <4>1, <4>2
        <5>2. n + 1 \in i + 1 .. n + 1
          BY <2>1, <5>1
        <5>3. QED
          BY <2>1, <3>1, <4>1, <4>2, <5>2 DEF Op
      <4>3. QED
        BY <4>1, <4>2
    <3>2. CASE Op(r) # "resolve"
      <4>1. caseRow'.approvedAt <=> caseRow.approvedAt \/ e.to = "Approved"
        BY <1>1, <3>2 DEF Adds
      <4>2. ASSUME NEW i \in 1 .. n PROVE StandsNow(i) <=> Stands(i)
        <5>1. \A j \in i + 1 .. n : j \in 1 .. n /\ j \in i + 1 .. n + 1
          BY <2>1
        <5>2. \A j \in i + 1 .. n + 1 : j \in i + 1 .. n \/ j = n + 1
          BY <2>1
        <5>3. call[timeline'[n + 1].by].op # "resolve"
          BY <1>1, <2>1, <3>2 DEF Adds, Op
        <5>4. QED
          BY <2>1, <5>1, <5>2, <5>3
      <4>3. StandsNow(n + 1) <=> e.to = "Approved"
        <5>1. n + 1 + 1 .. n + 1 = {}
          BY <2>1
        <5>2. QED
          BY <2>1, <5>1
      <4>4. \A i : i \in 1 .. n + 1 <=> i \in 1 .. n \/ i = n + 1
        BY <2>1
      <4>5. QED
        BY <2>2, <4>1, <4>2, <4>3, <4>4
    <3>3. QED
      BY <3>1, <3>2
  <2>4. caseRow'.status = "Approved" => caseRow'.approvedAt
    <3>1. caseRow'.status = "Approved" => e.to = "Approved" /\ Op(r) # "resolve"
      BY <1>1 DEF Adds, EntryOf
    <3>2. QED
      BY <1>1, <3>1 DEF Adds
  <2>5. call' = call
    BY <1>1 DEF Adds
  <2>6. QED
    BY <2>1, <2>3, <2>4, <2>5 DEF ApprovalDated, Op
<1>2. CASE Quiet
  <2>1. \A i \in 1 .. Len(timeline) : \A j \in i + 1 .. Len(timeline) : call'[timeline[j].by] = call[timeline[j].by]
    <3>1. \A i \in 1 .. Len(timeline) : \A j \in i + 1 .. Len(timeline) : j \in 1 .. Len(timeline)
      BY EntryKinds
    <3>2. QED
      BY <3>1, WritersStay
  <2>2. QED
    BY <1>2, <2>1 DEF Quiet, ApprovalDated, Op
<1>3. QED
  BY <1>1, <1>2, WhoWrites
-----------------------------------------------------------------------------
(* The requests. *)

LEMMA StageKept ==
  ASSUME TypeOK, StageOfOp, HeldOpen, [Next]_vars, NEW q \in Requests
  PROVE  StageFor(q)'
<1> USE DEF TypeOK, Goto, Asks, Op, IsDecision, StageOfOp, StageFor
<1>1. ASSUME NEW r \in Requests, BeginApply(r) PROVE StageFor(q)'
  BY <1>1 DEF BeginApply
<1>2. ASSUME NEW r \in Requests, FindNoCase(r) PROVE StageFor(q)'
  BY <1>2 DEF FindNoCase
<1>3. ASSUME NEW r \in Requests, InsertCase(r) PROVE StageFor(q)'
  BY <1>3 DEF InsertCase
<1>4. ASSUME NEW r \in Requests, InsertRefused(r) PROVE StageFor(q)'
  BY <1>4 DEF InsertRefused
<1>5. ASSUME NEW r \in Requests, BeginStatus(r) PROVE StageFor(q)'
  BY <1>5 DEF BeginStatus
<1>6. ASSUME NEW r \in Requests, CommitStatus(r) PROVE StageFor(q)'
  BY <1>6 DEF CommitStatus
<1>7. ASSUME NEW r \in Requests, BeginAssign(r) PROVE StageFor(q)'
  BY <1>7 DEF BeginAssign
<1>8. ASSUME NEW r \in Requests, CommitAssign(r) PROVE StageFor(q)'
  BY <1>8 DEF CommitAssign
<1>9. ASSUME NEW r \in Requests, BeginAdd(r) PROVE StageFor(q)'
  <2>1. CASE Asks(r, [op |-> "note"]) /\ Goto(r, "begun")
    BY <2>1
  <2>2. CASE Asks(r, [op |-> "document"]) /\ Goto(r, "ready")
    BY <2>2
  <2>3. QED
    BY <1>9, <2>1, <2>2 DEF BeginAdd
<1>10. ASSUME NEW r \in Requests, CommitAdd(r) PROVE StageFor(q)'
  BY <1>10 DEF CommitAdd
<1>11. ASSUME NEW r \in Requests, TakeCaseRow(r) PROVE StageFor(q)'
  BY <1>11 DEF TakeCaseRow
<1>12. ASSUME NEW r \in Requests, LogChange(r) PROVE StageFor(q)'
  BY <1>12 DEF LogChange
<1>13. ASSUME NEW r \in Requests, LoadDecisionContext(r) PROVE StageFor(q)'
  BY <1>13 DEF LoadDecisionContext
<1>14. ASSUME NEW r \in Requests, RecordChecks(r) PROVE StageFor(q)'
  BY <1>14 DEF RecordChecks
<1>15. ASSUME NEW r \in Requests, AuditChecks(r) PROVE StageFor(q)'
  BY <1>15 DEF AuditChecks
<1>16. ASSUME NEW r \in Requests, EvaluationError(r) PROVE StageFor(q)'
  BY <1>16 DEF EvaluationError
<1>17. ASSUME NEW r \in Requests, ReportError(r) PROVE StageFor(q)'
  BY <1>17 DEF ReportError
<1>18. ASSUME NEW r \in Requests, ReportLost(r) PROVE StageFor(q)'
  BY <1>18 DEF ReportLost
<1>19. ASSUME NEW r \in Requests, FindReview(r) PROVE StageFor(q)'
  BY <1>19 DEF FindReview
<1>20. ASSUME NEW r \in Requests, ReadReviewedCase(r) PROVE StageFor(q)'
  BY <1>20 DEF ReadReviewedCase
<1>21. ASSUME NEW r \in Requests, TakeReviewRow(r) PROVE StageFor(q)'
  BY <1>21 DEF TakeReviewRow
<1>22. ASSUME NEW r \in Requests, CommitAccept(r) PROVE StageFor(q)'
  BY <1>22 DEF CommitAccept, Resolve
<1>23. ASSUME NEW r \in Requests, CommitReopen(r) PROVE StageFor(q)'
  BY <1>23 DEF CommitReopen, Resolve
<1>24. ASSUME NEW r \in Requests, Fail(r) PROVE StageFor(q)'
  BY <1>24 DEF Fail, HeldOpen
<1>25. ASSUME NEW r \in Requests, Begin(r) PROVE StageFor(q)'
  BY <1>25 DEF Begin
<1>26. CASE UNCHANGED vars
  BY <1>26 DEF vars, requestVars
<1>27. QED
  BY <1>1, <1>2, <1>3, <1>4, <1>5, <1>6, <1>7, <1>8, <1>9, <1>10, <1>11, <1>12, <1>13, <1>14, <1>15, <1>16, <1>17, <1>18, <1>19, <1>20, <1>21, <1>22, <1>23, <1>24, <1>25, <1>26, StepIsOne
  DEF Step, ApplyForExemption, ChangeStatus, AssignCase, AddToFile, EvaluateDecision, ResolveReview

LEMMA HeldKept ==
  ASSUME TypeOK, StageOfOp, HeldOpen, [Next]_vars
  PROVE  HeldOpen'
<1> USE DEF TypeOK, Goto, HeldOpen
<1>1. ASSUME NEW r \in Requests, BeginApply(r) PROVE HeldOpen'
  BY <1>1 DEF BeginApply
<1>2. ASSUME NEW r \in Requests, FindNoCase(r) PROVE HeldOpen'
  BY <1>2 DEF FindNoCase
<1>3. ASSUME NEW r \in Requests, InsertCase(r) PROVE HeldOpen'
  BY <1>3 DEF InsertCase, End
<1>4. ASSUME NEW r \in Requests, InsertRefused(r) PROVE HeldOpen'
  BY <1>4 DEF InsertRefused, End
<1>5. ASSUME NEW r \in Requests, BeginStatus(r) PROVE HeldOpen'
  BY <1>5 DEF BeginStatus
<1>6. ASSUME NEW r \in Requests, CommitStatus(r) PROVE HeldOpen'
  BY <1>6 DEF CommitStatus, End
<1>7. ASSUME NEW r \in Requests, BeginAssign(r) PROVE HeldOpen'
  BY <1>7 DEF BeginAssign
<1>8. ASSUME NEW r \in Requests, CommitAssign(r) PROVE HeldOpen'
  BY <1>8 DEF CommitAssign, End
<1>9. ASSUME NEW r \in Requests, BeginAdd(r) PROVE HeldOpen'
  BY <1>9 DEF BeginAdd
<1>10. ASSUME NEW r \in Requests, CommitAdd(r) PROVE HeldOpen'
  BY <1>10 DEF CommitAdd, End
<1>11. ASSUME NEW r \in Requests, TakeCaseRow(r) PROVE HeldOpen'
  BY <1>11 DEF TakeCaseRow, TakeRow
<1>12. ASSUME NEW r \in Requests, LogChange(r) PROVE HeldOpen'
  BY <1>12 DEF LogChange
<1>13. ASSUME NEW r \in Requests, LoadDecisionContext(r) PROVE HeldOpen'
  BY <1>13 DEF LoadDecisionContext
<1>14. ASSUME NEW r \in Requests, RecordChecks(r) PROVE HeldOpen'
  BY <1>14 DEF RecordChecks
<1>15. ASSUME NEW r \in Requests, AuditChecks(r) PROVE HeldOpen'
  BY <1>15 DEF AuditChecks
<1>16. ASSUME NEW r \in Requests, EvaluationError(r) PROVE HeldOpen'
  BY <1>16 DEF EvaluationError
<1>17. ASSUME NEW r \in Requests, ReportError(r) PROVE HeldOpen'
  BY <1>17 DEF ReportError
<1>18. ASSUME NEW r \in Requests, ReportLost(r) PROVE HeldOpen'
  BY <1>18 DEF ReportLost
<1>19. ASSUME NEW r \in Requests, FindReview(r) PROVE HeldOpen'
  BY <1>19 DEF FindReview
<1>20. ASSUME NEW r \in Requests, ReadReviewedCase(r) PROVE HeldOpen'
  BY <1>20 DEF ReadReviewedCase
<1>21. ASSUME NEW r \in Requests, TakeReviewRow(r) PROVE HeldOpen'
  BY <1>21, CallFields, CaseIsNoReview DEF TakeReviewRow, TakeRow, StageOfOp, StageFor
<1>22. ASSUME NEW r \in Requests, CommitAccept(r) PROVE HeldOpen'
  BY <1>22 DEF CommitAccept, Resolve, End
<1>23. ASSUME NEW r \in Requests, CommitReopen(r) PROVE HeldOpen'
  BY <1>23 DEF CommitReopen, Resolve, End
<1>24. ASSUME NEW r \in Requests, Fail(r) PROVE HeldOpen'
  BY <1>24 DEF Fail, End
<1>25. ASSUME NEW r \in Requests, Begin(r) PROVE HeldOpen'
  BY <1>25 DEF Begin
<1>26. CASE UNCHANGED vars
  BY <1>26 DEF vars, requestVars
<1>27. QED
  BY <1>1, <1>2, <1>3, <1>4, <1>5, <1>6, <1>7, <1>8, <1>9, <1>10, <1>11, <1>12, <1>13, <1>14, <1>15, <1>16, <1>17, <1>18, <1>19, <1>20, <1>21, <1>22, <1>23, <1>24, <1>25, <1>26, StepIsOne
  DEF Step, ApplyForExemption, ChangeStatus, AssignCase, AddToFile, EvaluateDecision, ResolveReview

\* A call has the status from its first read, or from the read of the reviewed case.
LEMMA StatusRead ==
  ASSUME TypeOK, StageOfOp, [Next]_vars, NEW q \in Requests, pc'[q] \in HasRead, Op(q)' \in {"status", "resolve"}
  PROVE  \/ pc[q] \in HasRead /\ call'[q] = call[q] /\ seen'[q] = seen[q] /\ BeginsAt(q) <= BeginsAt(q)'
         \/ BeginStatus(q)
         \/ ReadReviewedCase(q) /\ call'[q] = call[q]
<1> DEFINE Reads == \/ pc[q] \in HasRead /\ call'[q] = call[q] /\ seen'[q] = seen[q] /\ BeginsAt(q) <= BeginsAt(q)'
                    \/ BeginStatus(q)
                    \/ ReadReviewedCase(q) /\ call'[q] = call[q]
<1> USE DEF TypeOK, Goto, Asks, Op, HasRead, StageOfOp, StageFor, BeginsAt, timeVars
<1>1. ASSUME NEW r \in Requests, BeginApply(r) PROVE Reads
  BY <1>1 DEF BeginApply
<1>2. ASSUME NEW r \in Requests, FindNoCase(r) PROVE Reads
  BY <1>2 DEF FindNoCase
<1>3. ASSUME NEW r \in Requests, InsertCase(r) PROVE Reads
  BY <1>3 DEF InsertCase, End
<1>4. ASSUME NEW r \in Requests, InsertRefused(r) PROVE Reads
  BY <1>4 DEF InsertRefused, End
<1>5. ASSUME NEW r \in Requests, BeginStatus(r) PROVE Reads
  <2>1. CASE q = r
    BY <1>5, <2>1
  <2>2. CASE q # r
    <3>1. pc'[q] = pc[q] /\ call'[q] = call[q] /\ seen'[q] = seen[q]
      BY <1>5, <2>2 DEF BeginStatus
    <3>2. clock' = clock /\ began' = began /\ clock \in Nat /\ began[q] \in Nat
      BY <1>5 DEF BeginStatus
    <3>3. QED
      BY <3>1, <3>2
  <2>3. QED
    BY <2>1, <2>2
<1>6. ASSUME NEW r \in Requests, CommitStatus(r) PROVE Reads
  BY <1>6 DEF CommitStatus, End
<1>7. ASSUME NEW r \in Requests, BeginAssign(r) PROVE Reads
  BY <1>7 DEF BeginAssign
<1>8. ASSUME NEW r \in Requests, CommitAssign(r) PROVE Reads
  BY <1>8 DEF CommitAssign, End
<1>9. ASSUME NEW r \in Requests, BeginAdd(r) PROVE Reads
  BY <1>9 DEF BeginAdd
<1>10. ASSUME NEW r \in Requests, CommitAdd(r) PROVE Reads
  BY <1>10 DEF CommitAdd, End
<1>11. ASSUME NEW r \in Requests, TakeCaseRow(r) PROVE Reads
  BY <1>11 DEF TakeCaseRow
<1>12. ASSUME NEW r \in Requests, LogChange(r) PROVE Reads
  BY <1>12 DEF LogChange
<1>13. ASSUME NEW r \in Requests, LoadDecisionContext(r) PROVE Reads
  BY <1>13 DEF LoadDecisionContext
<1>14. ASSUME NEW r \in Requests, RecordChecks(r) PROVE Reads
  BY <1>14 DEF RecordChecks
<1>15. ASSUME NEW r \in Requests, AuditChecks(r) PROVE Reads
  BY <1>15 DEF AuditChecks
<1>16. ASSUME NEW r \in Requests, EvaluationError(r) PROVE Reads
  BY <1>16 DEF EvaluationError
<1>17. ASSUME NEW r \in Requests, ReportError(r) PROVE Reads
  BY <1>17 DEF ReportError
<1>18. ASSUME NEW r \in Requests, ReportLost(r) PROVE Reads
  BY <1>18 DEF ReportLost
<1>19. ASSUME NEW r \in Requests, FindReview(r) PROVE Reads
  BY <1>19 DEF FindReview
<1>20. ASSUME NEW r \in Requests, ReadReviewedCase(r) PROVE Reads
  <2>1. CASE q = r
    BY <1>20, <2>1 DEF ReadReviewedCase
  <2>2. CASE q # r
    BY <1>20, <2>2 DEF ReadReviewedCase
  <2>3. QED
    BY <2>1, <2>2
<1>21. ASSUME NEW r \in Requests, TakeReviewRow(r) PROVE Reads
  BY <1>21 DEF TakeReviewRow
<1>22. ASSUME NEW r \in Requests, CommitAccept(r) PROVE Reads
  BY <1>22 DEF CommitAccept, Resolve, End
<1>23. ASSUME NEW r \in Requests, CommitReopen(r) PROVE Reads
  BY <1>23 DEF CommitReopen, Resolve, End
<1>24. ASSUME NEW r \in Requests, Fail(r) PROVE Reads
  BY <1>24 DEF Fail, End
<1>25. ASSUME NEW r \in Requests, Begin(r) PROVE Reads
  BY <1>25 DEF Begin
<1>26. CASE UNCHANGED vars
  BY <1>26 DEF vars, requestVars
<1>27. QED
  BY <1>1, <1>2, <1>3, <1>4, <1>5, <1>6, <1>7, <1>8, <1>9, <1>10, <1>11, <1>12, <1>13, <1>14, <1>15, <1>16, <1>17, <1>18, <1>19, <1>20, <1>21, <1>22, <1>23, <1>24, <1>25, <1>26, StepIsOne
  DEF Step, ApplyForExemption, ChangeStatus, AssignCase, AddToFile, EvaluateDecision, ResolveReview

LEMMA ReviewsStay ==
  ASSUME TypeOK, [Next]_vars, NEW v \in Review, reviews[v] # "none"
  PROVE  reviews'[v] # "none"
<1> USE DEF TypeOK
<1>1. ASSUME NEW r \in Requests, BeginApply(r) PROVE reviews'[v] # "none"
  BY <1>1 DEF reviewVars, BeginApply
<1>2. ASSUME NEW r \in Requests, FindNoCase(r) PROVE reviews'[v] # "none"
  BY <1>2 DEF reviewVars, FindNoCase
<1>3. ASSUME NEW r \in Requests, InsertCase(r) PROVE reviews'[v] # "none"
  BY <1>3 DEF reviewVars, InsertCase
<1>4. ASSUME NEW r \in Requests, InsertRefused(r) PROVE reviews'[v] # "none"
  BY <1>4 DEF reviewVars, InsertRefused
<1>5. ASSUME NEW r \in Requests, BeginStatus(r) PROVE reviews'[v] # "none"
  BY <1>5 DEF reviewVars, BeginStatus
<1>6. ASSUME NEW r \in Requests, CommitStatus(r) PROVE reviews'[v] # "none"
  BY <1>6 DEF reviewVars, CommitStatus
<1>7. ASSUME NEW r \in Requests, BeginAssign(r) PROVE reviews'[v] # "none"
  BY <1>7 DEF reviewVars, BeginAssign
<1>8. ASSUME NEW r \in Requests, CommitAssign(r) PROVE reviews'[v] # "none"
  BY <1>8 DEF reviewVars, CommitAssign
<1>9. ASSUME NEW r \in Requests, BeginAdd(r) PROVE reviews'[v] # "none"
  BY <1>9 DEF reviewVars, BeginAdd
<1>10. ASSUME NEW r \in Requests, CommitAdd(r) PROVE reviews'[v] # "none"
  BY <1>10 DEF reviewVars, CommitAdd
<1>11. ASSUME NEW r \in Requests, TakeCaseRow(r) PROVE reviews'[v] # "none"
  BY <1>11 DEF reviewVars, TakeCaseRow
<1>12. ASSUME NEW r \in Requests, LogChange(r) PROVE reviews'[v] # "none"
  BY <1>12 DEF reviewVars, LogChange
<1>13. ASSUME NEW r \in Requests, LoadDecisionContext(r) PROVE reviews'[v] # "none"
  BY <1>13 DEF reviewVars, LoadDecisionContext
<1>14. ASSUME NEW r \in Requests, RecordChecks(r) PROVE reviews'[v] # "none"
  BY <1>14 DEF reviewVars, RecordChecks
<1>15. ASSUME NEW r \in Requests, AuditChecks(r) PROVE reviews'[v] # "none"
  BY <1>15 DEF reviewVars, AuditChecks
<1>16. ASSUME NEW r \in Requests, EvaluationError(r) PROVE reviews'[v] # "none"
  BY <1>16 DEF reviewVars, EvaluationError
<1>17. ASSUME NEW r \in Requests, ReportError(r) PROVE reviews'[v] # "none"
  BY <1>17 DEF reviewVars, ReportError
<1>18. ASSUME NEW r \in Requests, ReportLost(r) PROVE reviews'[v] # "none"
  BY <1>18 DEF reviewVars, ReportLost
<1>19. ASSUME NEW r \in Requests, FindReview(r) PROVE reviews'[v] # "none"
  BY <1>19 DEF reviewVars, FindReview
<1>20. ASSUME NEW r \in Requests, ReadReviewedCase(r) PROVE reviews'[v] # "none"
  BY <1>20 DEF reviewVars, ReadReviewedCase
<1>21. ASSUME NEW r \in Requests, TakeReviewRow(r) PROVE reviews'[v] # "none"
  BY <1>21 DEF reviewVars, TakeReviewRow
<1>22. ASSUME NEW r \in Requests, CommitAccept(r) PROVE reviews'[v] # "none"
  BY <1>22 DEF reviewVars, CommitAccept, Resolve
<1>23. ASSUME NEW r \in Requests, CommitReopen(r) PROVE reviews'[v] # "none"
  BY <1>23 DEF reviewVars, CommitReopen, Resolve
<1>24. ASSUME NEW r \in Requests, Fail(r) PROVE reviews'[v] # "none"
  BY <1>24 DEF reviewVars, Fail
<1>25. ASSUME NEW r \in Requests, Begin(r) PROVE reviews'[v] # "none"
  BY <1>25 DEF reviewVars, Begin
<1>26. CASE UNCHANGED vars
  BY <1>26 DEF vars, reviewVars
<1>27. QED
  BY <1>1, <1>2, <1>3, <1>4, <1>5, <1>6, <1>7, <1>8, <1>9, <1>10, <1>11, <1>12, <1>13, <1>14, <1>15, <1>16, <1>17, <1>18, <1>19, <1>20, <1>21, <1>22, <1>23, <1>24, <1>25, <1>26, StepIsOne
  DEF Step, ApplyForExemption, ChangeStatus, AssignCase, AddToFile, EvaluateDecision, ResolveReview

\* A call is asked for when it begins: a change of status by what it has read, a resolution by
\* somebody who did not decide.
LEMMA HowBegun ==
  ASSUME TypeOK, StageOfOp, [Next]_vars, NEW q \in Requests, pc[q] = "idle", Op(q)' \in {"status", "resolve"}
  PROVE  BeginStatus(q) \/ FindReview(q)
<1> DEFINE Begun == BeginStatus(q) \/ FindReview(q)
<1> USE DEF TypeOK, Goto, Asks, Op, StageOfOp, StageFor
<1>1. ASSUME NEW r \in Requests, BeginApply(r) PROVE Begun
  BY <1>1 DEF BeginApply
<1>2. ASSUME NEW r \in Requests, FindNoCase(r) PROVE Begun
  BY <1>2 DEF FindNoCase
<1>3. ASSUME NEW r \in Requests, InsertCase(r) PROVE Begun
  BY <1>3 DEF InsertCase
<1>4. ASSUME NEW r \in Requests, InsertRefused(r) PROVE Begun
  BY <1>4 DEF InsertRefused
<1>5. ASSUME NEW r \in Requests, BeginStatus(r) PROVE Begun
  <2>1. CASE q = r
    BY <1>5, <2>1
  <2>2. CASE q # r
    BY <1>5, <2>2 DEF BeginStatus
  <2>3. QED
    BY <2>1, <2>2
<1>6. ASSUME NEW r \in Requests, CommitStatus(r) PROVE Begun
  BY <1>6 DEF CommitStatus
<1>7. ASSUME NEW r \in Requests, BeginAssign(r) PROVE Begun
  BY <1>7 DEF BeginAssign
<1>8. ASSUME NEW r \in Requests, CommitAssign(r) PROVE Begun
  BY <1>8 DEF CommitAssign
<1>9. ASSUME NEW r \in Requests, BeginAdd(r) PROVE Begun
  <2>1. CASE Asks(r, [op |-> "note"])
    BY <2>1
  <2>2. CASE Asks(r, [op |-> "document"])
    BY <2>2
  <2>3. QED
    BY <1>9, <2>1, <2>2 DEF BeginAdd
<1>10. ASSUME NEW r \in Requests, CommitAdd(r) PROVE Begun
  BY <1>10 DEF CommitAdd
<1>11. ASSUME NEW r \in Requests, TakeCaseRow(r) PROVE Begun
  BY <1>11 DEF TakeCaseRow
<1>12. ASSUME NEW r \in Requests, LogChange(r) PROVE Begun
  BY <1>12 DEF LogChange
<1>13. ASSUME NEW r \in Requests, LoadDecisionContext(r) PROVE Begun
  BY <1>13 DEF LoadDecisionContext
<1>14. ASSUME NEW r \in Requests, RecordChecks(r) PROVE Begun
  BY <1>14 DEF RecordChecks
<1>15. ASSUME NEW r \in Requests, AuditChecks(r) PROVE Begun
  BY <1>15 DEF AuditChecks
<1>16. ASSUME NEW r \in Requests, EvaluationError(r) PROVE Begun
  BY <1>16 DEF EvaluationError
<1>17. ASSUME NEW r \in Requests, ReportError(r) PROVE Begun
  BY <1>17 DEF ReportError
<1>18. ASSUME NEW r \in Requests, ReportLost(r) PROVE Begun
  BY <1>18 DEF ReportLost
<1>19. ASSUME NEW r \in Requests, FindReview(r) PROVE Begun
  <2>1. CASE q = r
    BY <1>19, <2>1
  <2>2. CASE q # r
    BY <1>19, <2>2 DEF FindReview
  <2>3. QED
    BY <2>1, <2>2
<1>20. ASSUME NEW r \in Requests, ReadReviewedCase(r) PROVE Begun
  BY <1>20 DEF ReadReviewedCase
<1>21. ASSUME NEW r \in Requests, TakeReviewRow(r) PROVE Begun
  BY <1>21 DEF TakeReviewRow
<1>22. ASSUME NEW r \in Requests, CommitAccept(r) PROVE Begun
  BY <1>22 DEF CommitAccept, Resolve
<1>23. ASSUME NEW r \in Requests, CommitReopen(r) PROVE Begun
  BY <1>23 DEF CommitReopen, Resolve
<1>24. ASSUME NEW r \in Requests, Fail(r) PROVE Begun
  BY <1>24 DEF Fail
<1>25. ASSUME NEW r \in Requests, Begin(r) PROVE Begun
  BY <1>25 DEF Begin
<1>26. CASE UNCHANGED vars
  BY <1>26 DEF vars, requestVars
<1>27. QED
  BY <1>1, <1>2, <1>3, <1>4, <1>5, <1>6, <1>7, <1>8, <1>9, <1>10, <1>11, <1>12, <1>13, <1>14, <1>15, <1>16, <1>17, <1>18, <1>19, <1>20, <1>21, <1>22, <1>23, <1>24, <1>25, <1>26, StepIsOne
  DEF Step, ApplyForExemption, ChangeStatus, AssignCase, AddToFile, EvaluateDecision, ResolveReview

\* A review belongs to a call that is past its COMMIT.
LEMMA DecidersStay ==
  ASSUME TypeOK, StageOfOp, EntriesTrue, FailuresReviewed, [Next]_vars, NEW v \in Review, reviews[v] # "none"
  PROVE  v[1] \in Requests /\ Decider(v)' = Decider(v) /\ timeline # <<>>
<1>1. v[1] \in Requests
  BY DEF Review
<1>2. PICK i \in 1 .. Len(timeline) : timeline[i].by = v[1]
  BY DEF FailuresReviewed
<1>3. call'[v[1]] = call[v[1]]
  BY <1>2, WritersStay
<1>4. timeline # <<>>
  BY <1>2, EntryKinds
<1>5. QED
  BY <1>1, <1>3, <1>4 DEF Decider

LEMMA AdmittedKept ==
  ASSUME TypeOK, StageOfOp, CallsAdmitted, EntriesTrue, FailuresReviewed, [Next]_vars
  PROVE  CallsAdmitted'
<1>1. ASSUME NEW q \in Requests, Op(q)' = "status"
      PROVE  /\ <<seen'[q], call'[q].to, Side(call'[q].actor)>> \in Transitions
             /\ call'[q].actor \in Staff \cup {Applicant}
             /\ call'[q].to = "Denied" => call'[q].reason
  <2>1. CASE pc[q] # "idle"
    <3>1. call'[q] = call[q] /\ Op(q) = "status"
      BY <1>1, <2>1, CallsStay DEF Op
    <3>2. seen'[q] = seen[q]
      BY <2>1, <3>1, CallsStay
    <3>3. QED
      BY <3>1, <3>2 DEF CallsAdmitted
  <2>2. CASE pc[q] = "idle"
    <3>1. BeginStatus(q)
      <4>1. CASE FindReview(q)
        BY <1>1, <4>1 DEF FindReview, Asks, Op, TypeOK
      <4>2. QED
        BY <1>1, <2>2, <4>1, HowBegun
    <3>2. PICK a \in Staff \cup {Applicant}, to \in CaseStatus, reason \in BOOLEAN :
            /\ to \in AllowedTransitions(caseRow.status, Side(a))
            /\ to = "Denied" => reason
            /\ Asks(q, [op |-> "status", actor |-> a, to |-> to, reason |-> reason])
      <4>1. PICK a \in Staff \cup {Applicant} : \E to \in AllowedTransitions(caseRow.status, Side(a)) :
              \E reason \in IF to = "Denied" THEN BOOLEAN ELSE {FALSE} :
                /\ to = "Denied" => reason
                /\ Asks(q, [op |-> "status", actor |-> a, to |-> to, reason |-> reason])
        BY <3>1 DEF BeginStatus
      <4>2. PICK to \in AllowedTransitions(caseRow.status, Side(a)) :
              \E reason \in IF to = "Denied" THEN BOOLEAN ELSE {FALSE} :
                /\ to = "Denied" => reason
                /\ Asks(q, [op |-> "status", actor |-> a, to |-> to, reason |-> reason])
        BY <4>1
      <4>3. PICK reason \in IF to = "Denied" THEN BOOLEAN ELSE {FALSE} :
              /\ to = "Denied" => reason
              /\ Asks(q, [op |-> "status", actor |-> a, to |-> to, reason |-> reason])
        BY <4>2
      <4>4. reason \in BOOLEAN /\ to \in CaseStatus
        BY <4>3 DEF AllowedTransitions
      <4>5. QED
        BY <4>3, <4>4
    <3>3. call'[q] = [op |-> "status", actor |-> a, to |-> to, reason |-> reason] /\ seen'[q] = caseRow.status
      BY <3>1, <3>2 DEF BeginStatus, Asks, TypeOK
    <3>4. QED
      BY <3>2, <3>3, ChoiceIsMove
  <2>3. QED
    BY <2>1, <2>2
<1>2. ASSUME NEW q \in Requests, Op(q)' = "resolve"
      PROVE  /\ call'[q].actor \in Staff /\ call'[q].actor # call'[call'[q].review[1]].actor
             /\ reviews'[call'[q].review] # "none"
  <2>1. CASE pc[q] # "idle"
    <3>1. call'[q] = call[q] /\ Op(q) = "resolve"
      BY <1>2, <2>1, CallsStay DEF Op
    <3>2. PICK v \in Review : v = call[q].review
      BY <3>1, CallFields
    <3>3. reviews[v] # "none" /\ call[q].actor \in Staff /\ call[q].actor # call[v[1]].actor
      BY <3>1, <3>2 DEF CallsAdmitted, Decider
    <3>4. call'[v[1]].actor = call[v[1]].actor /\ reviews'[v] # "none"
      BY <3>3, DecidersStay, ReviewsStay DEF Decider
    <3>5. QED
      BY <3>1, <3>2, <3>3, <3>4
  <2>2. CASE pc[q] = "idle"
    <3>1. FindReview(q)
      <4>1. CASE BeginStatus(q)
        BY <1>2, <4>1 DEF BeginStatus, Asks, Op, TypeOK
      <4>2. QED
        BY <1>2, <2>2, <4>1, HowBegun
    <3>2. PICK v \in Review, a \in Staff, action \in {"accept", "reopen"} :
            /\ reviews[v] = "Open" /\ a # Decider(v)
            /\ Asks(q, [op |-> "resolve", actor |-> a, review |-> v, action |-> action])
      BY <3>1 DEF FindReview
    <3>3. call'[q].actor = a /\ call'[q].review = v
      BY <3>2 DEF Asks, TypeOK
    <3>4. QED
      BY <3>2, <3>3, DecidersStay, ReviewsStay DEF Decider
  <2>3. QED
    BY <2>1, <2>2
<1>3. ASSUME NEW q \in Requests, Op(q)' = "resolve", pc'[q] \in HasRead
      PROVE  call'[q].actor # Applicant
  <2>1. CASE pc[q] \in HasRead /\ call'[q] = call[q]
    <3>1. Op(q) = "resolve"
      BY <1>3, <2>1 DEF Op
    <3>2. QED
      BY <2>1, <3>1 DEF CallsAdmitted
  <2>2. CASE BeginStatus(q)
    BY <1>3, <2>2 DEF BeginStatus, Asks, Op, TypeOK
  <2>3. CASE ReadReviewedCase(q)
    BY <1>3, <2>3 DEF ReadReviewedCase, Goto, TypeOK, HasRead
  <2>4. QED
    BY <1>3, <2>1, <2>2, <2>3, StatusRead DEF HasRead
<1>4. QED
  BY <1>1, <1>2, <1>3 DEF CallsAdmitted, Decider, Op

LEMMA NextTick ==
  ASSUME NEW c \in Nat, NEW d \in Nat, c <= d
  PROVE  c + 1 \in Nat /\ d + 1 \in Nat /\ c + 1 <= d + 1
OBVIOUS

LEMMA SeenKept ==
  ASSUME TypeOK, StageOfOp, CallsAdmitted, SeenWas, EntriesTrue, TimesTrue, LastSays, FailuresReviewed, [Next]_vars
  PROVE  SeenWas'
<1>1. ASSUME NEW s, NEW t \in Nat, NEW u \in Nat, t <= u, Was(s, t) PROVE Was(s, u)'
  <2>1. Was(s, u)
    BY <1>1, WasBefore
  <2>2. CASE Quiet
    BY <2>1, <2>2 DEF Quiet, Was
  <2>3. QED
    BY <2>1, <2>2, WhoWrites, StillWas
<1>2. Was(caseRow.status, clock + 1)
  <2>1. CASE timeline = <<>>
    BY <2>1 DEF Was
  <2>2. CASE timeline # <<>>
    <3> DEFINE n == Len(timeline)
    <3>1. n \in 1 .. n /\ timeline[n].committed \in Nat /\ clock \in Nat
      BY <2>2, EntryKinds DEF Entry, TypeOK
    <3>2. timeline[n].committed < clock + 1
      BY <3>1 DEF TimesTrue
    <3>3. QED
      BY <2>2, <3>1, <3>2 DEF Was, LastSays
  <2>3. QED
    BY <2>1, <2>2
<1>3. clock \in Nat /\ clock' \in Nat /\ clock <= clock'
  BY TimeTyped DEF TypeOK
<1>4. ASSUME NEW q \in Requests PROVE BeginsAt(q) \in Nat /\ BeginsAt(q)' \in Nat
  <2>1. began[q] \in Nat /\ began'[q] \in Nat
    BY TimeTyped DEF TypeOK
  <2>2. clock + 1 \in Nat /\ clock' + 1 \in Nat
    BY <1>3, NextTick
  <2>3. QED
    BY <2>1, <2>2 DEF BeginsAt
<1>5. ASSUME NEW q \in Requests, pc'[q] = "ready", seen'[q] = caseRow.status
      PROVE  Was(seen[q], BeginsAt(q))'
  <2>1. clock + 1 \in Nat /\ clock' + 1 \in Nat /\ clock + 1 <= clock' + 1
    BY <1>3, NextTick
  <2>2. PICK s, u : s = caseRow.status /\ u = clock' + 1
    BY <2>1
  <2>3. Was(s, u)'
    BY <1>1, <1>2, <2>1, <2>2
  <2>4. BeginsAt(q)' = u /\ seen'[q] = s
    BY <1>5, <2>2 DEF BeginsAt
  <2>5. QED
    BY <2>3, <2>4 DEF Was
<1>6. ASSUME NEW q \in Requests, pc'[q] \in HasRead, Op(q)' \in {"status", "resolve"}
      PROVE  seen'[q] \in CaseStatus /\ Was(seen[q], BeginsAt(q))'
  <2>1. CASE pc[q] \in HasRead /\ call'[q] = call[q] /\ seen'[q] = seen[q] /\ BeginsAt(q) <= BeginsAt(q)'
    <3>1. seen[q] \in CaseStatus /\ Was(seen[q], BeginsAt(q))
      BY <1>6, <2>1 DEF SeenWas, Op
    <3>2. PICK s, t, u : s = seen[q] /\ t = BeginsAt(q) /\ u = BeginsAt(q)'
      BY <1>4
    <3>3. Was(s, u)'
      BY <1>1, <1>4, <2>1, <3>1, <3>2
    <3>4. QED
      BY <2>1, <3>1, <3>2, <3>3 DEF Was
  <2>2. CASE BeginStatus(q)
    <3>1. seen'[q] = caseRow.status /\ caseRow.status \in CaseStatus /\ pc'[q] = "ready"
      BY <2>2 DEF BeginStatus, Goto, TypeOK
    <3>2. QED
      BY <1>5, <3>1 DEF Was, BeginsAt
  <2>3. CASE ReadReviewedCase(q) /\ call'[q] = call[q]
    <3>1. seen'[q] = caseRow.status /\ Op(q) = "resolve" /\ pc'[q] = "ready"
      BY <1>6, <2>3 DEF ReadReviewedCase, Goto, TypeOK, StageOfOp, StageFor, HasRead
    <3>2. timeline # <<>>
      BY <3>1, CallFields, DecidersStay DEF CallsAdmitted
    <3>3. caseRow.status \in CaseStatus
      BY <3>2, EntryKinds DEF LastSays
    <3>4. QED
      BY <1>5, <3>1, <3>3 DEF Was, BeginsAt
  <2>4. QED
    BY <1>6, <2>1, <2>2, <2>3, StatusRead
<1>7. QED
  BY <1>6 DEF SeenWas, HasRead, Op, Was, BeginsAt
-----------------------------------------------------------------------------
(* Every step keeps the kinds of the variables. *)

LEMMA StageTyped ==
  ASSUME pc \in [Requests -> Stage], [Next]_vars
  PROVE  pc' \in [Requests -> Stage]
<1>1. ASSUME NEW r \in Requests, BeginApply(r) \/ FindNoCase(r) \/ InsertCase(r) \/ InsertRefused(r)
      PROVE  pc' \in [Requests -> Stage]
  BY <1>1 DEF BeginApply, FindNoCase, InsertCase, InsertRefused, Goto, Stage, Resolve
<1>2. ASSUME NEW r \in Requests, BeginStatus(r) \/ CommitStatus(r) \/ BeginAssign(r) \/ CommitAssign(r)
      PROVE  pc' \in [Requests -> Stage]
  BY <1>2 DEF BeginStatus, CommitStatus, BeginAssign, CommitAssign, Goto, Stage, Resolve
<1>3. ASSUME NEW r \in Requests, BeginAdd(r) \/ CommitAdd(r) \/ TakeCaseRow(r) \/ LogChange(r)
      PROVE  pc' \in [Requests -> Stage]
  BY <1>3 DEF BeginAdd, CommitAdd, TakeCaseRow, LogChange, Goto, Stage, Resolve
<1>4. ASSUME NEW r \in Requests, LoadDecisionContext(r) \/ RecordChecks(r) \/ AuditChecks(r) \/ EvaluationError(r)
      PROVE  pc' \in [Requests -> Stage]
  BY <1>4 DEF LoadDecisionContext, RecordChecks, AuditChecks, EvaluationError, Goto, Stage, Resolve
<1>5. ASSUME NEW r \in Requests, ReportError(r) \/ ReportLost(r) \/ FindReview(r) \/ ReadReviewedCase(r)
      PROVE  pc' \in [Requests -> Stage]
  BY <1>5 DEF ReportError, ReportLost, FindReview, ReadReviewedCase, Goto, Stage, Resolve
<1>6. ASSUME NEW r \in Requests, TakeReviewRow(r) \/ CommitAccept(r) \/ CommitReopen(r) \/ Fail(r) \/ Begin(r)
      PROVE  pc' \in [Requests -> Stage]
  BY <1>6 DEF TakeReviewRow, CommitAccept, CommitReopen, Fail, Begin, Goto, Stage, Resolve
<1>7. CASE UNCHANGED vars
  BY <1>7 DEF vars, requestVars
<1>8. QED
  BY <1>1, <1>2, <1>3, <1>4, <1>5, <1>6, <1>7, StepIsOne
  DEF Step, ApplyForExemption, ChangeStatus, AssignCase, AddToFile, EvaluateDecision, ResolveReview

LEMMA CallTyped ==
  ASSUME call \in [Requests -> Call], [Next]_vars
  PROVE  call' \in [Requests -> Call]
<1>1. ASSUME NEW r \in Requests, BeginApply(r) PROVE call' \in [Requests -> Call]
  <2>1. [op |-> "apply", actor |-> Applicant] \in Call
    BY PeopleAssumption DEF Call
  <2>2. QED
    BY <1>1, <2>1 DEF BeginApply, Asks
<1>2. ASSUME NEW r \in Requests, BeginStatus(r) PROVE call' \in [Requests -> Call]
  <2>1. ASSUME NEW a \in Staff \cup {Applicant}, NEW to \in AllowedTransitions(caseRow.status, Side(a)),
               NEW reason \in BOOLEAN
        PROVE  [op |-> "status", actor |-> a, to |-> to, reason |-> reason] \in Call
    BY PeopleAssumption DEF Call, AllowedTransitions
  <2>2. \A to : (IF to = "Denied" THEN BOOLEAN ELSE {FALSE}) \subseteq BOOLEAN
    OBVIOUS
  <2>3. QED
    BY <1>2, <2>1, <2>2 DEF BeginStatus, Asks
<1>3. ASSUME NEW r \in Requests, BeginAssign(r) PROVE call' \in [Requests -> Call]
  <2>1. \A to \in (Staff \cup {Nobody}) \ {caseRow.assignedTo} : [op |-> "assign", assignee |-> to] \in Call
    BY DEF Call
  <2>2. QED
    BY <1>3, <2>1 DEF BeginAssign, Asks
<1>4. ASSUME NEW r \in Requests, BeginAdd(r) PROVE call' \in [Requests -> Call]
  <2>1. \A what \in {"note", "document"} : [op |-> what] \in Call
    BY DEF Call
  <2>2. QED
    BY <1>4, <2>1 DEF BeginAdd, Asks
<1>5. ASSUME NEW r \in Requests, FindReview(r) PROVE call' \in [Requests -> Call]
  <2>1. \A v \in Review, a \in Staff, action \in {"accept", "reopen"} :
          [op |-> "resolve", actor |-> a, review |-> v, action |-> action] \in Call
    BY PeopleAssumption DEF Call
  <2>2. QED
    BY <1>5, <2>1 DEF FindReview, Asks
<1>6. ASSUME NEW r \in Requests, FindNoCase(r) \/ InsertCase(r) \/ InsertRefused(r) \/ CommitStatus(r) \/ CommitAssign(r) \/ CommitAdd(r)
      PROVE  UNCHANGED call
  BY <1>6 DEF FindNoCase, InsertCase, InsertRefused, CommitStatus, CommitAssign, CommitAdd, Resolve
<1>7. ASSUME NEW r \in Requests, TakeCaseRow(r) \/ LogChange(r) \/ LoadDecisionContext(r) \/ RecordChecks(r) \/ AuditChecks(r) \/ EvaluationError(r)
      PROVE  UNCHANGED call
  BY <1>7 DEF TakeCaseRow, LogChange, LoadDecisionContext, RecordChecks, AuditChecks, EvaluationError, Resolve
<1>8. ASSUME NEW r \in Requests, ReportError(r) \/ ReportLost(r) \/ ReadReviewedCase(r) \/ TakeReviewRow(r) \/ CommitAccept(r) \/ CommitReopen(r)
      PROVE  UNCHANGED call
  BY <1>8 DEF ReportError, ReportLost, ReadReviewedCase, TakeReviewRow, CommitAccept, CommitReopen, Resolve
<1>9. ASSUME NEW r \in Requests, Fail(r) \/ Begin(r)
      PROVE  UNCHANGED call
  BY <1>9 DEF Fail, Begin, Resolve
<1>10. CASE UNCHANGED vars
  BY <1>10 DEF vars, requestVars
<1>11. QED
  BY <1>1, <1>2, <1>3, <1>4, <1>5, <1>6, <1>7, <1>8, <1>9, <1>10, StepIsOne
  DEF Step, ApplyForExemption, ChangeStatus, AssignCase, AddToFile, EvaluateDecision, ResolveReview

LEMMA SeenTyped ==
  ASSUME TypeOK, [Next]_vars
  PROVE  seen' \in [Requests -> CaseStatus \cup {"None"}]
<1>1. ASSUME NEW r \in Requests, BeginStatus(r) PROVE seen' \in [Requests -> CaseStatus \cup {"None"}]
  BY <1>1 DEF BeginStatus, TypeOK
<1>2. ASSUME NEW r \in Requests, ReadReviewedCase(r) PROVE seen' \in [Requests -> CaseStatus \cup {"None"}]
  BY <1>2 DEF ReadReviewedCase, TypeOK
<1>3. ASSUME NEW r \in Requests, BeginApply(r) \/ FindNoCase(r) \/ InsertCase(r) \/ InsertRefused(r) \/ CommitStatus(r) \/ BeginAssign(r)
      PROVE  UNCHANGED seen
  BY <1>3 DEF BeginApply, FindNoCase, InsertCase, InsertRefused, CommitStatus, BeginAssign, Resolve
<1>4. ASSUME NEW r \in Requests, CommitAssign(r) \/ BeginAdd(r) \/ CommitAdd(r) \/ TakeCaseRow(r) \/ LogChange(r) \/ LoadDecisionContext(r)
      PROVE  UNCHANGED seen
  BY <1>4 DEF CommitAssign, BeginAdd, CommitAdd, TakeCaseRow, LogChange, LoadDecisionContext, Resolve
<1>5. ASSUME NEW r \in Requests, RecordChecks(r) \/ AuditChecks(r) \/ EvaluationError(r) \/ ReportError(r) \/ ReportLost(r) \/ FindReview(r)
      PROVE  UNCHANGED seen
  BY <1>5 DEF RecordChecks, AuditChecks, EvaluationError, ReportError, ReportLost, FindReview, Resolve
<1>6. ASSUME NEW r \in Requests, TakeReviewRow(r) \/ CommitAccept(r) \/ CommitReopen(r) \/ Fail(r) \/ Begin(r)
      PROVE  UNCHANGED seen
  BY <1>6 DEF TakeReviewRow, CommitAccept, CommitReopen, Fail, Begin, Resolve
<1>7. CASE UNCHANGED vars
  BY <1>7 DEF vars, requestVars, TypeOK
<1>8. QED
  BY <1>1, <1>2, <1>3, <1>4, <1>5, <1>6, <1>7, StepIsOne
  DEF TypeOK, Step, ApplyForExemption, ChangeStatus, AssignCase, AddToFile, EvaluateDecision, ResolveReview

LEMMA HeldTyped ==
  ASSUME TypeOK, StageOfOp, [Next]_vars
  PROVE  held' \in [Requests -> SUBSET (Review \cup {CaseKey})]
<1>1. ASSUME NEW r \in Requests, CommitStatus(r) PROVE held' \in [Requests -> SUBSET (Review \cup {CaseKey})]
  BY <1>1 DEF CommitStatus, End, TypeOK
<1>2. ASSUME NEW r \in Requests, CommitAssign(r) PROVE held' \in [Requests -> SUBSET (Review \cup {CaseKey})]
  BY <1>2 DEF CommitAssign, End, TypeOK
<1>3. ASSUME NEW r \in Requests, TakeCaseRow(r) PROVE held' \in [Requests -> SUBSET (Review \cup {CaseKey})]
  BY <1>3 DEF TakeCaseRow, TakeRow, TypeOK
<1>4. ASSUME NEW r \in Requests, TakeReviewRow(r) PROVE held' \in [Requests -> SUBSET (Review \cup {CaseKey})]
  <2>1. call[r].review \in Review
    BY <1>4, CallFields DEF TakeReviewRow, StageOfOp, StageFor
  <2>2. QED
    BY <1>4, <2>1 DEF TakeReviewRow, TakeRow, TypeOK
<1>5. ASSUME NEW r \in Requests, CommitAccept(r) PROVE held' \in [Requests -> SUBSET (Review \cup {CaseKey})]
  BY <1>5 DEF CommitAccept, Resolve, End, TypeOK
<1>6. ASSUME NEW r \in Requests, CommitReopen(r) PROVE held' \in [Requests -> SUBSET (Review \cup {CaseKey})]
  BY <1>6 DEF CommitReopen, Resolve, End, TypeOK
<1>7. ASSUME NEW r \in Requests, Fail(r) PROVE held' \in [Requests -> SUBSET (Review \cup {CaseKey})]
  BY <1>7 DEF Fail, End, TypeOK
<1>8. ASSUME NEW r \in Requests, Begin(r) PROVE held' \in [Requests -> SUBSET (Review \cup {CaseKey})]
  BY <1>8 DEF Begin, TypeOK
<1>9. ASSUME NEW r \in Requests, BeginApply(r) \/ FindNoCase(r) \/ BeginStatus(r) \/ BeginAssign(r)
      PROVE  UNCHANGED held
  BY <1>9 DEF BeginApply, FindNoCase, BeginStatus, BeginAssign
<1>10. ASSUME NEW r \in Requests, BeginAdd(r) \/ LogChange(r) \/ LoadDecisionContext(r) \/ RecordChecks(r) \/ AuditChecks(r)
      PROVE  UNCHANGED held
  BY <1>10 DEF BeginAdd, LogChange, LoadDecisionContext, RecordChecks, AuditChecks
<1>11. ASSUME NEW r \in Requests, EvaluationError(r) \/ ReportError(r) \/ ReportLost(r) \/ FindReview(r) \/ ReadReviewedCase(r)
      PROVE  UNCHANGED held
  BY <1>11 DEF EvaluationError, ReportError, ReportLost, FindReview, ReadReviewedCase
<1>12. ASSUME NEW r \in Requests, InsertCase(r) \/ InsertRefused(r) \/ CommitAdd(r)
      PROVE  held' \in [Requests -> SUBSET (Review \cup {CaseKey})]
  BY <1>12 DEF InsertCase, InsertRefused, CommitAdd, End, TypeOK
<1>13. CASE UNCHANGED vars
  BY <1>13 DEF vars, requestVars, TypeOK
<1>14. QED
  BY <1>1, <1>2, <1>3, <1>4, <1>5, <1>6, <1>7, <1>8, <1>9, <1>10, <1>11, <1>12, <1>13, StepIsOne
  DEF TypeOK, Step, ApplyForExemption, ChangeStatus, AssignCase, AddToFile, EvaluateDecision, ResolveReview

LEMMA FoundTyped ==
  ASSUME TypeOK, [Next]_vars
  PROVE  found' \in [Requests -> SUBSET Controls]
<1>1. ASSUME NEW r \in Requests, LoadDecisionContext(r) PROVE found' \in [Requests -> SUBSET Controls]
  <2>1. \A ctx : EvaluateControls(ctx) \subseteq Controls
    BY DEF EvaluateControls, AppliesTo
  <2>2. PICK ctx : found' = [found EXCEPT ![r] = EvaluateControls(ctx)]
    BY <1>1 DEF LoadDecisionContext
  <2>3. QED
    BY <2>1, <2>2 DEF TypeOK
<1>2. ASSUME NEW r \in Requests, BeginApply(r) \/ FindNoCase(r) \/ InsertCase(r) \/ InsertRefused(r) \/ BeginStatus(r) \/ CommitStatus(r)
      PROVE  UNCHANGED found
  BY <1>2 DEF BeginApply, FindNoCase, InsertCase, InsertRefused, BeginStatus, CommitStatus, Resolve
<1>3. ASSUME NEW r \in Requests, BeginAssign(r) \/ CommitAssign(r) \/ BeginAdd(r) \/ CommitAdd(r) \/ TakeCaseRow(r) \/ LogChange(r)
      PROVE  UNCHANGED found
  BY <1>3 DEF BeginAssign, CommitAssign, BeginAdd, CommitAdd, TakeCaseRow, LogChange, Resolve
<1>4. ASSUME NEW r \in Requests, RecordChecks(r) \/ AuditChecks(r) \/ EvaluationError(r) \/ ReportError(r) \/ ReportLost(r) \/ FindReview(r)
      PROVE  UNCHANGED found
  BY <1>4 DEF RecordChecks, AuditChecks, EvaluationError, ReportError, ReportLost, FindReview, Resolve
<1>5. ASSUME NEW r \in Requests, ReadReviewedCase(r) \/ TakeReviewRow(r) \/ CommitAccept(r) \/ CommitReopen(r) \/ Fail(r) \/ Begin(r)
      PROVE  UNCHANGED found
  BY <1>5 DEF ReadReviewedCase, TakeReviewRow, CommitAccept, CommitReopen, Fail, Begin, Resolve
<1>6. CASE UNCHANGED vars
  BY <1>6 DEF vars, requestVars, TypeOK
<1>7. QED
  BY <1>1, <1>2, <1>3, <1>4, <1>5, <1>6, StepIsOne
  DEF TypeOK, Step, ApplyForExemption, ChangeStatus, AssignCase, AddToFile, EvaluateDecision, ResolveReview

LEMMA CaseTyped ==
  ASSUME TypeOK, StageOfOp, [Next]_vars
  PROVE  caseRow' \in [status : CaseStatus \cup {"None"}, approvedAt : BOOLEAN, assignedTo : Staff \cup {Nobody}]
<1>1. ASSUME NEW r \in Requests, InsertCase(r) PROVE caseRow' \in [status : CaseStatus \cup {"None"}, approvedAt : BOOLEAN, assignedTo : Staff \cup {Nobody}]
  BY <1>1 DEF InsertCase, TypeOK, CaseStatus
<1>2. ASSUME NEW r \in Requests, CommitStatus(r) PROVE caseRow' \in [status : CaseStatus \cup {"None"}, approvedAt : BOOLEAN, assignedTo : Staff \cup {Nobody}]
  <2>1. call[r].to \in CaseStatus
    BY <1>2, CallFields DEF CommitStatus
  <2>2. caseRow' = [caseRow EXCEPT !.status = call[r].to, !.approvedAt = @ \/ call[r].to = "Approved"]
    BY <1>2 DEF CommitStatus
  <2>3. (caseRow.approvedAt \/ call[r].to = "Approved") \in BOOLEAN
    OBVIOUS
  <2>4. QED
    BY <2>1, <2>2, <2>3 DEF TypeOK
<1>3. ASSUME NEW r \in Requests, CommitAssign(r) PROVE caseRow' \in [status : CaseStatus \cup {"None"}, approvedAt : BOOLEAN, assignedTo : Staff \cup {Nobody}]
  <2>1. call[r].assignee \in Staff \cup {Nobody}
    BY <1>3, CallFields DEF CommitAssign
  <2>2. QED
    BY <1>3, <2>1 DEF CommitAssign, TypeOK
<1>4. ASSUME NEW r \in Requests, CommitReopen(r) PROVE caseRow' \in [status : CaseStatus \cup {"None"}, approvedAt : BOOLEAN, assignedTo : Staff \cup {Nobody}]
  BY <1>4 DEF CommitReopen, TypeOK, CaseStatus
<1>5. ASSUME NEW r \in Requests, BeginApply(r) \/ FindNoCase(r) \/ InsertRefused(r) \/ BeginStatus(r) \/ BeginAssign(r) \/ BeginAdd(r)
      PROVE  UNCHANGED caseRow
  BY <1>5 DEF BeginApply, FindNoCase, InsertRefused, BeginStatus, BeginAssign, BeginAdd, Resolve
<1>6. ASSUME NEW r \in Requests, CommitAdd(r) \/ TakeCaseRow(r) \/ LogChange(r) \/ LoadDecisionContext(r) \/ RecordChecks(r) \/ AuditChecks(r)
      PROVE  UNCHANGED caseRow
  BY <1>6 DEF CommitAdd, TakeCaseRow, LogChange, LoadDecisionContext, RecordChecks, AuditChecks, Resolve
<1>7. ASSUME NEW r \in Requests, EvaluationError(r) \/ ReportError(r) \/ ReportLost(r) \/ FindReview(r) \/ ReadReviewedCase(r) \/ TakeReviewRow(r)
      PROVE  UNCHANGED caseRow
  BY <1>7 DEF EvaluationError, ReportError, ReportLost, FindReview, ReadReviewedCase, TakeReviewRow, Resolve
<1>8. ASSUME NEW r \in Requests, CommitAccept(r) \/ Fail(r) \/ Begin(r)
      PROVE  UNCHANGED caseRow
  BY <1>8 DEF CommitAccept, Fail, Begin, Resolve
<1>9. CASE UNCHANGED vars
  BY <1>9 DEF vars, TypeOK
<1>10. QED
  BY <1>1, <1>2, <1>3, <1>4, <1>5, <1>6, <1>7, <1>8, <1>9, StepIsOne
  DEF TypeOK, Step, ApplyForExemption, ChangeStatus, AssignCase, AddToFile, EvaluateDecision, ResolveReview

LEMMA ReviewsTyped ==
  ASSUME TypeOK, StageOfOp, [Next]_vars
  PROVE  reviews' \in [Review -> {"none", "Open", "Resolved"}] /\ resolutions' \subseteq Review \X Requests
<1>1. ASSUME NEW r \in Requests, RecordChecks(r) PROVE reviews' \in [Review -> {"none", "Open", "Resolved"}] /\ resolutions' \subseteq Review \X Requests
  BY <1>1 DEF RecordChecks, TypeOK, Review
<1>2. ASSUME NEW r \in Requests, ReportError(r) PROVE reviews' \in [Review -> {"none", "Open", "Resolved"}] /\ resolutions' \subseteq Review \X Requests
  BY <1>2 DEF ReportError, TypeOK, Review
<1>3. ASSUME NEW r \in Requests, CommitAccept(r) PROVE reviews' \in [Review -> {"none", "Open", "Resolved"}] /\ resolutions' \subseteq Review \X Requests
  <2>1. call[r].review \in Review
    BY <1>3, CallFields DEF CommitAccept, StageOfOp, StageFor
  <2>2. QED
    BY <1>3, <2>1 DEF CommitAccept, Resolve, TypeOK
<1>4. ASSUME NEW r \in Requests, CommitReopen(r) PROVE reviews' \in [Review -> {"none", "Open", "Resolved"}] /\ resolutions' \subseteq Review \X Requests
  <2>1. call[r].review \in Review
    BY <1>4, CallFields DEF CommitReopen, StageOfOp, StageFor
  <2>2. QED
    BY <1>4, <2>1 DEF CommitReopen, Resolve, TypeOK
<1>5. ASSUME NEW r \in Requests, BeginApply(r) \/ FindNoCase(r) \/ InsertCase(r) \/ InsertRefused(r) \/ BeginStatus(r) \/ CommitStatus(r)
      PROVE  UNCHANGED <<reviews, resolutions>>
  BY <1>5 DEF BeginApply, FindNoCase, InsertCase, InsertRefused, BeginStatus, CommitStatus, reviewVars
<1>6. ASSUME NEW r \in Requests, BeginAssign(r) \/ CommitAssign(r) \/ BeginAdd(r) \/ CommitAdd(r) \/ TakeCaseRow(r) \/ LogChange(r)
      PROVE  UNCHANGED <<reviews, resolutions>>
  BY <1>6 DEF BeginAssign, CommitAssign, BeginAdd, CommitAdd, TakeCaseRow, LogChange, reviewVars
<1>7. ASSUME NEW r \in Requests, LoadDecisionContext(r) \/ AuditChecks(r) \/ EvaluationError(r) \/ ReportLost(r) \/ FindReview(r) \/ ReadReviewedCase(r)
      PROVE  UNCHANGED <<reviews, resolutions>>
  BY <1>7 DEF LoadDecisionContext, AuditChecks, EvaluationError, ReportLost, FindReview, ReadReviewedCase, reviewVars
<1>8. ASSUME NEW r \in Requests, TakeReviewRow(r) \/ Fail(r) \/ Begin(r)
      PROVE  UNCHANGED <<reviews, resolutions>>
  BY <1>8 DEF TakeReviewRow, Fail, Begin, reviewVars
<1>9. CASE UNCHANGED vars
  BY <1>9 DEF vars, reviewVars, TypeOK
<1>10. QED
  BY <1>1, <1>2, <1>3, <1>4, <1>5, <1>6, <1>7, <1>8, <1>9, StepIsOne
  DEF TypeOK, Step, ApplyForExemption, ChangeStatus, AssignCase, AddToFile, EvaluateDecision, ResolveReview

LEMMA FileTyped ==
  ASSUME TypeOK, [Next]_vars
  PROVE  documents' \subseteq Nat /\ noted' \subseteq Requests
<1>1. ASSUME NEW r \in Requests, CommitAdd(r) PROVE documents' \subseteq Nat /\ noted' \subseteq Requests
  <2>1. CASE Op(r) = "note" /\ noted' = noted \cup {r} /\ UNCHANGED documents
    BY <2>1 DEF TypeOK
  <2>2. CASE documents' \in {documents, documents \cup {began[r]}} /\ UNCHANGED noted
    BY <2>2 DEF TypeOK
  <2>3. QED
    BY <1>1, <2>1, <2>2 DEF CommitAdd
<1>2. ASSUME NEW r \in Requests, BeginApply(r) \/ FindNoCase(r) \/ InsertCase(r) \/ InsertRefused(r) \/ BeginStatus(r) \/ CommitStatus(r)
      PROVE  UNCHANGED fileVars
  BY <1>2 DEF BeginApply, FindNoCase, InsertCase, InsertRefused, BeginStatus, CommitStatus, Resolve
<1>3. ASSUME NEW r \in Requests, BeginAssign(r) \/ CommitAssign(r) \/ BeginAdd(r) \/ TakeCaseRow(r) \/ LogChange(r) \/ LoadDecisionContext(r)
      PROVE  UNCHANGED fileVars
  BY <1>3 DEF BeginAssign, CommitAssign, BeginAdd, TakeCaseRow, LogChange, LoadDecisionContext, Resolve
<1>4. ASSUME NEW r \in Requests, RecordChecks(r) \/ AuditChecks(r) \/ EvaluationError(r) \/ ReportError(r) \/ ReportLost(r) \/ FindReview(r)
      PROVE  UNCHANGED fileVars
  BY <1>4 DEF RecordChecks, AuditChecks, EvaluationError, ReportError, ReportLost, FindReview, Resolve
<1>5. ASSUME NEW r \in Requests, ReadReviewedCase(r) \/ TakeReviewRow(r) \/ CommitAccept(r) \/ CommitReopen(r) \/ Fail(r) \/ Begin(r)
      PROVE  UNCHANGED fileVars
  BY <1>5 DEF ReadReviewedCase, TakeReviewRow, CommitAccept, CommitReopen, Fail, Begin, Resolve
<1>6. CASE UNCHANGED vars
  BY <1>6 DEF vars, fileVars, TypeOK
<1>7. QED
  BY <1>1, <1>2, <1>3, <1>4, <1>5, <1>6, StepIsOne
  DEF TypeOK, fileVars, Step, ApplyForExemption, ChangeStatus, AssignCase, AddToFile, EvaluateDecision, ResolveReview

LEMMA LogTyped ==
  ASSUME TypeOK, [Next]_vars
  PROVE  audit' \subseteq Requests /\ checks' \subseteq Requests
<1>1. ASSUME NEW r \in Requests, LogChange(r) PROVE audit' \subseteq Requests /\ checks' \subseteq Requests
  BY <1>1 DEF LogChange, reviewVars, TypeOK
<1>2. ASSUME NEW r \in Requests, RecordChecks(r) PROVE audit' \subseteq Requests /\ checks' \subseteq Requests
  BY <1>2 DEF RecordChecks, TypeOK
<1>3. ASSUME NEW r \in Requests, BeginApply(r) \/ FindNoCase(r) \/ InsertCase(r) \/ InsertRefused(r) \/ BeginStatus(r) \/ CommitStatus(r)
      PROVE  UNCHANGED <<audit, checks>>
  BY <1>3 DEF BeginApply, FindNoCase, InsertCase, InsertRefused, BeginStatus, CommitStatus, Resolve, reviewVars
<1>4. ASSUME NEW r \in Requests, BeginAssign(r) \/ CommitAssign(r) \/ BeginAdd(r) \/ CommitAdd(r) \/ TakeCaseRow(r) \/ LoadDecisionContext(r)
      PROVE  UNCHANGED <<audit, checks>>
  BY <1>4 DEF BeginAssign, CommitAssign, BeginAdd, CommitAdd, TakeCaseRow, LoadDecisionContext, Resolve, reviewVars
<1>5. ASSUME NEW r \in Requests, AuditChecks(r) \/ EvaluationError(r) \/ ReportError(r) \/ ReportLost(r) \/ FindReview(r) \/ ReadReviewedCase(r)
      PROVE  UNCHANGED <<audit, checks>>
  BY <1>5 DEF AuditChecks, EvaluationError, ReportError, ReportLost, FindReview, ReadReviewedCase, Resolve, reviewVars
<1>6. ASSUME NEW r \in Requests, TakeReviewRow(r) \/ CommitAccept(r) \/ CommitReopen(r) \/ Fail(r) \/ Begin(r)
      PROVE  UNCHANGED <<audit, checks>>
  BY <1>6 DEF TakeReviewRow, CommitAccept, CommitReopen, Fail, Begin, Resolve, reviewVars
<1>7. CASE UNCHANGED vars
  BY <1>7 DEF vars, reviewVars, TypeOK
<1>8. QED
  BY <1>1, <1>2, <1>3, <1>4, <1>5, <1>6, <1>7, StepIsOne
  DEF TypeOK, Step, ApplyForExemption, ChangeStatus, AssignCase, AddToFile, EvaluateDecision, ResolveReview

LEMMA StepTyped ==
  ASSUME TypeOK, StageOfOp, CallsAdmitted, SeenWas, [Next]_vars
  PROVE  TypeOK'
<1>1. timeline' \in Seq(Entry)
  <2>1. CASE Quiet
    BY <2>1 DEF Quiet, TypeOK
  <2>2. QED
    BY <2>1, WhoWrites, Appended DEF Adds
<1>2. pc' \in [Requests -> Stage] /\ call' \in [Requests -> Call]
  BY StageTyped, CallTyped DEF TypeOK
<1>3. QED
  BY <1>1, <1>2, SeenTyped, HeldTyped, FoundTyped, CaseTyped, ReviewsTyped, FileTyped, LogTyped, TimeTyped DEF TypeOK
-----------------------------------------------------------------------------
(* Decisions, their evaluation and their reviews. *)

LEMMA OnTimelineStays ==
  ASSUME TypeOK, StageOfOp, CallsAdmitted, SeenWas, [Next]_vars, NEW q \in Requests, OnTimeline(q)
  PROVE  OnTimeline(q)'
<1>1. PICK i \in 1 .. Len(timeline) : timeline[i].by = q /\ timeline[i].to \in Decision
  BY DEF OnTimeline
<1>2. ASSUME NEW r \in Requests, NEW e \in Entry, Adds(r, e) PROVE OnTimeline(q)'
  <2>1. i \in 1 .. Len(timeline') /\ timeline'[i] = timeline[i]
    BY <1>2, Appended DEF Adds
  <2>2. QED
    BY <1>1, <2>1 DEF OnTimeline
<1>3. CASE Quiet
  BY <1>1, <1>3 DEF Quiet, OnTimeline
<1>4. QED
  BY <1>2, <1>3, WhoWrites

LEMMA DecisionOnTimeline ==
  ASSUME TypeOK, CallsAdmitted, SeenWas, NEW r \in Requests, CommitStatus(r), IsDecision(r)
  PROVE  OnTimeline(r)'
<1>1. PICK e \in Entry : Adds(r, e)
  BY Changes
<1>2. e.by = r /\ e.to \in Decision
  BY <1>1 DEF Adds, EntryOf, IsDecision
<1>3. Len(timeline) + 1 \in 1 .. Len(timeline') /\ timeline'[Len(timeline) + 1] = e
  BY <1>1, Appended DEF Adds
<1>4. QED
  BY <1>2, <1>3 DEF OnTimeline

\* What DecisionsThere says of one call.
ThereFor(r) ==
  /\ pc[r] = "committed" /\ IsDecision(r) => OnTimeline(r)
  /\ pc[r] \in {"evaluating", "recording", "auditing", "reporting"} => OnTimeline(r) /\ r \in audit
  /\ r \in audit => pc[r] \in Committed
  /\ r \in checks => pc[r] \in {"auditing", "reporting", "ended"}
\* The same after a step, where "there" says whether its decision is then on the timeline.
ThereAfter(r, there) ==
  /\ pc'[r] = "committed" /\ call'[r].op = "status" /\ call'[r].to \in Decision => there
  /\ pc'[r] \in {"evaluating", "recording", "auditing", "reporting"} => there /\ r \in audit'
  /\ r \in audit' => pc'[r] \in Committed
  /\ r \in checks' => pc'[r] \in {"auditing", "reporting", "ended"}

LEMMA DecisionsStay ==
  ASSUME TypeOK, StageOfOp, [Next]_vars, NEW q \in Requests, ThereFor(q), NEW there \in BOOLEAN,
         OnTimeline(q) => there, CommitStatus(q) /\ IsDecision(q) => there
  PROVE  ThereAfter(q, there)
<1> USE DEF TypeOK, Goto, Op, IsDecision, ThereFor, ThereAfter, Committed, StageOfOp, StageFor
<1>1. ASSUME NEW r \in Requests, BeginApply(r) PROVE ThereAfter(q, there)
  BY <1>1 DEF BeginApply, Asks, reviewVars
<1>2. ASSUME NEW r \in Requests, FindNoCase(r) PROVE ThereAfter(q, there)
  BY <1>2 DEF FindNoCase, reviewVars
<1>3. ASSUME NEW r \in Requests, InsertCase(r) PROVE ThereAfter(q, there)
  BY <1>3 DEF InsertCase, reviewVars
<1>4. ASSUME NEW r \in Requests, InsertRefused(r) PROVE ThereAfter(q, there)
  BY <1>4 DEF InsertRefused, reviewVars
<1>5. ASSUME NEW r \in Requests, BeginStatus(r) PROVE ThereAfter(q, there)
  BY <1>5 DEF BeginStatus, Asks, reviewVars
<1>6. ASSUME NEW r \in Requests, CommitStatus(r) PROVE ThereAfter(q, there)
  <2>1. CASE q = r
    BY <1>6, <2>1 DEF CommitStatus, reviewVars
  <2>2. CASE q # r
    BY <1>6, <2>2 DEF CommitStatus, reviewVars
  <2>3. QED
    BY <2>1, <2>2
<1>7. ASSUME NEW r \in Requests, BeginAssign(r) PROVE ThereAfter(q, there)
  BY <1>7 DEF BeginAssign, Asks, reviewVars
<1>8. ASSUME NEW r \in Requests, CommitAssign(r) PROVE ThereAfter(q, there)
  BY <1>8 DEF CommitAssign, reviewVars
<1>9. ASSUME NEW r \in Requests, BeginAdd(r) PROVE ThereAfter(q, there)
  BY <1>9 DEF BeginAdd, Asks, reviewVars
<1>10. ASSUME NEW r \in Requests, CommitAdd(r) PROVE ThereAfter(q, there)
  BY <1>10 DEF CommitAdd, reviewVars
<1>11. ASSUME NEW r \in Requests, TakeCaseRow(r) PROVE ThereAfter(q, there)
  BY <1>11 DEF TakeCaseRow, reviewVars
<1>12. ASSUME NEW r \in Requests, LogChange(r) PROVE ThereAfter(q, there)
  BY <1>12 DEF LogChange, reviewVars
<1>13. ASSUME NEW r \in Requests, LoadDecisionContext(r) PROVE ThereAfter(q, there)
  BY <1>13 DEF LoadDecisionContext, reviewVars
<1>14. ASSUME NEW r \in Requests, RecordChecks(r) PROVE ThereAfter(q, there)
  BY <1>14 DEF RecordChecks
<1>15. ASSUME NEW r \in Requests, AuditChecks(r) PROVE ThereAfter(q, there)
  BY <1>15 DEF AuditChecks, reviewVars
<1>16. ASSUME NEW r \in Requests, EvaluationError(r) PROVE ThereAfter(q, there)
  BY <1>16 DEF EvaluationError, reviewVars
<1>17. ASSUME NEW r \in Requests, ReportError(r) PROVE ThereAfter(q, there)
  BY <1>17 DEF ReportError
<1>18. ASSUME NEW r \in Requests, ReportLost(r) PROVE ThereAfter(q, there)
  BY <1>18 DEF ReportLost, reviewVars
<1>19. ASSUME NEW r \in Requests, FindReview(r) PROVE ThereAfter(q, there)
  BY <1>19 DEF FindReview, Asks, reviewVars
<1>20. ASSUME NEW r \in Requests, ReadReviewedCase(r) PROVE ThereAfter(q, there)
  BY <1>20 DEF ReadReviewedCase, reviewVars
<1>21. ASSUME NEW r \in Requests, TakeReviewRow(r) PROVE ThereAfter(q, there)
  BY <1>21 DEF TakeReviewRow, reviewVars
<1>22. ASSUME NEW r \in Requests, CommitAccept(r) PROVE ThereAfter(q, there)
  BY <1>22 DEF CommitAccept, Resolve
<1>23. ASSUME NEW r \in Requests, CommitReopen(r) PROVE ThereAfter(q, there)
  BY <1>23 DEF CommitReopen, Resolve
<1>24. ASSUME NEW r \in Requests, Fail(r) PROVE ThereAfter(q, there)
  BY <1>24 DEF Fail, reviewVars
<1>25. ASSUME NEW r \in Requests, Begin(r) PROVE ThereAfter(q, there)
  BY <1>25 DEF Begin, reviewVars
<1>26. CASE UNCHANGED vars
  BY <1>26 DEF vars, requestVars, reviewVars
<1>27. QED
  BY <1>1, <1>2, <1>3, <1>4, <1>5, <1>6, <1>7, <1>8, <1>9, <1>10, <1>11, <1>12, <1>13, <1>14, <1>15, <1>16, <1>17, <1>18, <1>19, <1>20, <1>21, <1>22, <1>23, <1>24, <1>25, <1>26, StepIsOne
  DEF Step, ApplyForExemption, ChangeStatus, AssignCase, AddToFile, EvaluateDecision, ResolveReview

LEMMA DecisionsKept ==
  ASSUME TypeOK, StageOfOp, CallsAdmitted, SeenWas, DecisionsThere, [Next]_vars
  PROVE  DecisionsThere'
<1>1. audit \subseteq Requests /\ checks \subseteq Requests /\ audit' \subseteq Requests /\ checks' \subseteq Requests
  BY LogTyped DEF TypeOK
<1>2. ASSUME NEW q \in Requests PROVE ThereAfter(q, OnTimeline(q)')
  <2>1. ThereFor(q)
    BY DEF DecisionsThere, ThereFor
  <2>2. OnTimeline(q) => OnTimeline(q)'
    BY OnTimelineStays
  <2>3. CommitStatus(q) /\ IsDecision(q) => OnTimeline(q)'
    BY DecisionOnTimeline
  <2>4. PICK there \in BOOLEAN : there <=> OnTimeline(q)'
    OBVIOUS
  <2>5. ThereAfter(q, there)
    BY <2>1, <2>2, <2>3, <2>4, DecisionsStay
  <2>6. QED
    BY <2>4, <2>5 DEF ThereAfter
<1>3. QED
  BY <1>1, <1>2 DEF DecisionsThere, ThereAfter, IsDecision, Op, OnTimeline

\* The guards of changeStatus make four of the controls true of any decision.
LEMMA GuardsPass ==
  ASSUME TypeOK, StageOfOp, CallsAdmitted, EntriesTrue, DecisionsThere, NEW r \in Requests, pc[r] = "evaluating",
         NEW i \in 1 .. Len(timeline), timeline[i].by = r, NEW ctx,
         ctx.entry = timeline[i], ctx.audited = (r \in audit)
  PROVE  EvaluateControls(ctx) \cap {"CTRL-03", "CTRL-04", "CTRL-06", "CTRL-08"} = {}
<1>1. Op(r) = "status" /\ call[r].to \in Decision /\ r \in audit
  BY DEF StageOfOp, StageFor, IsDecision, DecisionsThere
<1>2. /\ ctx.entry.actor = call[r].actor /\ ctx.entry.from = seen[r]
      /\ ctx.entry.to = call[r].to /\ ctx.entry.reason = call[r].reason
  BY <1>1 DEF EntriesTrue, EntryOf
<1>3. <<seen[r], call[r].to, Side(call[r].actor)>> \in Transitions /\ (call[r].to = "Denied" => call[r].reason)
  BY <1>1 DEF CallsAdmitted
<1>4. seen[r] = "InReview" /\ Side(call[r].actor) = "staff"
  BY <1>1, <1>3, MovesAre
<1>5. call[r].actor # Applicant
  BY <1>4 DEF Side
<1>6. "CTRL-03" \in AppliesTo(call[r].to) => call[r].to = "Denied"
  BY <1>1 DEF AppliesTo, Controls, Decision
<1>7. /\ Passes("CTRL-04", ctx) /\ Passes("CTRL-06", ctx) /\ Passes("CTRL-08", ctx)
      /\ call[r].to = "Denied" => Passes("CTRL-03", ctx)
  <2>1. Passes("CTRL-04", ctx)
    BY <1>2, <1>5 DEF Passes
  <2>2. Passes("CTRL-06", ctx)
    BY <1>2, <1>4 DEF Passes
  <2>3. Passes("CTRL-08", ctx)
    BY <1>1 DEF Passes
  <2>4. call[r].to = "Denied" => Passes("CTRL-03", ctx)
    BY <1>2, <1>3 DEF Passes
  <2>5. QED
    BY <2>1, <2>2, <2>3, <2>4
<1>8. QED
  BY <1>2, <1>6, <1>7 DEF EvaluateControls

LEMMA FoundKept ==
  ASSUME TypeOK, StageOfOp, CallsAdmitted, EntriesTrue, DecisionsThere, FoundGuarded, [Next]_vars
  PROVE  FoundGuarded'
<1>1. ASSUME NEW r \in Requests, LoadDecisionContext(r) PROVE FoundGuarded'
  <2>1. PICK i \in 1 .. Len(timeline), exemption \in Determinations :
          /\ timeline[i].by = r
          /\ found' = [found EXCEPT ![r] = EvaluateControls(
               [entry |-> timeline[i], exemption |-> exemption,
                assignedTo |-> caseRow.assignedTo, documents |-> documents, audited |-> r \in audit])]
    BY <1>1 DEF LoadDecisionContext
  <2> DEFINE ctx == [entry |-> timeline[i], exemption |-> exemption,
                     assignedTo |-> caseRow.assignedTo, documents |-> documents, audited |-> r \in audit]
  <2>2. EvaluateControls(ctx) \cap {"CTRL-03", "CTRL-04", "CTRL-06", "CTRL-08"} = {}
    <3>1. ctx.entry = timeline[i] /\ ctx.audited = (r \in audit) /\ pc[r] = "evaluating"
      BY <1>1 DEF LoadDecisionContext
    <3> HIDE DEF ctx
    <3>2. QED
      BY <2>1, <3>1, GuardsPass
  <2> HIDE DEF ctx
  <2>3. found' = [found EXCEPT ![r] = EvaluateControls(ctx)]
    BY <2>1 DEF ctx
  <2>4. QED
    BY <2>2, <2>3 DEF FoundGuarded, TypeOK
<1>2. ASSUME NEW r \in Requests, BeginApply(r) \/ FindNoCase(r) \/ InsertCase(r) \/ InsertRefused(r) \/ BeginStatus(r) \/ CommitStatus(r)
      PROVE  UNCHANGED found
  BY <1>2 DEF BeginApply, FindNoCase, InsertCase, InsertRefused, BeginStatus, CommitStatus, Resolve
<1>3. ASSUME NEW r \in Requests, BeginAssign(r) \/ CommitAssign(r) \/ BeginAdd(r) \/ CommitAdd(r) \/ TakeCaseRow(r) \/ LogChange(r)
      PROVE  UNCHANGED found
  BY <1>3 DEF BeginAssign, CommitAssign, BeginAdd, CommitAdd, TakeCaseRow, LogChange, Resolve
<1>4. ASSUME NEW r \in Requests, RecordChecks(r) \/ AuditChecks(r) \/ EvaluationError(r) \/ ReportError(r) \/ ReportLost(r) \/ FindReview(r)
      PROVE  UNCHANGED found
  BY <1>4 DEF RecordChecks, AuditChecks, EvaluationError, ReportError, ReportLost, FindReview, Resolve
<1>5. ASSUME NEW r \in Requests, ReadReviewedCase(r) \/ TakeReviewRow(r) \/ CommitAccept(r) \/ CommitReopen(r) \/ Fail(r) \/ Begin(r)
      PROVE  UNCHANGED found
  BY <1>5 DEF ReadReviewedCase, TakeReviewRow, CommitAccept, CommitReopen, Fail, Begin, Resolve
<1>6. CASE UNCHANGED vars
  BY <1>6 DEF vars, requestVars, FoundGuarded
<1>7. QED
  BY <1>1, <1>2, <1>3, <1>4, <1>5, <1>6, StepIsOne
  DEF FoundGuarded, Step, ApplyForExemption, ChangeStatus, AssignCase, AddToFile, EvaluateDecision, ResolveReview

LEMMA LogGrows ==
  ASSUME [Next]_vars
  PROVE  audit \subseteq audit'
<1>1. ASSUME NEW r \in Requests, LogChange(r) PROVE audit \subseteq audit'
  BY <1>1 DEF LogChange
<1>2. ASSUME NEW r \in Requests, BeginApply(r) \/ FindNoCase(r) \/ InsertCase(r) \/ InsertRefused(r) \/ BeginStatus(r) \/ CommitStatus(r)
      PROVE  UNCHANGED audit
  BY <1>2 DEF BeginApply, FindNoCase, InsertCase, InsertRefused, BeginStatus, CommitStatus, Resolve, reviewVars
<1>3. ASSUME NEW r \in Requests, BeginAssign(r) \/ CommitAssign(r) \/ BeginAdd(r) \/ CommitAdd(r) \/ TakeCaseRow(r) \/ LoadDecisionContext(r)
      PROVE  UNCHANGED audit
  BY <1>3 DEF BeginAssign, CommitAssign, BeginAdd, CommitAdd, TakeCaseRow, LoadDecisionContext, Resolve, reviewVars
<1>4. ASSUME NEW r \in Requests, RecordChecks(r) \/ AuditChecks(r) \/ EvaluationError(r) \/ ReportError(r) \/ ReportLost(r) \/ FindReview(r)
      PROVE  UNCHANGED audit
  BY <1>4 DEF RecordChecks, AuditChecks, EvaluationError, ReportError, ReportLost, FindReview, Resolve, reviewVars
<1>5. ASSUME NEW r \in Requests, ReadReviewedCase(r) \/ TakeReviewRow(r) \/ CommitAccept(r) \/ CommitReopen(r) \/ Fail(r) \/ Begin(r)
      PROVE  UNCHANGED audit
  BY <1>5 DEF ReadReviewedCase, TakeReviewRow, CommitAccept, CommitReopen, Fail, Begin, Resolve, reviewVars
<1>6. CASE UNCHANGED vars
  BY <1>6 DEF vars
<1>7. QED
  BY <1>1, <1>2, <1>3, <1>4, <1>5, <1>6, StepIsOne
  DEF Step, ApplyForExemption, ChangeStatus, AssignCase, AddToFile, EvaluateDecision, ResolveReview

\* A review is of a decision that was committed and audited.
LEMMA ReviewsOfDecisions ==
  ASSUME TypeOK, StageOfOp, CallsAdmitted, SeenWas, EntriesTrue, DecisionsThere, FailuresReviewed, [Next]_vars,
         NEW v \in Review, reviews'[v] # "none"
  PROVE  v[1] \in audit' /\ OnTimeline(v[1])'
<1>1. reviews[v] # "none" \/ (v[1] \in audit /\ OnTimeline(v[1]))
  <2>1. ASSUME NEW r \in Requests, RecordChecks(r) PROVE reviews[v] # "none" \/ (v[1] \in audit /\ OnTimeline(v[1]))
    BY <2>1 DEF RecordChecks, DecisionsThere, TypeOK
  <2>2. ASSUME NEW r \in Requests, ReportError(r) PROVE reviews[v] # "none" \/ (v[1] \in audit /\ OnTimeline(v[1]))
    BY <2>2 DEF ReportError, DecisionsThere, TypeOK
  <2>3. ASSUME NEW r \in Requests, CommitAccept(r) PROVE reviews[v] # "none" \/ (v[1] \in audit /\ OnTimeline(v[1]))
    BY <2>3 DEF CommitAccept, Resolve, CallsAdmitted, StageOfOp, StageFor, TypeOK
  <2>4. ASSUME NEW r \in Requests, CommitReopen(r) PROVE reviews[v] # "none" \/ (v[1] \in audit /\ OnTimeline(v[1]))
    BY <2>4 DEF CommitReopen, Resolve, CallsAdmitted, TypeOK
  <2>5. ASSUME NEW r \in Requests, BeginApply(r) \/ FindNoCase(r) \/ InsertCase(r) \/ InsertRefused(r) \/ BeginStatus(r) \/ CommitStatus(r)
        PROVE  UNCHANGED reviews
    BY <2>5 DEF BeginApply, FindNoCase, InsertCase, InsertRefused, BeginStatus, CommitStatus, reviewVars
  <2>6. ASSUME NEW r \in Requests, BeginAssign(r) \/ CommitAssign(r) \/ BeginAdd(r) \/ CommitAdd(r) \/ TakeCaseRow(r) \/ LogChange(r)
        PROVE  UNCHANGED reviews
    BY <2>6 DEF BeginAssign, CommitAssign, BeginAdd, CommitAdd, TakeCaseRow, LogChange, reviewVars
  <2>7. ASSUME NEW r \in Requests, LoadDecisionContext(r) \/ AuditChecks(r) \/ EvaluationError(r) \/ ReportLost(r) \/ FindReview(r) \/ ReadReviewedCase(r)
        PROVE  UNCHANGED reviews
    BY <2>7 DEF LoadDecisionContext, AuditChecks, EvaluationError, ReportLost, FindReview, ReadReviewedCase, reviewVars
  <2>8. ASSUME NEW r \in Requests, TakeReviewRow(r) \/ Fail(r) \/ Begin(r)
        PROVE  UNCHANGED reviews
    BY <2>8 DEF TakeReviewRow, Fail, Begin, reviewVars
  <2>9. CASE UNCHANGED vars
    BY <2>9 DEF vars, reviewVars
  <2>10. QED
    BY <2>1, <2>2, <2>3, <2>4, <2>5, <2>6, <2>7, <2>8, <2>9, StepIsOne
    DEF Step, ApplyForExemption, ChangeStatus, AssignCase, AddToFile, EvaluateDecision, ResolveReview
<1>2. v[1] \in audit /\ OnTimeline(v[1])
  BY <1>1 DEF FailuresReviewed, OnTimeline
<1>3. v[1] \in Requests
  BY DEF Review
<1>4. OnTimeline(v[1])'
  BY <1>2, <1>3, OnTimelineStays
<1>5. audit \subseteq audit'
  BY LogGrows
<1>6. QED
  BY <1>2, <1>4, <1>5

LEMMA FailuresNoted ==
  ASSUME TypeOK, StageOfOp, DecisionsThere, FailuresReviewed, [Next]_vars, NEW q \in Requests, q \in checks', found'[q] # {}
  PROVE  reviews'[<<q, "controls">>] # "none"
<1>1. ASSUME NEW r \in Requests, LoadDecisionContext(r) PROVE reviews'[<<q, "controls">>] # "none"
  BY <1>1 DEF LoadDecisionContext, DecisionsThere, FailuresReviewed, reviewVars, TypeOK
<1>2. ASSUME NEW r \in Requests, RecordChecks(r) PROVE reviews'[<<q, "controls">>] # "none"
  BY <1>2 DEF RecordChecks, FailuresReviewed, Review, TypeOK
<1>3. ASSUME NEW r \in Requests, ReportError(r) PROVE reviews'[<<q, "controls">>] # "none"
  BY <1>3 DEF ReportError, FailuresReviewed, Review, TypeOK
<1>4. ASSUME NEW r \in Requests, CommitAccept(r) PROVE reviews'[<<q, "controls">>] # "none"
  BY <1>4 DEF CommitAccept, Resolve, FailuresReviewed, Review, TypeOK
<1>5. ASSUME NEW r \in Requests, CommitReopen(r) PROVE reviews'[<<q, "controls">>] # "none"
  BY <1>5 DEF CommitReopen, Resolve, FailuresReviewed, Review, TypeOK
<1>6. ASSUME NEW r \in Requests, BeginApply(r) \/ FindNoCase(r) \/ InsertCase(r) \/ InsertRefused(r) \/ BeginStatus(r) \/ CommitStatus(r)
      PROVE  UNCHANGED <<checks, found, reviews>>
  BY <1>6 DEF BeginApply, FindNoCase, InsertCase, InsertRefused, BeginStatus, CommitStatus, reviewVars
<1>7. ASSUME NEW r \in Requests, BeginAssign(r) \/ CommitAssign(r) \/ BeginAdd(r) \/ CommitAdd(r) \/ TakeCaseRow(r) \/ LogChange(r)
      PROVE  UNCHANGED <<checks, found, reviews>>
  BY <1>7 DEF BeginAssign, CommitAssign, BeginAdd, CommitAdd, TakeCaseRow, LogChange, reviewVars
<1>8. ASSUME NEW r \in Requests, AuditChecks(r) \/ EvaluationError(r) \/ ReportLost(r) \/ FindReview(r) \/ ReadReviewedCase(r) \/ TakeReviewRow(r)
      PROVE  UNCHANGED <<checks, found, reviews>>
  BY <1>8 DEF AuditChecks, EvaluationError, ReportLost, FindReview, ReadReviewedCase, TakeReviewRow, reviewVars
<1>9. ASSUME NEW r \in Requests, Fail(r) \/ Begin(r)
      PROVE  UNCHANGED <<checks, found, reviews>>
  BY <1>9 DEF Fail, Begin, reviewVars
<1>10. CASE UNCHANGED vars
  BY <1>10 DEF vars, requestVars, reviewVars, FailuresReviewed
<1>11. QED
  BY <1>1, <1>2, <1>3, <1>4, <1>5, <1>6, <1>7, <1>8, <1>9, <1>10, StepIsOne
  DEF FailuresReviewed, Step, ApplyForExemption, ChangeStatus, AssignCase, AddToFile, EvaluateDecision, ResolveReview

LEMMA FailuresKept ==
  ASSUME TypeOK, StageOfOp, CallsAdmitted, SeenWas, EntriesTrue, DecisionsThere, FailuresReviewed, [Next]_vars
  PROVE  FailuresReviewed'
<1>1. checks' \subseteq Requests
  BY LogTyped
<1>2. \A v \in Review : reviews'[v] # "none" => v[1] \in audit' /\ OnTimeline(v[1])'
  BY ReviewsOfDecisions
<1>3. QED
  BY <1>1, <1>2, FailuresNoted DEF FailuresReviewed, OnTimeline

LEMMA ResolversKept ==
  ASSUME TypeOK, StageOfOp, CallsAdmitted, ResolversApart, [Next]_vars
  PROVE  ResolversApart'
<1>1. ASSUME UNCHANGED resolutions PROVE ResolversApart'
  <2>1. ASSUME NEW x \in resolutions PROVE call'[x[2]] = call[x[2]]
    <3>1. x[2] \in Requests /\ pc[x[2]] # "idle"
      BY DEF ResolversApart, StageOfOp, StageFor, TypeOK
    <3>2. QED
      BY <3>1, CallsStay
  <2>2. QED
    BY <1>1, <2>1 DEF ResolversApart, Op
<1>2. ASSUME NEW r \in Requests, CommitAccept(r) PROVE ResolversApart'
  <2>1. Op(r) = "resolve" /\ call[r].actor # Applicant
    BY <1>2 DEF CommitAccept, CallsAdmitted, StageOfOp, StageFor, HasRead
  <2>2. resolutions' = resolutions \cup {<<call[r].review, r>>} /\ call' = call
    BY <1>2 DEF CommitAccept, Resolve
  <2>3. QED
    BY <2>1, <2>2 DEF ResolversApart, Op
<1>3. ASSUME NEW r \in Requests, CommitReopen(r) PROVE ResolversApart'
  <2>1. Op(r) = "resolve" /\ call[r].actor # Applicant
    BY <1>3 DEF CommitReopen, CallsAdmitted, StageOfOp, StageFor, HasRead
  <2>2. resolutions' = resolutions \cup {<<call[r].review, r>>} /\ call' = call
    BY <1>3 DEF CommitReopen, Resolve
  <2>3. QED
    BY <2>1, <2>2 DEF ResolversApart, Op
<1>4. ASSUME NEW r \in Requests, BeginApply(r) \/ FindNoCase(r) \/ InsertCase(r) \/ InsertRefused(r) \/ BeginStatus(r) \/ CommitStatus(r)
      PROVE  UNCHANGED resolutions
  BY <1>4 DEF BeginApply, FindNoCase, InsertCase, InsertRefused, BeginStatus, CommitStatus, reviewVars
<1>5. ASSUME NEW r \in Requests, BeginAssign(r) \/ CommitAssign(r) \/ BeginAdd(r) \/ CommitAdd(r) \/ TakeCaseRow(r) \/ LogChange(r)
      PROVE  UNCHANGED resolutions
  BY <1>5 DEF BeginAssign, CommitAssign, BeginAdd, CommitAdd, TakeCaseRow, LogChange, reviewVars
<1>6. ASSUME NEW r \in Requests, LoadDecisionContext(r) \/ RecordChecks(r) \/ AuditChecks(r) \/ EvaluationError(r) \/ ReportError(r) \/ ReportLost(r)
      PROVE  UNCHANGED resolutions
  BY <1>6 DEF LoadDecisionContext, RecordChecks, AuditChecks, EvaluationError, ReportError, ReportLost, reviewVars
<1>7. ASSUME NEW r \in Requests, FindReview(r) \/ ReadReviewedCase(r) \/ TakeReviewRow(r) \/ Fail(r) \/ Begin(r)
      PROVE  UNCHANGED resolutions
  BY <1>7 DEF FindReview, ReadReviewedCase, TakeReviewRow, Fail, Begin, reviewVars
<1>8. CASE UNCHANGED vars
  BY <1>1, <1>8 DEF vars, reviewVars
<1>9. QED
  BY <1>1, <1>2, <1>3, <1>4, <1>5, <1>6, <1>7, <1>8, StepIsOne
  DEF Step, ApplyForExemption, ChangeStatus, AssignCase, AddToFile, EvaluateDecision, ResolveReview
-----------------------------------------------------------------------------
(* What the invariant says of the properties. *)

LEMMA TimelineFollows == IInv => TimelineTrue
<1> SUFFICES ASSUME IInv PROVE TimelineTrue
  OBVIOUS
<1>1. OneApplication
  BY DEF IInv, OpenedFirst, OneApplication
<1>2. MovesJustified
  <2>1. ASSUME NEW i \in 1 .. Len(timeline), Op(timeline[i].by) = "status"
        PROVE  <<timeline[i].from, timeline[i].to, Side(timeline[i].actor)>> \in Transitions
    <3>1. timeline[i].by \in Requests
      BY EntryKinds DEF IInv
    <3>2. EntryOf(timeline[i].by, timeline[i])
      BY DEF IInv, EntriesTrue
    <3>3. QED
      BY <2>1, <3>1, <3>2 DEF IInv, CallsAdmitted, EntryOf
  <2>2. QED
    BY <2>1 DEF IInv, OpenedFirst, MovesJustified
<1>3. StatusOnTimeline
  <2> SUFFICES ASSUME timeline # <<>> PROVE StatusOnTimeline
    BY DEF StatusOnTimeline
  <2> DEFINE n == Len(timeline)
  <2>1. n \in 1 .. n /\ timeline[n].to = caseRow.status
    BY EntryKinds DEF IInv, LastSays
  <2>2. ASSUME NEW j \in 1 .. n, timeline[j].created_at > timeline[n].created_at
        PROVE  Overlapped(timeline[n], timeline[j])
    <3>1. /\ timeline[j].created_at \in Nat /\ timeline[j].committed \in Nat
          /\ timeline[n].created_at \in Nat /\ timeline[n].committed \in Nat
      BY <2>1, EntryKinds DEF IInv, Entry
    <3>2. timeline[j].created_at <= timeline[j].committed /\ timeline[j].committed <= timeline[n].committed
      BY <2>1 DEF IInv, TimesTrue
    <3>3. QED
      BY <2>2, <3>1, <3>2 DEF Overlapped
  <2>3. QED
    BY <2>1, <2>2 DEF StatusOnTimeline
<1>4. QED
  BY <1>1, <1>2, <1>3 DEF IInv, TimelineTrue

LEMMA DutiesFollow == IInv => DutiesSeparated
<1> SUFFICES ASSUME IInv PROVE DutiesSeparated
  OBVIOUS
<1>1. ASSUME NEW i \in 1 .. Len(timeline), timeline[i].to \in Decision
      PROVE  timeline[i].actor \in Staff \ {Applicant}
  <2> DEFINE r == timeline[i].by
  <2>1. r \in Requests /\ EntryOf(r, timeline[i])
    BY EntryKinds DEF IInv, EntriesTrue
  <2>2. Op(r) = "status" /\ timeline[i].to = call[r].to /\ timeline[i].actor = call[r].actor
    BY <1>1, <2>1 DEF EntryOf, Decision
  <2>3. /\ <<seen[r], call[r].to, Side(call[r].actor)>> \in Transitions
        /\ call[r].actor \in Staff \cup {Applicant}
    BY <2>1, <2>2 DEF IInv, CallsAdmitted
  <2>4. Side(call[r].actor) = "staff"
    BY <1>1, <2>2, <2>3, MovesAre
  <2>5. QED
    BY <2>2, <2>3, <2>4 DEF Side
<1>2. ASSUME NEW x \in resolutions
      PROVE  call[x[2]].actor \in Staff \ {Applicant, Decider(x[1])}
  <2>1. x[2] \in Requests
    BY DEF IInv, TypeOK
  <2>2. Op(x[2]) = "resolve" /\ call[x[2]].actor # Applicant /\ call[x[2]].review = x[1]
    BY DEF IInv, ResolversApart
  <2>3. QED
    BY <2>1, <2>2 DEF IInv, CallsAdmitted
<1>3. QED
  BY <1>1, <1>2 DEF DutiesSeparated

LEMMA ControlsFollow == IInv => GuardedControls
BY DEF IInv, FoundGuarded, GuardedControls, TypeOK

LEMMA RowsFollow == IInv => RowsComeFree
BY DEF IInv, HeldOpen, RowsComeFree
-----------------------------------------------------------------------------
\* The inductive invariant: an entry says what its call asked for, what a call has read was
\* once true, and only who can commit holds the case (caseService.ts, complianceService.ts).
THEOREM FileTrue == Spec => []IInv
<1>1. IInv /\ [Next]_vars => IInv'
  <2> SUFFICES ASSUME IInv, [Next]_vars PROVE IInv'
    OBVIOUS
  <2>1. TypeOK' /\ StageOfOp'
    BY StepTyped, StageKept DEF IInv, StageOfOp
  <2>2. CallsAdmitted' /\ SeenWas' /\ HeldOpen'
    BY AdmittedKept, SeenKept, HeldKept DEF IInv
  <2>3. EntriesTrue' /\ OpenedFirst' /\ TimesTrue' /\ LastSays' /\ ApprovalDated'
    BY EntriesKept, OpenedKept, TimesKept, StatusKept, DatedKept DEF IInv
  <2>4. DecisionsThere' /\ FoundGuarded' /\ FailuresReviewed' /\ ResolversApart'
    BY DecisionsKept, FoundKept, FailuresKept, ResolversKept DEF IInv
  <2>5. QED
    BY <2>1, <2>2, <2>3, <2>4 DEF IInv
<1>2. QED
  BY Start, <1>1, PTL DEF Spec

\* Every variable keeps its type, for any people, calls and determinations.
THEOREM CaseTypes == Spec => []TypeOK
<1>1. IInv => TypeOK
  BY DEF IInv
<1>2. QED
  BY FileTrue, <1>1, PTL

\* The timeline is the one true account of the case, however many calls overlap and fail
\* (changeStatus, applyForExemption, resolveReview).
THEOREM TimelineStaysTrue == Spec => []TimelineTrue
<1>1. IInv => TimelineTrue
  BY TimelineFollows
<1>2. QED
  BY FileTrue, <1>1, PTL

\* Nobody decides their own exemption, or resolves the review of a decision they made.
THEOREM DutiesStaySeparated == Spec => []DutiesSeparated
<1>1. IInv => DutiesSeparated
  BY DutiesFollow
<1>2. QED
  BY FileTrue, <1>1, PTL

\* A recorded failure has its review, and every review its audited decision (evaluateDecision).
THEOREM FailuresStayReviewed == Spec => []FailuresReviewed
<1>1. IInv => FailuresReviewed
  BY DEF IInv
<1>2. QED
  BY FileTrue, <1>1, PTL

\* No decision fails a control that the workflow guards (DECISION_CONTROLS and allowedTransitions).
THEOREM GuardsHold == Spec => []GuardedControls
<1>1. IInv => GuardedControls
  BY ControlsFollow
<1>2. QED
  BY FileTrue, <1>1, PTL

\* No calls wait for each other's rows for ever (resolveReview takes the review, then the case).
THEOREM NoneWaitForEver == Spec => []RowsComeFree
<1>1. IInv => RowsComeFree
  BY RowsFollow
<1>2. QED
  BY FileTrue, <1>1, PTL
=============================================================================
