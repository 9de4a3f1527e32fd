----------------------------- MODULE Assistant -----------------------------
(***************************************************************************)
(* Questions to the policy assistant (assistantService.ts): counted under  *)
(* a lock, answered by the model or with the policy passages, withheld     *)
(* when a person must look at them, reported by the asker and reviewed by  *)
(* a case manager (assistantReviewService.ts).                             *)
(***************************************************************************)
EXTENDS Integers, FiniteSets

CONSTANTS
  Exchanges,     \* the questions that can be asked
  People, Staff, \* those who ask, and the case managers among them
  Nobody,
  ConfiguredMode,           \* ai, stub or passages-only, by the server's settings
  HOURLY_LIMIT, DailyLimit, \* questions of a person, and generated answers of all
  HourTicks, DayTicks,      \* how long an hour and a day are
  LastTick                  \* bound: where the clock stops

ASSUME PeopleAssumption == Staff \subseteq People /\ Nobody \notin People \cup Exchanges
ASSUME LimitsAssumption == /\ IsFiniteSet(Exchanges)
                           /\ HOURLY_LIMIT \in Nat /\ DailyLimit \in Nat
                           /\ HourTicks \in Nat /\ DayTicks \in Nat \ {0} /\ LastTick \in Nat
ASSUME ModeAssumption   == ConfiguredMode \in {"ai", "stub", "passages-only"}

VARIABLES
  now,
  lock,      \* who holds ASSISTANT_LOCK_ID
  ask,       \* by question: how far its request has come
  asker,     \* who asks
  began,     \* NOW() of the reservation: the row's created_at
  row,       \* assistant_interactions
  held,      \* by row: the reviewer whose transaction has locked it
  rating,    \* by question: whether feedback, once or more, is let in and not yet written
  review,    \* by reviewer: the review under way
  told       \* notifications: the reviewer, the question and the outcome

asking        == <<lock, ask, asker, began>>
assistantVars == <<now, asking, row, held, rating, review, told>>

Modes    == {"ai", "stub", "passages-only"}
Ratings  == {"helpful", "problem"}   \* or not helpful, which changes as little
Outcomes == {"approved", "corrected", "declined"}
Rateable == {"shown", "no-answer"}

NoRow  == [status |-> "none", mode |-> "passages-only", draft |-> FALSE, personal |-> FALSE,
           grounded |-> TRUE, reviewer |-> Nobody, outcome |-> "none"]
Idle   == [stage |-> "idle", of |-> Nobody, outcome |-> "none"]
Exists(e) == row[e].status # "none"

AssistantInit ==
  /\ now = 0 /\ lock = Nobody
  /\ ask = [e \in Exchanges |-> "idle"]
  /\ asker = [e \in Exchanges |-> Nobody] /\ began = [e \in Exchanges |-> 0]
  /\ row = [e \in Exchanges |-> NoRow] /\ held = [e \in Exchanges |-> Nobody]
  /\ rating = [e \in Exchanges |-> FALSE]
  /\ review = [s \in Staff |-> Idle]
  /\ told = {}

Tick ==
  /\ now < LastTick
  /\ now' = now + 1
  /\ UNCHANGED <<asking, row, held, rating, review, told>>

Proceed(e, stage) == ask' = [ask EXCEPT ![e] = stage]
-----------------------------------------------------------------------------
(* reserveAsk *)

BeginAsk(e, p) ==
  /\ ask[e] = "idle"
  /\ Proceed(e, "queued")
  /\ asker' = [asker EXCEPT ![e] = p]
  /\ began' = [began EXCEPT ![e] = now]
  /\ UNCHANGED <<now, lock, row, held, rating, review, told>>

\* Fault: parallel requests are not kept apart.
TakeNoLock(e) ==
  /\ ask[e] = "queued"
  /\ Proceed(e, "locked")
  /\ UNCHANGED <<now, lock, asker, began, row, held, rating, review, told>>

TakeLock(e) ==
  /\ ask[e] = "queued" /\ lock = Nobody
  /\ lock' = e
  /\ Proceed(e, "locked")
  /\ UNCHANGED <<now, asker, began, row, held, rating, review, told>>

Release(e) == lock' = IF lock = e THEN Nobody ELSE lock
Hourly(p, t) == {q \in Exchanges : Exists(q) /\ asker[q] = p /\ began[q] > t - HourTicks}
DayOf(t)     == t \div DayTicks
Daily(day)   == {q \in Exchanges : row[q].mode \in {"ai", "stub"} /\ DayOf(began[q]) = day}
Since(day)   == {q \in Exchanges : row[q].mode \in {"ai", "stub"} /\ DayOf(began[q]) >= day}

\* The day's cap is used up: the passages alone.
ModeFor(e) == IF Cardinality(Since(DayOf(began[e]))) >= DailyLimit THEN "passages-only"
              ELSE ConfiguredMode

\* Both counts, by the time the transaction began; the mode is kept with the stage.
CountAsks(e) ==
  /\ ask[e] = "locked"
  /\ IF Cardinality(Hourly(asker[e], began[e])) >= HOURLY_LIMIT
       THEN Proceed(e, "refused") /\ Release(e)
       ELSE Proceed(e, ModeFor(e)) /\ UNCHANGED lock
  /\ UNCHANGED <<now, asker, began, row, held, rating, review, told>>

\* The INSERT and the COMMIT.
CommitReserve(e) ==
  /\ ask[e] \in Modes
  /\ \E personal \in BOOLEAN :
       row' = [row EXCEPT ![e] = [NoRow EXCEPT !.status = "pending", !.mode = ask[e],
                                               !.personal = personal]]
  /\ Proceed(e, "reserved") /\ Release(e)
  /\ UNCHANGED <<now, asker, began, held, rating, review, told>>

FailReserve(e) ==
  /\ ask[e] \in {"queued", "locked"} \cup Modes
  /\ Proceed(e, "failed") /\ Release(e)
  /\ UNCHANGED <<now, asker, began, row, held, rating, review, told>>
-----------------------------------------------------------------------------
(* askAssistant: what is made of a reserved question *)

Produced(mode, status, draft, grounded) ==
  [mode |-> mode, status |-> status, draft |-> draft, grounded |-> grounded]
WithoutAnswer(personal, mode) ==
  Produced(mode, IF personal THEN "with-staff" ELSE "shown", FALSE, TRUE)
NoAnswer(personal, mode) ==
  Produced(mode, IF personal THEN "with-staff" ELSE "no-answer", FALSE, TRUE)

\* Fault: only the grounding check decides.
LevelByGrounding(personal, grounded) == IF ~grounded THEN 2 ELSE 1

\* Level 2 is withheld; 0 and 1 are shown, and differ in a note beside the answer.
LevelFor(personal, grounded) == IF personal \/ ~grounded THEN 2 ELSE 1

\* By whether passages were found, and what the model made of them.
Produce(personal, mode, found, outcome) ==
  IF ~found THEN NoAnswer(personal, "passages-only")
  ELSE IF mode = "passages-only" \/ outcome = "unavailable" THEN WithoutAnswer(personal, "passages-only")
  ELSE IF outcome = "declined" THEN WithoutAnswer(personal, mode)
  ELSE IF outcome = "no-answer" THEN NoAnswer(personal, mode)
  ELSE LET grounded == outcome = "grounded"
       IN  Produced(mode, IF LevelFor(personal, grounded) = 2 THEN "with-staff" ELSE "shown", TRUE, grounded)

StoreAnswer(e) ==
  /\ ask[e] = "reserved" /\ held[e] = Nobody
  /\ \E found \in BOOLEAN,
        outcome \in {"unavailable", "declined", "no-answer", "grounded", "ungrounded"} :
       LET p == Produce(row[e].personal, row[e].mode, found, outcome)
       IN  row' = [row EXCEPT ![e].mode = p.mode, ![e].status = p.status,
                              ![e].draft = p.draft, ![e].grounded = p.grounded]
  /\ Proceed(e, "stored")
  /\ UNCHANGED <<now, lock, asker, began, held, rating, review, told>>

\* The AI_ANSWER entry, and the response.
LogAnswer(e) ==
  /\ ask[e] = "stored"
  /\ Proceed(e, "answered")
  /\ UNCHANGED <<now, lock, asker, began, row, held, rating, review, told>>

\* The catch: whatever failed, the row is marked, whatever it has become.
FailAsk(e) ==
  /\ ask[e] \in {"reserved", "stored"} /\ held[e] = Nobody
  /\ row' = [row EXCEPT ![e].status = "error"]
  /\ Proceed(e, "failed")
  /\ UNCHANGED <<now, lock, asker, began, held, rating, review, told>>

\* The mark fails too, or the process stops: the row stays as it is.
LeaveAsk(e) ==
  /\ ask[e] \in {"reserved", "stored"}
  /\ Proceed(e, "failed")
  /\ UNCHANGED <<now, lock, asker, began, row, held, rating, review, told>>
-----------------------------------------------------------------------------
(* submitFeedback *)

BeginFeedback(e) ==
  /\ row[e].status \in Rateable /\ ~rating[e]
  /\ rating' = [rating EXCEPT ![e] = TRUE]
  /\ UNCHANGED <<now, asking, row, held, review, told>>

Reported(e, given) == IF given = "problem" THEN "with-staff" ELSE row[e].status

\* Fault: what was read is not asked again by the UPDATE.
RecordAnyFeedback(e, given) ==
  /\ rating[e] /\ held[e] = Nobody
  /\ row' = [row EXCEPT ![e].status = Reported(e, given)]
  /\ \E more \in BOOLEAN : rating' = [rating EXCEPT ![e] = more]
  /\ UNCHANGED <<now, asking, held, review, told>>

\* The UPDATE, which waits for a reviewer's lock and asks for the status again.
RecordFeedback(e, given) ==
  /\ rating[e] /\ held[e] = Nobody
  /\ row' = IF row[e].status \in Rateable
              THEN [row EXCEPT ![e].status = Reported(e, given)] ELSE row
  /\ \E more \in BOOLEAN : rating' = [rating EXCEPT ![e] = more]
  /\ UNCHANGED <<now, asking, held, review, told>>
-----------------------------------------------------------------------------
(* reviewExchange *)

MayReview(s, e, outcome) ==
  /\ asker[e] # s
  /\ row[e].status = "with-staff"
  /\ outcome = "approved" => row[e].draft

\* Fault: the row is read without FOR UPDATE.
ReadExchange(s, e, outcome) ==
  /\ review[s] = Idle /\ held[e] = Nobody
  /\ MayReview(s, e, outcome)
  /\ review' = [review EXCEPT ![s] = [stage |-> "locked", of |-> e, outcome |-> outcome]]
  /\ UNCHANGED <<now, asking, row, held, rating, told>>

\* SELECT ... FOR UPDATE and the checks; a review that is refused changes nothing.
LockExchange(s, e, outcome) ==
  /\ review[s] = Idle /\ held[e] = Nobody
  /\ MayReview(s, e, outcome)
  /\ held' = [held EXCEPT ![e] = s]
  /\ review' = [review EXCEPT ![s] = [stage |-> "locked", of |-> e, outcome |-> outcome]]
  /\ UNCHANGED <<now, asking, row, rating, told>>

Subject(s) == <<s, review[s].of, review[s].outcome>>
EndReview(s) ==
  /\ review' = [review EXCEPT ![s] = Idle]
  /\ held' = [e \in Exchanges |-> IF held[e] = s THEN Nobody ELSE held[e]]

\* The UPDATE and the notification wait for the COMMIT, and it for the AI_REVIEW entry.
LogReview(s) ==
  /\ review[s].stage = "locked"
  /\ review' = [review EXCEPT ![s].stage = "logged"]
  /\ UNCHANGED <<now, asking, row, held, rating, told>>

CommitReview(s) ==
  /\ review[s].stage = "logged"
  /\ row' = [row EXCEPT ![review[s].of].status = "reviewed", ![review[s].of].reviewer = s,
                        ![review[s].of].outcome = review[s].outcome]
  /\ told' = told \cup {Subject(s)}
  /\ EndReview(s)
  /\ UNCHANGED <<now, asking, rating>>

FailReview(s) ==
  /\ review[s].stage \in {"locked", "logged"}
  /\ EndReview(s)
  /\ UNCHANGED <<now, asking, row, rating, told>>
-----------------------------------------------------------------------------
ReserveAsk(e) == \/ \E p \in People : BeginAsk(e, p)
                 \/ TakeLock(e) \/ CountAsks(e) \/ CommitReserve(e) \/ FailReserve(e)
AskAssistant(e)   == ReserveAsk(e) \/ StoreAnswer(e) \/ LogAnswer(e) \/ FailAsk(e) \/ LeaveAsk(e)
SubmitFeedback(e) == BeginFeedback(e) \/ \E given \in Ratings : RecordFeedback(e, given)
ReviewExchange(s) == \/ \E e \in Exchanges, outcome \in Outcomes : LockExchange(s, e, outcome)
                     \/ LogReview(s) \/ CommitReview(s) \/ FailReview(s)

AssistantNext ==
  \/ Tick
  \/ \E e \in Exchanges : AskAssistant(e) \/ SubmitFeedback(e)
  \/ \E s \in Staff : ReviewExchange(s)

AssistantSpec == AssistantInit /\ [][AssistantNext]_assistantVars
-----------------------------------------------------------------------------
\* Every variable holds a value of its kind.
AssistantTypeOK ==
  /\ now \in Nat
  /\ lock \in Exchanges \cup {Nobody}
  /\ ask \in [Exchanges -> {"idle", "queued", "locked", "refused", "reserved", "stored", "answered",
                            "failed"} \cup Modes]
  /\ asker \in [Exchanges -> People \cup {Nobody}]
  /\ began \in [Exchanges -> Nat]
  /\ row \in [Exchanges -> [status : {"none", "pending", "with-staff", "reviewed", "error"} \cup Rateable,
                            mode : Modes, draft : BOOLEAN, personal : BOOLEAN, grounded : BOOLEAN,
                            reviewer : Staff \cup {Nobody}, outcome : Outcomes \cup {"none"}]]
  /\ held \in [Exchanges -> Staff \cup {Nobody}]
  /\ rating \in [Exchanges -> BOOLEAN]
  /\ review \in [Staff -> [stage : {"idle", "locked", "logged"}, of : Exchanges \cup {Nobody},
                           outcome : Outcomes \cup {"none"}]]
  /\ told \subseteq Staff \X Exchanges \X Outcomes

\* "parallel requests cannot slip past a limit" (reserveAsk): no hour holds more
\* questions of one person than the hourly limit, and no day more generated
\* answers than the daily cap, whenever the requests began and waited.
HourlyKept == \A p \in People, t \in 0..LastTick :
                Cardinality({q \in Hourly(p, t) : began[q] <= t}) <= HOURLY_LIMIT
DailyKept  == \A t \in 0..LastTick : Cardinality(Daily(DayOf(t))) <= DailyLimit
LimitsKept == HourlyKept /\ DailyKept

\* The answer getHistory shows the asker: the draft, a case manager's words, or none.
HistoryAnswer(e) ==
  IF row[e].status = "shown" /\ row[e].draft THEN "draft"
  ELSE IF row[e].status # "reviewed" THEN "none"
  ELSE CASE row[e].outcome = "approved" -> "draft" [] row[e].outcome = "corrected" -> "correction"
         [] OTHER -> "none"

\* The assistant "never decides a person's eligibility or case, and never shows an
\* answer it could not ground" (oversightLevel.ts): only a case manager other than
\* the asker lets such a draft out.
WithheldUnseen ==
  \A e \in Exchanges : HistoryAnswer(e) = "draft" /\ (row[e].personal \/ ~row[e].grounded) =>
    row[e].outcome = "approved" /\ row[e].reviewer \in Staff \ {asker[e]}

\* "The person is notified and sees the result in their history" (reviewExchange),
\* and a notification stays true, whatever feedback or other review arrives beside it,
\* unless the question's own request fails after all.
ReviewsHold ==
  \A t \in told : \/ row[t[2]].status = "reviewed" /\ row[t[2]].reviewer = t[1] /\ row[t[2]].outcome = t[3]
                  \/ ask[t[2]] = "failed"

\* The same without the exception: what reviewExchange says, and the catch of
\* askAssistant breaks.
ReviewsStand == \A t \in told : row[t[2]].status = "reviewed"

StageOf(status) ==
  CASE status = "none" -> "unasked"     [] status = "pending" -> "asked"
    [] status \in Rateable -> "answered" [] status = "with-staff" -> "queued"
    [] status = "reviewed" -> "closed"  [] status = "error" -> "withdrawn"

Promise == INSTANCE AssistantPromise WITH
  stage    <- [e \in Exchanges |-> StageOf(row[e].status)],
  asker    <- [e \in Exchanges |-> IF Exists(e) THEN asker[e] ELSE Nobody],
  closedBy <- [e \in Exchanges |-> row[e].reviewer],
  settled  <- {e \in Exchanges : ask[e] \in {"refused", "answered", "failed"}}

\* A question is closed once, by somebody else than the asker, a report brings it to
\* a case manager, and only its own request, still going, can take it back.
KeepsPromise == Promise!Spec
=============================================================================
