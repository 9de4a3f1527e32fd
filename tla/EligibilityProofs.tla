-------------------------- MODULE EligibilityProofs --------------------------
(***************************************************************************)
(* The properties of Eligibility for every set of calls, every change a    *)
(* save can ask and every age. A check that no save has overlapped has     *)
(* read the profile that is on file, and no two transactions have the same *)
(* date.                                                                   *)
(* And those of Assistant, the other part a person asks something of, for  *)
(* every set of questions, people and case managers and every limit:       *)
(* whoever has counted holds the lock until its question is inserted, and  *)
(* whoever reviews holds the row until the review is over. The counts are  *)
(* taken by the time the request began, so the limits hold for the window  *)
(* that ends at any moment, not only for one that ended when somebody      *)
(* asked.                                                                  *)
(***************************************************************************)
EXTENDS Eligibility, Assistant, FiniteSetTheorems, TLAPS

\* The dates given out so far, and those of a save, an open check and a determination
\* on file are different.
Dates ==
  /\ \A r \in Requests : started[r] <= clock
  /\ \A t \in Type : exemptions[t].determined_at <= clock
  /\ user.updated_at <= clock
  /\ \A r, q \in Requests : pc[r] = "saving" /\ pc[q] = "upserting" => started[r] # started[q]
  /\ \A r \in Requests, t \in Type : pc[r] = "saving" => exemptions[t].determined_at # started[r]

\* A check under way that no save has overlapped has read the profile on file.
ReadHolds ==
  \A r \in Requests \ overlapped : pc[r] \in {"read", "upserting"} => read[r] = user.profile

IInv == TypeOK /\ Dates /\ ReadHolds /\ OneDetermination /\ ComplianceFollows /\ StaleIsNoticed
-----------------------------------------------------------------------------
\* What a save makes of the profile is a profile.
LEMMA ChangedIsProfile ==
  ASSUME TypeOK, NEW r \in Requests
  PROVE  Changed(r) \in Profile
<1>1. \A f \in Field : f \in DOMAIN change[r] =>
        change[r][f] \in IF f = "annualIncome" THEN Nat \cup {NoIncome} ELSE BOOLEAN
  <2>1. CASE change[r] \in Changes
    BY <2>1, ChangesAssumption
  <2>2. CASE change[r] = <<>>
    BY <2>2
  <2>3. QED
    BY <2>1, <2>2 DEF TypeOK
<1>2. user.profile \in Profile
  BY DEF TypeOK
<1>3. QED
  BY <1>1, <1>2 DEF Changed, Profile, Field

\* Every status a determination can have.
LEMMA EvaluateIsStatus ==
  ASSUME NEW t \in Type, NEW p
  PROVE  Evaluate(t, p) \in {"Eligible", "Pending Review", "Not Eligible"}
BY DEF Evaluate, Type

\* A profile has one of three compliance statuses.
LEMMA ComplianceIsStatus ==
  ASSUME NEW p
  PROVE  DetermineCompliance(p) \in {"Ineligible", "Eligible", "Pending Review"}
BY DEF DetermineCompliance

\* What is compared as a date is a number.
LEMMA DatesAreNumbers ==
  ASSUME TypeOK
  PROVE  /\ clock \in Nat
         /\ started \in [Requests -> Nat] /\ \A r \in Requests : started[r] \in Int
         /\ user.updated_at \in Nat
         /\ \A t \in Type : exemptions[t].determined_at \in Int
         /\ pc \in [Requests -> Stage]
<1>1. clock \in Nat /\ started \in [Requests -> Nat] /\ pc \in [Requests -> Stage]
  BY DEF TypeOK
<1>2. user.updated_at \in Nat
  BY DEF TypeOK
<1>3. \A t \in Type : exemptions[t].determined_at \in Int
  BY DEF TypeOK
<1>4. QED
  BY <1>1, <1>2, <1>3

\* A BEGIN gives out the next date.
LEMMA BeginDates ==
  ASSUME TypeOK, NEW r \in Requests, Begin(r)
  PROVE  /\ clock' \in Nat /\ clock' = clock + 1
         /\ started' \in [Requests -> Nat] /\ started'[r] = clock'
         /\ \A q \in Requests \ {r} : started'[q] = started[q]
<1>1. clock \in Nat /\ started \in [Requests -> Nat]
  BY DEF TypeOK
<1>2. QED
  BY <1>1 DEF Begin

\* The profile nobody has filled in is a profile.
LEMMA EmptyIsProfile == Empty \in Profile
BY DEF Empty, Profile, NoIncome

\* Types.
LEMMA TypesKept ==
  ASSUME TypeOK, [Next]_vars
  PROVE  TypeOK'
<1>1. ASSUME NEW r \in Requests, BeginSave(r) PROVE TypeOK'
  <2>1. PICK c \in Changes : change' = [change EXCEPT ![r] = c]
    BY <1>1 DEF BeginSave
  <2>2. change' \in [Requests -> Changes \cup {<<>>}]
    BY <2>1 DEF TypeOK
  <2>3. clock' \in Nat /\ started' \in [Requests -> Nat]
    BY <1>1, BeginDates DEF BeginSave
  <2>4. pc' \in [Requests -> Stage]
    BY <1>1 DEF BeginSave, Goto, TypeOK, Stage
  <2>5. QED
    BY <1>1, <2>2, <2>3, <2>4 DEF BeginSave, TypeOK
<1>2. ASSUME NEW r \in Requests, SaveNothing(r) PROVE TypeOK'
  BY <1>2 DEF SaveNothing, Goto, TypeOK, Stage
<1>3. ASSUME NEW r \in Requests, Save(r) PROVE TypeOK'
  <2>1. user' \in [profile : Profile, updated_at : Nat,
                   compliance_status : {"Ineligible", "Eligible", "Pending Review"}]
    BY <1>3, ChangedIsProfile, ComplianceIsStatus DEF Save, TypeOK
  <2>2. overlapped' \subseteq Requests
    BY <1>3 DEF Save, Overlapping, TypeOK
  <2>3. pc' \in [Requests -> Stage]
    BY <1>3 DEF Save, Goto, TypeOK, Stage
  <2>4. QED
    BY <1>3, <2>1, <2>2, <2>3 DEF Save, TypeOK
<1>4. ASSUME NEW r \in Requests, ChangeMfa(r) PROVE TypeOK'
  <2>1. user' \in [profile : Profile, updated_at : Nat,
                   compliance_status : {"Ineligible", "Eligible", "Pending Review"}]
    <3>1. clock + 1 \in Nat
      BY DatesAreNumbers
    <3>2. user' = [user EXCEPT !.updated_at = clock + 1]
      BY <1>4 DEF ChangeMfa
    <3>3. QED
      BY <3>1, <3>2 DEF TypeOK
  <2>2. clock' \in Nat /\ started' \in [Requests -> Nat]
    BY <1>4, BeginDates DEF ChangeMfa
  <2>3. pc' \in [Requests -> Stage]
    BY <1>4 DEF ChangeMfa, Goto, TypeOK, Stage
  <2>4. QED
    BY <1>4, <2>1, <2>2, <2>3 DEF ChangeMfa, TypeOK
<1>5. ASSUME NEW r \in Requests, ReadProfile(r) PROVE TypeOK'
  BY <1>5 DEF ReadProfile, Goto, TypeOK, Stage
<1>6. ASSUME NEW r \in Requests, BeginCheck(r) PROVE TypeOK'
  <2>1. clock' \in Nat /\ started' \in [Requests -> Nat]
    BY <1>6, BeginDates DEF BeginCheck
  <2>2. pc' \in [Requests -> Stage]
    BY <1>6 DEF BeginCheck, Goto, TypeOK, Stage
  <2>3. QED
    BY <1>6, <2>1, <2>2 DEF BeginCheck, TypeOK
<1>7. ASSUME NEW r \in Requests, Upsert(r) PROVE TypeOK'
  <2>1. PICK t \in NextRow(r) : written' = [written EXCEPT ![r] = @ \cup {t}]
    BY <1>7 DEF Upsert
  <2>2. NextRow(r) \subseteq Type
    BY DEF NextRow, Type
  <2>3. written' \in [Requests -> SUBSET Type]
    BY <2>1, <2>2 DEF TypeOK
  <2>4. QED
    BY <1>7, <2>3 DEF Upsert, TypeOK
<1>8. ASSUME NEW r \in Requests, CommitCheck(r) PROVE TypeOK'
  <2>1. exemptions' \in [Type -> [status : {"none", "Eligible", "Pending Review", "Not Eligible"},
                                  determined_at : Int, by : Requests \cup {NoCheck}]]
    <3>1. started[r] \in Int
      BY DatesAreNumbers
    <3>2. exemptions' = [t \in Type |-> [status |-> Evaluate(t, read[r]), determined_at |-> started[r], by |-> r]]
      BY <1>8 DEF CommitCheck, Determined
    <3>3. QED
      BY <3>1, <3>2, EvaluateIsStatus
  <2>2. written' \in [Requests -> SUBSET Type] /\ started' \in [Requests -> Nat]
    BY <1>8 DEF CommitCheck, Forget, TypeOK
  <2>3. read' \in [Requests -> Profile]
    BY <1>8, EmptyIsProfile DEF CommitCheck, Forget, TypeOK
  <2>4. pc' \in [Requests -> Stage]
    BY <1>8 DEF CommitCheck, Goto, TypeOK, Stage
  <2>5. QED
    BY <1>8, <2>1, <2>2, <2>3, <2>4 DEF CommitCheck, TypeOK
<1>9. ASSUME NEW r \in Requests, LogCheck(r) PROVE TypeOK'
  BY <1>9 DEF LogCheck, Goto, TypeOK, Stage
<1>10. ASSUME NEW r \in Requests, Fail(r) PROVE TypeOK'
  <2>1. written' \in [Requests -> SUBSET Type] /\ started' \in [Requests -> Nat]
    BY <1>10 DEF Fail, Forget, TypeOK
  <2>2. read' \in [Requests -> Profile]
    BY <1>10, EmptyIsProfile DEF Fail, Forget, TypeOK
  <2>3. pc' \in [Requests -> Stage]
    BY <1>10 DEF Fail, Goto, TypeOK, Stage
  <2>4. QED
    BY <1>10, <2>1, <2>2, <2>3 DEF Fail, TypeOK
<1>11. CASE UNCHANGED vars
  BY <1>11 DEF vars, request, TypeOK
<1>12. QED
  BY <1>1, <1>2, <1>3, <1>4, <1>5, <1>6, <1>7, <1>8, <1>9, <1>10, <1>11 DEF Next

\* Dates; each BEGIN gives out a new one.
LEMMA DatesKept ==
  ASSUME TypeOK, Dates, [Next]_vars
  PROVE  Dates'
<1>1. ASSUME NEW r \in Requests, BeginSave(r) PROVE Dates'
  <2>1. /\ clock' = clock + 1 /\ started'[r] = clock + 1
        /\ \A q \in Requests \ {r} : started'[q] = started[q]
    BY <1>1, BeginDates DEF BeginSave
  <2>2. pc'[r] = "saving" /\ \A q \in Requests \ {r} : pc'[q] = pc[q]
    BY <1>1, DatesAreNumbers DEF BeginSave, Goto
  <2>3. user' = user /\ exemptions' = exemptions
    BY <1>1 DEF BeginSave
  <2>4. QED
    BY <2>1, <2>2, <2>3, DatesAreNumbers DEF Dates
<1>2. ASSUME NEW r \in Requests, SaveNothing(r) PROVE Dates'
  BY <1>2, DatesAreNumbers DEF SaveNothing, Goto, Dates
<1>3. ASSUME NEW r \in Requests, Save(r) PROVE Dates'
  BY <1>3, DatesAreNumbers DEF Save, Goto, Dates
<1>4. ASSUME NEW r \in Requests, ChangeMfa(r) PROVE Dates'
  BY <1>4, DatesAreNumbers, BeginDates DEF ChangeMfa, Goto, Dates
<1>5. ASSUME NEW r \in Requests, ReadProfile(r) PROVE Dates'
  BY <1>5, DatesAreNumbers DEF ReadProfile, Goto, Dates
<1>6. ASSUME NEW r \in Requests, BeginCheck(r) PROVE Dates'
  BY <1>6, DatesAreNumbers, BeginDates DEF BeginCheck, Goto, Dates
<1>7. ASSUME NEW r \in Requests, Upsert(r) PROVE Dates'
  BY <1>7, DatesAreNumbers DEF Upsert, Dates
<1>8. ASSUME NEW r \in Requests, CommitCheck(r) PROVE Dates'
  BY <1>8, DatesAreNumbers DEF CommitCheck, Forget, Goto, Determined, Dates
<1>9. ASSUME NEW r \in Requests, LogCheck(r) PROVE Dates'
  BY <1>9, DatesAreNumbers DEF LogCheck, Goto, Dates
<1>10. ASSUME NEW r \in Requests, Fail(r) PROVE Dates'
  BY <1>10, DatesAreNumbers DEF Fail, Forget, Goto, Dates
<1>11. CASE UNCHANGED vars
  BY <1>11 DEF vars, request, Dates
<1>12. QED
  BY <1>1, <1>2, <1>3, <1>4, <1>5, <1>6, <1>7, <1>8, <1>9, <1>10, <1>11 DEF Next

\* A save that changes the profile under a check has overlapped it.
LEMMA ReadsKept ==
  ASSUME TypeOK, ReadHolds, [Next]_vars
  PROVE  ReadHolds'
<1>1. ASSUME NEW r \in Requests, BeginSave(r) PROVE ReadHolds'
  BY <1>1 DEF BeginSave, Begin, Goto, TypeOK, ReadHolds
<1>2. ASSUME NEW r \in Requests, SaveNothing(r) PROVE ReadHolds'
  BY <1>2 DEF SaveNothing, Goto, TypeOK, ReadHolds
<1>3. ASSUME NEW r \in Requests, Save(r) PROVE ReadHolds'
  BY <1>3 DEF Save, Goto, TypeOK, ReadHolds, Overlapping
<1>4. ASSUME NEW r \in Requests, ChangeMfa(r) PROVE ReadHolds'
  BY <1>4 DEF ChangeMfa, Begin, Goto, TypeOK, ReadHolds
<1>5. ASSUME NEW r \in Requests, ReadProfile(r) PROVE ReadHolds'
  BY <1>5 DEF ReadProfile, Goto, TypeOK, ReadHolds
<1>6. ASSUME NEW r \in Requests, BeginCheck(r) PROVE ReadHolds'
  BY <1>6 DEF BeginCheck, Begin, Goto, TypeOK, ReadHolds
<1>7. ASSUME NEW r \in Requests, Upsert(r) PROVE ReadHolds'
  BY <1>7 DEF Upsert, TypeOK, ReadHolds
<1>8. ASSUME NEW r \in Requests, CommitCheck(r) PROVE ReadHolds'
  BY <1>8 DEF CommitCheck, Forget, Goto, Determined, TypeOK, ReadHolds
<1>9. ASSUME NEW r \in Requests, LogCheck(r) PROVE ReadHolds'
  BY <1>9 DEF LogCheck, Goto, TypeOK, ReadHolds
<1>10. ASSUME NEW r \in Requests, Fail(r) PROVE ReadHolds'
  BY <1>10 DEF Fail, Forget, Goto, TypeOK, ReadHolds
<1>11. CASE UNCHANGED vars
  BY <1>11 DEF vars, request, ReadHolds
<1>12. QED
  BY <1>1, <1>2, <1>3, <1>4, <1>5, <1>6, <1>7, <1>8, <1>9, <1>10, <1>11 DEF Next

\* One check writes all three, and each save looks at the whole profile.
LEMMA FilesKept ==
  ASSUME TypeOK, OneDetermination, ComplianceFollows, [Next]_vars
  PROVE  OneDetermination' /\ ComplianceFollows'
<1>1. ASSUME NEW r \in Requests, BeginSave(r) PROVE (OneDetermination /\ ComplianceFollows)'
  BY <1>1 DEF BeginSave, Begin, Goto, TypeOK, OneDetermination, ComplianceFollows, DetermineCompliance
<1>2. ASSUME NEW r \in Requests, SaveNothing(r) PROVE (OneDetermination /\ ComplianceFollows)'
  BY <1>2 DEF SaveNothing, Goto, TypeOK, OneDetermination, ComplianceFollows, DetermineCompliance
<1>3. ASSUME NEW r \in Requests, Save(r) PROVE (OneDetermination /\ ComplianceFollows)'
  BY <1>3 DEF Save, Goto, TypeOK, OneDetermination, ComplianceFollows, DetermineCompliance
<1>4. ASSUME NEW r \in Requests, ChangeMfa(r) PROVE (OneDetermination /\ ComplianceFollows)'
  BY <1>4 DEF ChangeMfa, Begin, Goto, TypeOK, OneDetermination, ComplianceFollows, DetermineCompliance
<1>5. ASSUME NEW r \in Requests, ReadProfile(r) PROVE (OneDetermination /\ ComplianceFollows)'
  BY <1>5 DEF ReadProfile, Goto, TypeOK, OneDetermination, ComplianceFollows, DetermineCompliance
<1>6. ASSUME NEW r \in Requests, BeginCheck(r) PROVE (OneDetermination /\ ComplianceFollows)'
  BY <1>6 DEF BeginCheck, Begin, Goto, TypeOK, OneDetermination, ComplianceFollows, DetermineCompliance
<1>7. ASSUME NEW r \in Requests, Upsert(r) PROVE (OneDetermination /\ ComplianceFollows)'
  BY <1>7 DEF Upsert, TypeOK, OneDetermination, ComplianceFollows, DetermineCompliance
<1>8. ASSUME NEW r \in Requests, CommitCheck(r) PROVE (OneDetermination /\ ComplianceFollows)'
  BY <1>8 DEF CommitCheck, Forget, Goto, Determined, TypeOK, OneDetermination, ComplianceFollows, DetermineCompliance
<1>9. ASSUME NEW r \in Requests, LogCheck(r) PROVE (OneDetermination /\ ComplianceFollows)'
  BY <1>9 DEF LogCheck, Goto, TypeOK, OneDetermination, ComplianceFollows, DetermineCompliance
<1>10. ASSUME NEW r \in Requests, Fail(r) PROVE (OneDetermination /\ ComplianceFollows)'
  BY <1>10 DEF Fail, Forget, Goto, TypeOK, OneDetermination, ComplianceFollows, DetermineCompliance
<1>11. CASE UNCHANGED vars
  BY <1>11 DEF vars, request, OneDetermination, ComplianceFollows, DetermineCompliance
<1>12. QED
  BY <1>1, <1>2, <1>3, <1>4, <1>5, <1>6, <1>7, <1>8, <1>9, <1>10, <1>11 DEF Next

\* A check that commits has read the profile on file, and a save that makes a determination
\* stale is dated later, unless they overlapped.
LEMMA StaleKept ==
  ASSUME TypeOK, Dates, ReadHolds, StaleIsNoticed, [Next]_vars
  PROVE  StaleIsNoticed'
<1>1. ASSUME NEW r \in Requests, BeginSave(r) PROVE StaleIsNoticed'
  BY <1>1 DEF BeginSave, Begin, Goto, TypeOK, StaleIsNoticed, Current, Evaluate
<1>2. ASSUME NEW r \in Requests, SaveNothing(r) PROVE StaleIsNoticed'
  BY <1>2, DatesAreNumbers DEF SaveNothing, Goto, StaleIsNoticed, Current, Evaluate
<1>3. ASSUME NEW r \in Requests, Save(r) PROVE StaleIsNoticed'
  <2> SUFFICES ASSUME NEW t \in Type, exemptions[t].by \notin overlapped' \cup {NoCheck},
                      exemptions[t].determined_at >= user'.updated_at
               PROVE  FALSE
    BY <1>3 DEF Save, StaleIsNoticed, Current
  <2>1. user'.updated_at = started[r] /\ overlapped' = overlapped \cup Overlapping(r)
    BY <1>3 DEF Save
  <2>2. exemptions[t].by \in Requests
    BY DEF TypeOK
  <2>3. ~(exemptions[t].determined_at > started[r])
    BY <2>1, <2>2 DEF Overlapping
  <2>4. exemptions[t].determined_at # started[r]
    BY <1>3 DEF Save, Dates
  <2>5. QED
    BY <2>1, <2>3, <2>4, DatesAreNumbers
<1>4. ASSUME NEW r \in Requests, ChangeMfa(r) PROVE StaleIsNoticed'
  BY <1>4, DatesAreNumbers, BeginDates DEF ChangeMfa, Goto, StaleIsNoticed, Current, Dates
<1>5. ASSUME NEW r \in Requests, ReadProfile(r) PROVE StaleIsNoticed'
  BY <1>5 DEF ReadProfile, Goto, TypeOK, StaleIsNoticed, Current, Evaluate
<1>6. ASSUME NEW r \in Requests, BeginCheck(r) PROVE StaleIsNoticed'
  BY <1>6 DEF BeginCheck, Begin, Goto, TypeOK, StaleIsNoticed, Current, Evaluate
<1>7. ASSUME NEW r \in Requests, Upsert(r) PROVE StaleIsNoticed'
  BY <1>7 DEF Upsert, TypeOK, StaleIsNoticed, Current, Evaluate
<1>8. ASSUME NEW r \in Requests, CommitCheck(r) PROVE StaleIsNoticed'
  BY <1>8, ChangesAssumption DEF CommitCheck, Forget, Goto, Determined, TypeOK, StaleIsNoticed, Current, Evaluate, ReadHolds
<1>9. ASSUME NEW r \in Requests, LogCheck(r) PROVE StaleIsNoticed'
  BY <1>9 DEF LogCheck, Goto, TypeOK, StaleIsNoticed, Current, Evaluate
<1>10. ASSUME NEW r \in Requests, Fail(r) PROVE StaleIsNoticed'
  BY <1>10 DEF Fail, Forget, Goto, TypeOK, StaleIsNoticed, Current, Evaluate
<1>11. CASE UNCHANGED vars
  BY <1>11 DEF vars, request, StaleIsNoticed, Current, Evaluate
<1>12. QED
  BY <1>1, <1>2, <1>3, <1>4, <1>5, <1>6, <1>7, <1>8, <1>9, <1>10, <1>11 DEF Next
-----------------------------------------------------------------------------
\* At first nothing is on file and no call has begun.
LEMMA Start == Init => IInv
<1> SUFFICES ASSUME Init PROVE IInv
  OBVIOUS
<1>1. TypeOK
  <2>1. user \in [profile : Profile, updated_at : Nat,
                  compliance_status : {"Ineligible", "Eligible", "Pending Review"}]
    BY EmptyIsProfile DEF Init
  <2>2. exemptions \in [Type -> [status : {"none", "Eligible", "Pending Review", "Not Eligible"},
                                 determined_at : Int, by : Requests \cup {NoCheck}]]
    <3>1. -1 \in Int
      OBVIOUS
    <3>2. [status |-> "none", determined_at |-> -1, by |-> NoCheck]
            \in [status : {"none", "Eligible", "Pending Review", "Not Eligible"},
                 determined_at : Int, by : Requests \cup {NoCheck}]
      BY <3>1
    <3>3. QED
      BY <3>2 DEF Init
  <2>3. read \in [Requests -> Profile]
    BY EmptyIsProfile DEF Init
  <2>4. QED
    BY <2>1, <2>2, <2>3 DEF Init, TypeOK, Stage
<1>2. Dates
  <2>1. clock = 0 /\ user.updated_at = 0 /\ \A t \in Type : exemptions[t].determined_at = -1
    BY DEF Init
  <2>2. \A r \in Requests : started[r] = 0 /\ pc[r] = "idle"
    BY DEF Init
  <2>3. QED
    BY <2>1, <2>2 DEF Dates
<1>3. ReadHolds
  BY DEF Init, ReadHolds
<1>4. OneDetermination
  BY DEF Init, OneDetermination
<1>5. ComplianceFollows
  <2>1. user.profile.phone = FALSE /\ user.compliance_status = "Pending Review"
    BY DEF Init, Empty
  <2>2. ~(Age < 18)
    BY ChangesAssumption
  <2>3. QED
    BY <2>1, <2>2 DEF ComplianceFollows, DetermineCompliance
<1>6. StaleIsNoticed
  BY DEF Init, StaleIsNoticed
<1>7. QED
  BY <1>1, <1>2, <1>3, <1>4, <1>5, <1>6 DEF IInv

\* The inductive invariant: dates differ, and a check that no save has overlapped has read
\* the profile on file (Eligibility's three transactions: save, check, two-step verification).
THEOREM DatedApart == Spec => []IInv
<1>1. IInv /\ [Next]_vars => IInv'
  BY TypesKept, DatesKept, ReadsKept, FilesKept, StaleKept DEF IInv
<1>2. QED
  BY Start, <1>1, PTL DEF Spec

\* Every variable keeps its type, for any calls and changes (users, exemptions).
THEOREM EligibilityTypes == Spec => []TypeOK
<1>1. IInv => TypeOK
  BY DEF IInv
<1>2. QED
  BY DatedApart, <1>1, PTL

\* The exemptions on file are one determination and the status follows from the whole
\* profile, however many saves and checks overlap (runEligibilityCheck, updateUserProfile).
THEOREM FilesAlwaysAgree == Spec => []FilesAgree
<1>1. IInv => FilesAgree
  BY DEF IInv, FilesAgree
<1>2. QED
  BY DatedApart, <1>1, PTL

\* A determination that no longer is that of the profile is dated before it, unless its
\* check overlapped the save (exemptionService.ts:129), for any number of calls.
THEOREM StaleAlwaysNoticed == Spec => []StaleIsNoticed
<1>1. IInv => StaleIsNoticed
  BY DEF IInv
<1>2. QED
  BY DatedApart, <1>1, PTL
-----------------------------------------------------------------------------
(* Questions and reviews *)

Statuses == {"none", "pending", "with-staff", "reviewed", "error"} \cup Rateable
Stages   == {"idle", "queued", "locked", "refused", "reserved", "stored", "answered", "failed"} \cup Modes
RowType  == [status : Statuses, mode : Modes, draft : BOOLEAN, personal : BOOLEAN, grounded : BOOLEAN,
             reviewer : Staff \cup {Nobody}, outcome : Outcomes \cup {"none"}]
ReviewType == [stage : {"idle", "locked", "logged"}, of : Exchanges \cup {Nobody},
               outcome : Outcomes \cup {"none"}]

\* The type invariant, by what a step changes together.
AskTyped == /\ now \in Nat /\ lock \in Exchanges \cup {Nobody} /\ ask \in [Exchanges -> Stages]
            /\ asker \in [Exchanges -> People \cup {Nobody}] /\ began \in [Exchanges -> Nat]
RowTyped == row \in [Exchanges -> RowType]
ReviewTyped == /\ held \in [Exchanges -> Staff \cup {Nobody}] /\ rating \in [Exchanges -> BOOLEAN]
               /\ review \in [Staff -> ReviewType]
ToldTyped == told \subseteq Staff \X Exchanges \X Outcomes

\* Together they are the type invariant.
LEMMA AssistantTypes == AssistantTypeOK <=> AskTyped /\ RowTyped /\ ReviewTyped /\ ToldTyped
  BY DEF AssistantTypeOK, AskTyped, RowTyped, ReviewTyped, ToldTyped, Statuses, Stages, RowType, ReviewType

Unasked == {"idle", "queued", "locked", "refused"} \cup Modes
\* From the lock to the COMMIT the request holds it.
Locked == \A e \in Exchanges : ask[e] \in {"locked"} \cup Modes => lock = e
\* There is a row from the COMMIT on, of somebody who has asked.
Asked  == \A e \in Exchanges :
            /\ ask[e] \in Unasked => row[e].status = "none"
            /\ ask[e] = "reserved" => row[e].status = "pending"
            /\ ask[e] \in {"stored", "answered"} => row[e].status # "none"
            /\ row[e].status = "none" => row[e] = NoRow
            /\ ask[e] # "idle" => asker[e] \in People
\* The row a reviewer holds stays as it was checked: withheld, of another person, and with a draft
\* where it is to be approved.
Holding == \A s \in Staff : review[s].stage # "idle" =>
             LET e == review[s].of
             IN  /\ e \in Exchanges /\ held[e] = s
                 /\ row[e].status = "with-staff" /\ asker[e] # s
                 /\ review[s].outcome \in Outcomes
                 /\ review[s].outcome = "approved" => row[e].draft
\* A draft that is shown is grounded and of a question that is not personal.
Shown  == \A e \in Exchanges :
            row[e].status \in Rateable /\ row[e].draft => ~row[e].personal /\ row[e].grounded
\* What is reviewed was closed by somebody else, as the checks of the review allowed.
Closed == \A e \in Exchanges : row[e].status = "reviewed" =>
            /\ row[e].reviewer \in Staff \ {asker[e]} /\ row[e].outcome \in Outcomes
            /\ row[e].outcome = "approved" => row[e].draft
QuestionsInv == AskTyped /\ RowTyped /\ ReviewTyped /\ ToldTyped /\ Locked /\ Asked /\ Holding /\ Shown /\ Closed /\ ReviewsHold

\* What stands for no row has the type of one.
LEMMA NoRowTyped == NoRow \in RowType
  BY DEF NoRow, RowType, Statuses, Modes

\* At first nobody has asked anything.
LEMMA QuestionsInit == AssistantInit => QuestionsInv
<1> SUFFICES ASSUME AssistantInit PROVE QuestionsInv
  OBVIOUS
<1>1. AskTyped  BY DEF AssistantInit, AskTyped, Stages
<1>2. RowTyped  BY NoRowTyped DEF AssistantInit, RowTyped
<1>3. ReviewTyped  BY DEF AssistantInit, ReviewTyped, ReviewType, Idle
<1>4. ToldTyped /\ Locked /\ ReviewsHold  BY DEF AssistantInit, ToldTyped, Locked, ReviewsHold, Modes
<1>5. Asked /\ Shown /\ Closed  BY DEF AssistantInit, Asked, Shown, Closed, NoRow, Rateable
<1>6. Holding  BY DEF AssistantInit, Holding, Idle
<1> QED BY <1>1, <1>2, <1>3, <1>4, <1>5, <1>6 DEF QuestionsInv

\* What a question's answer can be.
LEMMA ProduceFacts ==
  ASSUME NEW personal \in BOOLEAN, NEW mode \in Modes, NEW found \in BOOLEAN,
         NEW outcome \in {"unavailable", "declined", "no-answer", "grounded", "ungrounded"}
  PROVE  /\ Produce(personal, mode, found, outcome).mode \in {mode, "passages-only"}
         /\ Produce(personal, mode, found, outcome).status \in {"with-staff"} \cup Rateable
         /\ Produce(personal, mode, found, outcome) \in
              [mode : Modes, status : Statuses, draft : BOOLEAN, grounded : BOOLEAN]
         /\ (/\ Produce(personal, mode, found, outcome).status \in Rateable
             /\ Produce(personal, mode, found, outcome).draft)
            => ~personal /\ Produce(personal, mode, found, outcome).grounded
  BY DEF Produce, NoAnswer, WithoutAnswer, Produced, LevelFor, Rateable, Modes, Statuses

\* What becomes of the row of a reserved question.
LEMMA StoredRow ==
  ASSUME QuestionsInv, NEW e \in Exchanges, StoreAnswer(e)
  PROVE  \E r \in RowType :
           /\ row' = [row EXCEPT ![e] = r]
           /\ r.status \in {"with-staff"} \cup Rateable /\ r.mode \in {row[e].mode, "passages-only"}
           /\ r.reviewer = row[e].reviewer
           /\ r.status \in Rateable /\ r.draft => ~r.personal /\ r.grounded
<1>1. PICK found \in BOOLEAN, outcome \in {"unavailable", "declined", "no-answer", "grounded", "ungrounded"} :
        LET p == Produce(row[e].personal, row[e].mode, found, outcome)
        IN  row' = [row EXCEPT ![e].mode = p.mode, ![e].status = p.status,
                               ![e].draft = p.draft, ![e].grounded = p.grounded]
  BY DEF StoreAnswer
<1>2. row[e] \in RowType  BY DEF QuestionsInv, RowTyped
<1> DEFINE p == Produce(row[e].personal, row[e].mode, found, outcome)
           r == [row[e] EXCEPT !.mode = p.mode, !.status = p.status, !.draft = p.draft, !.grounded = p.grounded]
<1>3. /\ p.mode \in {row[e].mode, "passages-only"} /\ p.status \in {"with-staff"} \cup Rateable
      /\ p.draft \in BOOLEAN /\ p.grounded \in BOOLEAN
      /\ p.status \in Rateable /\ p.draft => ~row[e].personal /\ p.grounded
  <2>1. row[e].personal \in BOOLEAN /\ row[e].mode \in Modes  BY <1>2 DEF RowType
  <2>2. p.mode \in {row[e].mode, "passages-only"}  BY <2>1, ProduceFacts
  <2>4. p.status \in {"with-staff"} \cup Rateable  BY <2>1, ProduceFacts
  <2>5. p \in [mode : Modes, status : Statuses, draft : BOOLEAN, grounded : BOOLEAN]
    BY <2>1, ProduceFacts
  <2>3. p.status \in Rateable /\ p.draft => ~row[e].personal /\ p.grounded
    BY <2>1, ProduceFacts, Zenon
  <2> QED BY <2>2, <2>3, <2>4, <2>5
<1>4. row' = [row EXCEPT ![e] = r]  BY <1>1
<1> HIDE DEF p
<1>5. r \in RowType  BY <1>2, <1>3 DEF RowType, Statuses, Modes, Rateable
<1>6. /\ r.status = p.status /\ r.mode = p.mode /\ r.draft = p.draft /\ r.grounded = p.grounded
      /\ r.personal = row[e].personal /\ r.reviewer = row[e].reviewer
  BY <1>2 DEF RowType
<1> HIDE DEF r
<1>7. r.status \in Rateable /\ r.draft => ~r.personal /\ r.grounded  BY <1>3, <1>6
<1> QED BY <1>3, <1>4, <1>5, <1>6, <1>7

\* The steps of the request that write no row.
LEMMA AskSteps ==
  ASSUME QuestionsInv, NEW e \in Exchanges,
         (\E p \in People : BeginAsk(e, p)) \/ TakeLock(e) \/ CountAsks(e) \/ FailReserve(e) \/ LogAnswer(e)
           \/ LeaveAsk(e)
  PROVE  QuestionsInv'
<1> USE PeopleAssumption DEF QuestionsInv
<1>1. UNCHANGED <<now, row, held, rating, review, told>>
  BY DEF BeginAsk, TakeLock, CountAsks, FailReserve, LogAnswer, LeaveAsk
<1>2. AskTyped' /\ Locked' /\ Asked' /\ (\A q \in Exchanges : ask[q] # "idle" => asker'[q] = asker[q])
      /\ (\A q \in Exchanges : ask[q] = "failed" => ask'[q] = "failed")
  <2> USE DEF AskTyped, Proceed, Release, Stages
  <2>1. CASE \E p \in People : BeginAsk(e, p)
    BY <2>1, <1>1 DEF BeginAsk, Locked, Asked, Unasked, Modes
  <2>2. CASE TakeLock(e)     BY <2>2, <1>1 DEF TakeLock, Locked, Asked, Unasked, Modes
  <2>3. CASE CountAsks(e)
    <3>1. CASE Cardinality(Hourly(asker[e], began[e])) >= HOURLY_LIMIT
      BY <2>3, <3>1, <1>1 DEF CountAsks, Locked, Asked, Unasked, Modes
    <3>2. CASE ~(Cardinality(Hourly(asker[e], began[e])) >= HOURLY_LIMIT)
      <4>1. ModeFor(e) \in Modes  BY ModeAssumption DEF ModeFor, Modes
      <4>2. ask' = [ask EXCEPT ![e] = ModeFor(e)] /\ UNCHANGED <<now, lock, asker, began, row>> /\ ask[e] = "locked"
        BY <2>3, <3>2 DEF CountAsks
      <4> QED BY <4>1, <4>2 DEF Locked, Asked, Unasked, Modes
    <3> QED BY <3>1, <3>2
  <2>4. CASE FailReserve(e)  BY <2>4, <1>1 DEF FailReserve, Locked, Asked, Unasked, Modes
  <2>5. CASE LogAnswer(e)    BY <2>5, <1>1 DEF LogAnswer, Locked, Asked, Unasked, Modes
  <2>6. CASE LeaveAsk(e)     BY <2>6, <1>1 DEF LeaveAsk, Locked, Asked, Unasked, Modes
  <2> QED BY <2>1, <2>2, <2>3, <2>4, <2>5, <2>6
<1>3. \A q \in Exchanges : row[q].status # "none" => asker'[q] = asker[q]
  BY <1>2 DEF Asked, Unasked
<1>4. RowTyped' /\ ReviewTyped' /\ ToldTyped' /\ Shown'
  BY <1>1 DEF RowTyped, ReviewTyped, ToldTyped, Shown
<1>5. Holding'  BY <1>1, <1>3 DEF Holding
<1>6. Closed'   BY <1>1, <1>3 DEF Closed
<1>7. ReviewsHold'  BY <1>1, <1>2 DEF ReviewsHold, ToldTyped
<1> QED BY <1>2, <1>4, <1>5, <1>6, <1>7

\* A row that nobody's review holds gets another content: what the steps of the request and of
\* feedback have in common.
LEMMA RowSteps ==
  ASSUME QuestionsInv, NEW e \in Exchanges, NEW r \in RowType,
         row[e].status \notin {"with-staff", "reviewed"} \/ (ask'[e] = "failed" /\ held[e] = Nobody),
         row' = [row EXCEPT ![e] = r], r.status \notin {"none", "reviewed"},
         r.status \in Rateable /\ r.draft => ~r.personal /\ r.grounded,
         UNCHANGED <<asker, held, review, told>>,
         \A q \in Exchanges : ask[q] = "failed" => ask'[q] = "failed"
  PROVE  RowTyped' /\ Holding' /\ Shown' /\ Closed' /\ ReviewsHold'
<1> USE DEF QuestionsInv
<1>1. RowTyped' /\ \A q \in Exchanges : row'[q] = IF q = e THEN r ELSE row[q]  BY DEF RowTyped
<1>2. \A s \in Staff : review[s].stage # "idle" => review[s].of # e
  BY PeopleAssumption DEF Holding
<1>3. Holding'  BY <1>1, <1>2 DEF Holding
<1>4. Shown'    BY <1>1 DEF Shown
<1>5. Closed'   BY <1>1 DEF Closed
<1>6. ReviewsHold'
  <2> SUFFICES ASSUME NEW t \in told
               PROVE  \/ row'[t[2]].status = "reviewed" /\ row'[t[2]].reviewer = t[1] /\ row'[t[2]].outcome = t[3]
                      \/ ask'[t[2]] = "failed"
    BY DEF ReviewsHold
  <2>1. t[2] \in Exchanges  BY DEF ToldTyped
  <2>2. CASE t[2] = e  BY <2>1, <2>2 DEF ReviewsHold
  <2>3. CASE t[2] # e  BY <1>1, <2>1, <2>3 DEF ReviewsHold
  <2> QED BY <2>2, <2>3
<1> QED BY <1>1, <1>3, <1>4, <1>5, <1>6

\* The steps of the request that write its row: the catch may do so whatever the row has become.
LEMMA RequestSteps ==
  ASSUME QuestionsInv, NEW e \in Exchanges, CommitReserve(e) \/ StoreAnswer(e) \/ FailAsk(e)
  PROVE  QuestionsInv'
<1> USE DEF QuestionsInv
<1>1. CASE CommitReserve(e)
  <2>1. PICK personal \in BOOLEAN :
          row' = [row EXCEPT ![e] = [NoRow EXCEPT !.status = "pending", !.mode = ask[e], !.personal = personal]]
    BY <1>1 DEF CommitReserve
  <2> DEFINE r == [NoRow EXCEPT !.status = "pending", !.mode = ask[e], !.personal = personal]
  <2>2. r \in RowType /\ r.status = "pending"
    BY <1>1, NoRowTyped DEF CommitReserve, RowType, Statuses, NoRow
  <2>3. row[e].status = "none"  BY <1>1 DEF CommitReserve, Asked, Unasked
  <2>4. /\ ask' = [ask EXCEPT ![e] = "reserved"] /\ lock' = (IF lock = e THEN Nobody ELSE lock)
        /\ UNCHANGED <<now, asker, began, held, rating, review, told>> /\ ask[e] \in Modes
    BY <1>1 DEF CommitReserve, Proceed, Release
  <2>5. row' = [row EXCEPT ![e] = r]  BY <2>1
  <2> HIDE DEF r
  <2>6. RowTyped' /\ Holding' /\ Shown' /\ Closed' /\ ReviewsHold'
    BY <2>2, <2>3, <2>4, <2>5, RowSteps DEF AskTyped, Rateable, Modes
  <2>7. AskTyped' /\ Locked'  BY <2>4 DEF AskTyped, Stages, Locked, Modes
  <2>8. Asked'  BY <2>2, <2>4, <2>5 DEF Asked, Unasked, Modes, AskTyped, RowTyped
  <2>9. ReviewTyped' /\ ToldTyped'  BY <2>4 DEF ReviewTyped, ToldTyped
  <2> QED BY <2>6, <2>7, <2>8, <2>9
<1>2. CASE StoreAnswer(e)
  <2>1. PICK r \in RowType :
         /\ row' = [row EXCEPT ![e] = r]
         /\ r.status \in {"with-staff"} \cup Rateable
         /\ r.status \in Rateable /\ r.draft => ~r.personal /\ r.grounded
    BY <1>2, StoredRow
  <2>2. row[e].status = "pending"  BY <1>2 DEF StoreAnswer, Asked
  <2>3. /\ ask' = [ask EXCEPT ![e] = "stored"] /\ ask[e] = "reserved"
        /\ UNCHANGED <<now, lock, asker, began, held, rating, review, told>>
    BY <1>2 DEF StoreAnswer, Proceed
  <2>4. RowTyped' /\ Holding' /\ Shown' /\ Closed' /\ ReviewsHold'
    BY <2>1, <2>2, <2>3, RowSteps DEF AskTyped, Rateable
  <2>5. AskTyped' /\ Locked'  BY <2>3 DEF AskTyped, Stages, Locked, Modes
  <2>6. Asked'  BY <2>1, <2>3 DEF Asked, Unasked, Modes, AskTyped, RowTyped, Rateable
  <2>7. ReviewTyped' /\ ToldTyped'  BY <2>3 DEF ReviewTyped, ToldTyped
  <2> QED BY <2>4, <2>5, <2>6, <2>7
<1>3. CASE FailAsk(e)
  <2> DEFINE r == [row[e] EXCEPT !.status = "error"]
  <2>1. r \in RowType /\ r.status = "error"  BY DEF RowTyped, RowType, Statuses
  <2>2. /\ ask' = [ask EXCEPT ![e] = "failed"] /\ ask[e] \in {"reserved", "stored"} /\ held[e] = Nobody
        /\ UNCHANGED <<now, lock, asker, began, held, rating, review, told>> /\ row' = [row EXCEPT ![e] = r]
    BY <1>3 DEF FailAsk, Proceed
  <2> HIDE DEF r
  <2>3. RowTyped' /\ Holding' /\ Shown' /\ Closed' /\ ReviewsHold'
    BY <2>1, <2>2, RowSteps DEF AskTyped, Rateable
  <2>4. AskTyped' /\ Locked'  BY <2>2 DEF AskTyped, Stages, Locked, Modes
  <2>5. Asked'  BY <2>1, <2>2 DEF Asked, Unasked, Modes, AskTyped, RowTyped
  <2>6. ReviewTyped' /\ ToldTyped'  BY <2>2 DEF ReviewTyped, ToldTyped
  <2> QED BY <2>3, <2>4, <2>5, <2>6
<1> QED BY <1>1, <1>2, <1>3

\* The UPDATE of the feedback asks for the status again, so it finds no row that is held.
LEMMA FeedbackSteps ==
  ASSUME QuestionsInv, NEW e \in Exchanges, SubmitFeedback(e)
  PROVE  QuestionsInv'
<1> USE DEF QuestionsInv
<1>1. UNCHANGED <<now, asking, held, review, told>>  BY DEF SubmitFeedback, BeginFeedback, RecordFeedback
<1>2. rating' \in [Exchanges -> BOOLEAN]
  BY DEF SubmitFeedback, BeginFeedback, RecordFeedback, ReviewTyped
<1>3. AskTyped' /\ ReviewTyped' /\ ToldTyped' /\ Locked'
  BY <1>1, <1>2 DEF asking, AskTyped, ReviewTyped, ToldTyped, Locked
<1>4. ASSUME UNCHANGED row PROVE QuestionsInv'
  BY <1>1, <1>3, <1>4 DEF asking, RowTyped, Asked, Holding, Shown, Closed, ReviewsHold
<1>5. ASSUME NEW given \in Ratings, RecordFeedback(e, given), row[e].status \in Rateable
      PROVE QuestionsInv'
  <2> DEFINE r == [row[e] EXCEPT !.status = Reported(e, given)]
  <2>0. row[e] \in RowType  BY DEF RowTyped
  <2>1. r \in RowType /\ r.status \in {"with-staff", row[e].status}
        /\ r.draft = row[e].draft /\ r.personal = row[e].personal /\ r.grounded = row[e].grounded
    BY <2>0 DEF Reported, RowType, Statuses
  <2>2. row' = [row EXCEPT ![e] = r]  BY <1>5 DEF RecordFeedback
  <2> HIDE DEF r
  <2>3. r.status \in Rateable /\ r.draft => ~r.personal /\ r.grounded  BY <1>5, <2>1 DEF Shown
  <2>4. RowTyped' /\ Holding' /\ Shown' /\ Closed' /\ ReviewsHold'
    BY <1>1, <1>5, <2>1, <2>2, <2>3, RowSteps DEF asking, Rateable
  <2>5. Asked'  BY <1>1, <1>5, <2>1, <2>2 DEF asking, Asked, Unasked, Modes, RowTyped, Rateable
  <2> QED BY <1>3, <2>4, <2>5
<1> QED BY <1>4, <1>5 DEF SubmitFeedback, BeginFeedback, RecordFeedback

\* A review takes a row that nobody holds, and gives it back closed or as it was.
LEMMA ReviewSteps ==
  ASSUME QuestionsInv, NEW s \in Staff, ReviewExchange(s)
  PROVE  QuestionsInv'
<1> USE PeopleAssumption DEF QuestionsInv
<1>1. UNCHANGED <<now, asking, rating>>
  BY DEF ReviewExchange, LockExchange, LogReview, CommitReview, FailReview
<1>2. AskTyped' /\ Locked'  BY <1>1 DEF asking, AskTyped, Locked
<1>3. ASSUME UNCHANGED <<row, told>>
      PROVE  RowTyped' /\ ToldTyped' /\ Asked' /\ Shown' /\ Closed' /\ ReviewsHold'
  BY <1>1, <1>3 DEF asking, RowTyped, ToldTyped, Asked, Shown, Closed, ReviewsHold
<1>4. ASSUME NEW e \in Exchanges, NEW outcome \in Outcomes, LockExchange(s, e, outcome) PROVE QuestionsInv'
  <2> DEFINE new == [stage |-> "locked", of |-> e, outcome |-> outcome]
  <2>1. new \in ReviewType  BY DEF ReviewType
  <2>2. /\ review' = [review EXCEPT ![s] = new] /\ held' = [held EXCEPT ![e] = s] /\ held[e] = Nobody
        /\ MayReview(s, e, outcome) /\ UNCHANGED <<row, told>>
    BY <1>4 DEF LockExchange
  <2>3. ReviewTyped'  BY <1>1, <2>1, <2>2 DEF ReviewTyped
  <2>4. Holding'
    <3> SUFFICES ASSUME NEW q \in Staff, review'[q].stage # "idle"
                 PROVE  LET d == review'[q].of
                        IN  /\ d \in Exchanges /\ held'[d] = q
                            /\ row'[d].status = "with-staff" /\ asker'[d] # q
                            /\ review'[q].outcome \in Outcomes
                            /\ review'[q].outcome = "approved" => row'[d].draft
      BY DEF Holding
    <3>1. CASE q = s  BY <1>1, <2>2, <3>1 DEF asking, ReviewTyped, MayReview
    <3>2. CASE q # s
      <4>1. review'[q] = review[q]  BY <2>2, <3>2 DEF ReviewTyped
      <4>2. review[q].of # e  BY <2>2, <4>1 DEF Holding
      <4> QED BY <1>1, <2>2, <4>1, <4>2 DEF asking, ReviewTyped, Holding
    <3> QED BY <3>1, <3>2
  <2> QED BY <1>2, <1>3, <2>2, <2>3, <2>4
<1>5. CASE LogReview(s)
  <2>1. ReviewTyped'  BY <1>1, <1>5 DEF LogReview, ReviewTyped, ReviewType
  <2>2. \A q \in Staff : /\ review'[q].of = review[q].of /\ review'[q].outcome = review[q].outcome
                         /\ review'[q].stage # "idle" => review[q].stage # "idle"
    BY <1>5 DEF LogReview, ReviewTyped, ReviewType
  <2>3. Holding'  BY <1>1, <1>5, <2>2 DEF LogReview, asking, Holding
  <2> QED BY <1>2, <1>3, <1>5, <2>1, <2>3 DEF LogReview
<1>6. ASSUME EndReview(s)
      PROVE  /\ ReviewTyped'
             /\ \A q \in Staff : review'[q].stage # "idle" =>
                  q # s /\ review'[q] = review[q] /\ held'[review[q].of] = held[review[q].of]
  <2>1. Idle \in ReviewType /\ Idle.stage = "idle"  BY DEF Idle, ReviewType
  <2>2. ReviewTyped'  BY <1>1, <1>6, <2>1 DEF EndReview, ReviewTyped
  <2>3. \A q \in Staff : review'[q] = IF q = s THEN Idle ELSE review[q]  BY <1>6 DEF EndReview, ReviewTyped
  <2> QED BY <1>6, <2>1, <2>2, <2>3 DEF EndReview, Holding
<1>7. CASE FailReview(s)
  <2>1. Holding'  BY <1>1, <1>6, <1>7 DEF FailReview, asking, Holding
  <2> QED BY <1>2, <1>3, <1>6, <1>7, <2>1 DEF FailReview
<1>8. CASE CommitReview(s)
  <2> DEFINE e == review[s].of
             o == review[s].outcome
             r == [row[e] EXCEPT !.status = "reviewed", !.reviewer = s, !.outcome = o]
  <2>1. /\ e \in Exchanges /\ held[e] = s /\ row[e].status = "with-staff" /\ asker[e] # s /\ o \in Outcomes
        /\ o = "approved" => row[e].draft
    BY <1>8 DEF CommitReview, Holding
  <2>2. row[e] \in RowType  BY <2>1 DEF RowTyped
  <2>3. r \in RowType /\ r.status = "reviewed" /\ r.reviewer = s /\ r.outcome = o /\ r.draft = row[e].draft
    BY <2>1, <2>2 DEF RowType, Statuses
  <2>4. row' = [row EXCEPT ![e] = r] /\ told' = told \cup {<<s, e, o>>} /\ EndReview(s)
    BY <1>8 DEF CommitReview, Subject
  <2> HIDE DEF e, o, r
  <2>5. RowTyped' /\ \A q \in Exchanges : row'[q] = IF q = e THEN r ELSE row[q]  BY <2>3, <2>4 DEF RowTyped
  <2>6. ToldTyped'  BY <2>1, <2>4 DEF ToldTyped
  <2>7. Asked'  BY <1>1, <2>1, <2>3, <2>5 DEF asking, Asked, Unasked, Modes
  <2>8. Shown' BY <2>3, <2>5 DEF Shown, Rateable
  <2>9. Closed'  BY <1>1, <2>1, <2>3, <2>5 DEF asking, Closed
  <2>10. ReviewsHold'
    <3> SUFFICES ASSUME NEW t \in told'
                 PROVE  \/ row'[t[2]].status = "reviewed" /\ row'[t[2]].reviewer = t[1] /\ row'[t[2]].outcome = t[3]
                        \/ ask'[t[2]] = "failed"
      BY DEF ReviewsHold
    <3>1. CASE t = <<s, e, o>>  BY <2>1, <2>3, <2>5, <3>1
    <3>2. CASE t \in told
      <4>1. t[2] \in Exchanges  BY <3>2 DEF ToldTyped
      <4>2. CASE ask[t[2]] = "failed"  BY <1>1, <4>2 DEF asking
      <4>3. CASE ask[t[2]] # "failed"
        <5>1. row[t[2]].status = "reviewed" /\ row[t[2]].reviewer = t[1] /\ row[t[2]].outcome = t[3]
          BY <3>2, <4>3 DEF ReviewsHold
        <5> QED BY <2>1, <2>5, <4>1, <5>1
      <4> QED BY <4>2, <4>3
    <3> QED BY <2>4, <3>1, <3>2
  <2>11. Holding'
    <3> SUFFICES ASSUME NEW q \in Staff, review'[q].stage # "idle"
                 PROVE  LET d == review'[q].of
                        IN  /\ d \in Exchanges /\ held'[d] = q
                            /\ row'[d].status = "with-staff" /\ asker'[d] # q
                            /\ review'[q].outcome \in Outcomes
                            /\ review'[q].outcome = "approved" => row'[d].draft
      BY DEF Holding
    <3>1. q # s /\ review'[q] = review[q] /\ held'[review[q].of] = held[review[q].of]  BY <1>6, <2>4
    <3>2. review[q].of \in Exchanges /\ held[review[q].of] = q  BY <3>1 DEF Holding
    <3>3. review[q].of # e  BY <2>1, <3>1, <3>2
    <3> QED BY <1>1, <2>5, <3>1, <3>2, <3>3 DEF asking, Holding
  <2> QED BY <1>2, <1>6, <2>4, <2>5, <2>6, <2>7, <2>8, <2>9, <2>10, <2>11
<1> QED BY <1>4, <1>5, <1>7, <1>8 DEF ReviewExchange

\* Every step of the assistant keeps the invariant.
LEMMA QuestionsStep == QuestionsInv /\ [AssistantNext]_assistantVars => QuestionsInv'
<1> SUFFICES ASSUME QuestionsInv, [AssistantNext]_assistantVars PROVE QuestionsInv'
  OBVIOUS
<1>1. ASSUME UNCHANGED <<asking, row, held, rating, review, told>>, now' \in Nat PROVE QuestionsInv'
  BY <1>1 DEF QuestionsInv, asking, AskTyped, RowTyped, ReviewTyped, ToldTyped, Locked, Asked, Holding, Shown,
     Closed, ReviewsHold
<1>2. CASE Tick  BY <1>1, <1>2 DEF Tick, QuestionsInv, AskTyped
<1>3. CASE UNCHANGED assistantVars  BY <1>1, <1>3 DEF assistantVars, QuestionsInv, AskTyped
<1>4. ASSUME NEW e \in Exchanges, AskAssistant(e) PROVE QuestionsInv'
  BY <1>4, AskSteps, RequestSteps DEF AskAssistant, ReserveAsk
<1> QED BY <1>2, <1>3, <1>4, FeedbackSteps, ReviewSteps DEF AssistantNext

\* Requests, feedback and reviews of the same question keep out of each other's way (askAssistant,
\* submitFeedback, reviewExchange).
THEOREM QuestionsInvariant == AssistantSpec => []QuestionsInv
  BY QuestionsInit, QuestionsStep, PTL DEF AssistantSpec

\* Every variable of the assistant keeps its type.
THEOREM AssistantTyped == AssistantSpec => []AssistantTypeOK
<1>1. QuestionsInv => AssistantTypeOK  BY AssistantTypes DEF QuestionsInv
<1> QED BY <1>1, QuestionsInvariant, PTL

\* No asker sees a draft that could not be grounded, or answers a personal question, before another
\* person, a case manager, has approved it (levelFor, reviewExchange, getHistory).
THEOREM WithheldAnswersUnseen == AssistantSpec => []WithheldUnseen
<1>1. QuestionsInv => WithheldUnseen
  <2> SUFFICES ASSUME QuestionsInv, NEW e \in Exchanges, HistoryAnswer(e) = "draft",
                      row[e].personal \/ ~row[e].grounded
               PROVE  row[e].outcome = "approved" /\ row[e].reviewer \in Staff \ {asker[e]}
    BY DEF WithheldUnseen
  <2>1. ~(row[e].status = "shown" /\ row[e].draft)  BY DEF QuestionsInv, Shown, Rateable
  <2>2. row[e].status = "reviewed" /\ row[e].outcome = "approved"  BY <2>1 DEF HistoryAnswer
  <2> QED BY <2>2 DEF QuestionsInv, Closed
<1> QED BY <1>1, QuestionsInvariant, PTL

\* A notified review stays as it was told, against late feedback and other reviews, but for the
\* catch of the question's own request (submitFeedback, reviewExchange, askAssistant).
THEOREM ReviewsStandAsTold == AssistantSpec => []ReviewsHold
<1>1. QuestionsInv => ReviewsHold  BY DEF QuestionsInv
<1> QED BY <1>1, QuestionsInvariant, PTL
-----------------------------------------------------------------------------
(* The limits *)

\* Who has counted and not yet inserted found room, by the lock nobody has used it up since; and
\* of every hour and day, whenever it ends, no more was inserted than its limit.
Generated == {"ai", "stub"}
Window(p, t) == {q \in Hourly(p, t) : began[q] <= t}
Counted  == \A e \in Exchanges :
              /\ ask[e] \in Modes => Cardinality(Hourly(asker[e], began[e])) < HOURLY_LIMIT
              /\ ask[e] \in Generated => Cardinality(Since(DayOf(began[e]))) < DailyLimit
AnyHour  == \A p \in People, t \in Int : Cardinality(Window(p, t)) <= HOURLY_LIMIT
AnyDay   == \A d \in Int : Cardinality(Daily(d)) <= DailyLimit
LimitsInv == Counted /\ AnyHour /\ AnyDay

\* A part of a set of questions counts no more than the set ...
LEMMA SmallerSet ==
  ASSUME NEW S, S \subseteq Exchanges, NEW T, T \subseteq S
  PROVE  /\ Cardinality(S) \in Nat /\ Cardinality(T) \in Nat /\ Cardinality(T) <= Cardinality(S)
<1>1. IsFiniteSet(S)  BY LimitsAssumption, FS_Subset
<1>2. IsFiniteSet(T)  BY <1>1, FS_Subset
<1> QED BY <1>1, <1>2, FS_Subset, FS_CardinalityType

\* ... and a set with one question more counts at most one more.
LEMMA OneMore ==
  ASSUME NEW S, S \subseteq Exchanges, NEW e \in Exchanges, NEW T, T \subseteq S \cup {e}
  PROVE  Cardinality(S) \in Nat /\ Cardinality(T) \in Nat /\ Cardinality(T) <= Cardinality(S) + 1
<1>1. IsFiniteSet(S)  BY LimitsAssumption, FS_Subset
<1>2. /\ Cardinality(S \cup {e}) \in Nat /\ Cardinality(T) \in Nat
      /\ Cardinality(T) <= Cardinality(S \cup {e})
  BY SmallerSet
<1>3. Cardinality(S \cup {e}) <= Cardinality(S) + 1 /\ Cardinality(S) \in Nat
  <2>1. Cardinality(S) \in Nat  BY <1>1, FS_CardinalityType
  <2>2. Cardinality(S \cup {e}) = IF e \in S THEN Cardinality(S) ELSE Cardinality(S) + 1
    BY <1>1, FS_AddElement, Zenon
  <2> QED BY <2>1, <2>2
<1> QED BY <1>2, <1>3

\* The days are numbered.
LEMMA DayIsInt == \A t \in Nat : DayOf(t) \in Int
  BY LimitsAssumption DEF DayOf

\* At first nothing counts.
LEMMA LimitsInit == AssistantInit => LimitsInv
<1> SUFFICES ASSUME AssistantInit PROVE LimitsInv
  OBVIOUS
<1>1. Counted  BY DEF AssistantInit, Counted, Modes, Generated
<1>2. \A p \in People, t \in Int : Window(p, t) = {}
  BY DEF AssistantInit, Window, Hourly, Exists, NoRow
<1>3. \A d \in Int : Daily(d) = {}  BY DEF AssistantInit, Daily, NoRow
<1>4. Cardinality({}) = 0  BY FS_EmptySet
<1>5. AnyHour  BY <1>2, <1>4, LimitsAssumption DEF AnyHour
<1>6. AnyDay   BY <1>3, <1>4, LimitsAssumption DEF AnyDay
<1> QED BY <1>1, <1>5, <1>6 DEF LimitsInv

\* No step but the insertion adds a question to a count ...
NoneAdded ==
  \A q \in Exchanges :
    /\ row'[q].status # "none" => row[q].status # "none" /\ asker'[q] = asker[q] /\ began'[q] = began[q]
    /\ row'[q].mode \in Generated => row[q].mode \in Generated /\ began'[q] = began[q]

\* A question counts from its insertion on; its asker, its time and whether it was generated are
\* then what they were, or it stops counting.
LEMMA NoneAddedBy ==
  ASSUME QuestionsInv, [AssistantNext]_assistantVars, ~\E e \in Exchanges : CommitReserve(e)
  PROVE  NoneAdded
<1> USE DEF QuestionsInv
<1>0. \A q \in Exchanges : row[q].mode \in Generated => row[q].status # "none"
  BY DEF Asked, NoRow, Generated
<1>1. ASSUME UNCHANGED <<row, asker, began>> PROVE NoneAdded  BY <1>1 DEF NoneAdded
<1>2. ASSUME NEW e \in Exchanges, NEW p \in People, BeginAsk(e, p) PROVE NoneAdded
  BY <1>0, <1>2 DEF BeginAsk, NoneAdded, Asked, Unasked, AskTyped
<1>3. ASSUME NEW e \in Exchanges, TakeLock(e) \/ CountAsks(e) \/ FailReserve(e) \/ LogAnswer(e) \/ LeaveAsk(e)
      PROVE  NoneAdded
  BY <1>1, <1>3 DEF TakeLock, CountAsks, FailReserve, LogAnswer, LeaveAsk
<1>4. ASSUME NEW e \in Exchanges, NEW r, row' = [row EXCEPT ![e] = r], row[e].status # "none",
             r.mode \in {row[e].mode, "passages-only"}, UNCHANGED <<asker, began>>
      PROVE  NoneAdded
  BY <1>4 DEF NoneAdded, RowTyped, Generated
<1>5. ASSUME NEW e \in Exchanges, StoreAnswer(e) PROVE NoneAdded
  <2>1. PICK r \in RowType : row' = [row EXCEPT ![e] = r] /\ r.mode \in {row[e].mode, "passages-only"}
    BY <1>5, StoredRow
  <2>2. row[e].status # "none" /\ UNCHANGED <<asker, began>>  BY <1>5 DEF StoreAnswer, Asked
  <2> QED BY <1>4, <2>1, <2>2
<1>6. ASSUME NEW e \in Exchanges, FailAsk(e) PROVE NoneAdded
  <2> DEFINE r == [row[e] EXCEPT !.status = "error"]
  <2>1. row' = [row EXCEPT ![e] = r] /\ UNCHANGED <<asker, began>>  BY <1>6 DEF FailAsk
  <2>2. r.mode = row[e].mode  BY DEF RowTyped, RowType
  <2>3. row[e].status # "none"  BY <1>6 DEF FailAsk, Asked
  <2> QED BY <1>4, <2>1, <2>2, <2>3
<1>7. ASSUME NEW e \in Exchanges, SubmitFeedback(e) PROVE NoneAdded
  <2>1. UNCHANGED <<asker, began>>  BY <1>7 DEF SubmitFeedback, BeginFeedback, RecordFeedback, asking
  <2>2. ASSUME NEW given \in Ratings, RecordFeedback(e, given), row[e].status \in Rateable PROVE NoneAdded
    <3> DEFINE r == [row[e] EXCEPT !.status = Reported(e, given)]
    <3>1. row' = [row EXCEPT ![e] = r]  BY <2>2 DEF RecordFeedback
    <3>2. r.mode = row[e].mode  BY DEF RowTyped, RowType
    <3> QED BY <1>4, <2>1, <2>2, <3>1, <3>2 DEF Rateable
  <2> QED BY <1>1, <1>7, <2>1, <2>2 DEF SubmitFeedback, BeginFeedback, RecordFeedback
<1>8. ASSUME NEW s \in Staff, ReviewExchange(s) PROVE NoneAdded
  <2>1. UNCHANGED <<asker, began>>
    BY <1>8 DEF ReviewExchange, LockExchange, LogReview, CommitReview, FailReview, asking
  <2>2. CASE CommitReview(s)
    <3> DEFINE e == review[s].of
               r == [row[e] EXCEPT !.status = "reviewed", !.reviewer = s, !.outcome = review[s].outcome]
    <3>1. row' = [row EXCEPT ![e] = r]  BY <2>2 DEF CommitReview
    <3>2. e \in Exchanges /\ row[e].status = "with-staff"  BY <2>2 DEF CommitReview, Holding
    <3>3. r.mode = row[e].mode  BY <3>2 DEF RowTyped, RowType
    <3> HIDE DEF e, r
    <3> QED BY <1>4, <2>1, <3>1, <3>2, <3>3
  <2> QED BY <1>1, <1>8, <2>1, <2>2 DEF ReviewExchange, LockExchange, LogReview, FailReview
<1>9. CASE Tick \/ UNCHANGED assistantVars  BY <1>1, <1>9 DEF Tick, assistantVars, asking
<1> QED BY <1>2, <1>3, <1>5, <1>6, <1>7, <1>8, <1>9 DEF AssistantNext, AskAssistant, ReserveAsk

\* ... so every count is at most what it was.
LEMMA CountsShrink ==
  ASSUME NoneAdded
  PROVE  /\ \A p, t : Hourly(p, t)' \subseteq Hourly(p, t) /\ Window(p, t)' \subseteq Window(p, t)
         /\ \A d : Since(d)' \subseteq Since(d) /\ Daily(d)' \subseteq Daily(d)
<1>1. ASSUME NEW p, NEW t PROVE Hourly(p, t)' \subseteq Hourly(p, t) /\ Window(p, t)' \subseteq Window(p, t)
  BY DEF NoneAdded, Hourly, Window, Exists
<1>2. ASSUME NEW d PROVE Since(d)' \subseteq Since(d) /\ Daily(d)' \subseteq Daily(d)
  BY DEF NoneAdded, Since, Daily, Generated
<1> QED BY <1>1, <1>2

\* A question's mode and its place under the lock come from its own count.
LEMMA CountedBy ==
  ASSUME QuestionsInv, [AssistantNext]_assistantVars, NEW e \in Exchanges, ask'[e] \in Modes
  PROVE  /\ ask[e] = ask'[e] \/ CountAsks(e)
         /\ asker'[e] = asker[e] /\ began'[e] = began[e]
<1> USE DEF QuestionsInv, AskTyped, Modes
<1>1. CASE UNCHANGED asking  BY <1>1 DEF asking
<1>2. ASSUME NEW q \in Exchanges, NEW stage, Proceed(q, stage), UNCHANGED <<asker, began>>,
             stage \notin Modes \/ CountAsks(q)
      PROVE  /\ ask[e] = ask'[e] \/ CountAsks(e)
             /\ asker'[e] = asker[e] /\ began'[e] = began[e]
  BY <1>2 DEF Proceed
<1>3. ASSUME NEW q \in Exchanges, NEW p \in People, BeginAsk(q, p)
      PROVE  /\ ask[e] = ask'[e] \/ CountAsks(e)
             /\ asker'[e] = asker[e] /\ began'[e] = began[e]
  BY <1>3 DEF BeginAsk, Proceed
<1>4. ASSUME NEW q \in Exchanges, AskAssistant(q), ~\E p \in People : BeginAsk(q, p)
      PROVE  /\ ask[e] = ask'[e] \/ CountAsks(e)
             /\ asker'[e] = asker[e] /\ began'[e] = began[e]
  <2>1. UNCHANGED <<asker, began>>
    BY <1>4 DEF AskAssistant, ReserveAsk, TakeLock, CountAsks, CommitReserve, FailReserve, StoreAnswer,
       LogAnswer, FailAsk, LeaveAsk
  <2>2. CASE CountAsks(q)
    <3>1. Proceed(q, "refused") \/ Proceed(q, ModeFor(q))  BY <2>2 DEF CountAsks
    <3> QED BY <2>1, <2>2, <3>1 DEF Proceed
  <2>3. CASE ~CountAsks(q)
    <3>1. \/ Proceed(q, "locked") \/ Proceed(q, "reserved") \/ Proceed(q, "failed")
          \/ Proceed(q, "stored") \/ Proceed(q, "answered")
      BY <1>4, <2>3 DEF AskAssistant, ReserveAsk, TakeLock, CommitReserve, FailReserve, StoreAnswer,
         LogAnswer, FailAsk, LeaveAsk
    <3> QED BY <2>1, <3>1 DEF Proceed
  <2> QED BY <2>2, <2>3
<1>5. ASSUME \/ Tick \/ UNCHANGED assistantVars \/ \E q \in Exchanges : SubmitFeedback(q)
             \/ \E s \in Staff : ReviewExchange(s)
      PROVE  UNCHANGED asking
  BY <1>5 DEF Tick, assistantVars, SubmitFeedback, BeginFeedback, RecordFeedback, ReviewExchange,
     LockExchange, LogReview, CommitReview, FailReview
<1> QED BY <1>1, <1>2, <1>3, <1>4, <1>5 DEF AssistantNext

\* An hour or a day that a question is inserted into lies within what its count has looked at: the
\* hour before it began, and everything from its day on.
LEMMA LimitsStep == QuestionsInv /\ LimitsInv /\ [AssistantNext]_assistantVars => LimitsInv'
<1> SUFFICES ASSUME QuestionsInv, LimitsInv, [AssistantNext]_assistantVars PROVE LimitsInv'
  OBVIOUS
<1>1. /\ \A p, t : Hourly(p, t) \subseteq Exchanges /\ Window(p, t) \subseteq Exchanges
      /\ \A d : Since(d) \subseteq Exchanges /\ Daily(d) \subseteq Exchanges
  BY DEF Hourly, Window, Since, Daily
<1>2. CASE ~\E e \in Exchanges : CommitReserve(e)
  <2>1. NoneAdded  BY <1>2, NoneAddedBy
  <2>2. AnyHour'
    <3> SUFFICES ASSUME NEW p \in People, NEW t \in Int PROVE Cardinality(Window(p, t)') <= HOURLY_LIMIT
      BY DEF AnyHour
    <3>1. /\ Cardinality(Window(p, t)) \in Nat /\ Cardinality(Window(p, t)') \in Nat
          /\ Cardinality(Window(p, t)') <= Cardinality(Window(p, t))
      BY <1>1, <2>1, CountsShrink, SmallerSet
    <3>2. Cardinality(Window(p, t)) <= HOURLY_LIMIT  BY DEF LimitsInv, AnyHour
    <3> QED BY <3>1, <3>2, LimitsAssumption
  <2>3. AnyDay'
    <3> SUFFICES ASSUME NEW d \in Int PROVE Cardinality(Daily(d)') <= DailyLimit
      BY DEF AnyDay
    <3>1. /\ Cardinality(Daily(d)) \in Nat /\ Cardinality(Daily(d)') \in Nat
          /\ Cardinality(Daily(d)') <= Cardinality(Daily(d))
      BY <1>1, <2>1, CountsShrink, SmallerSet
    <3>2. Cardinality(Daily(d)) <= DailyLimit  BY DEF LimitsInv, AnyDay
    <3> QED BY <3>1, <3>2, LimitsAssumption
  <2>4. Counted'
    <3> SUFFICES ASSUME NEW e \in Exchanges, ask'[e] \in Modes
                 PROVE  /\ Cardinality(Hourly(asker[e], began[e]))' < HOURLY_LIMIT
                        /\ ask'[e] \in Generated => Cardinality(Since(DayOf(began[e])))' < DailyLimit
      BY DEF Counted, Generated, Modes
    <3>1. PICK p, t : p = asker[e] /\ t = began[e]  OBVIOUS
    <3>2. PICK d : d = DayOf(t)  OBVIOUS
    <3>3. p = asker'[e] /\ t = began'[e] /\ (ask[e] = ask'[e] \/ CountAsks(e))  BY <3>1, CountedBy
    <3>4. Cardinality(Hourly(p, t)) \in Nat /\ Cardinality(Since(d)) \in Nat  BY <1>1, SmallerSet
    <3>5. Cardinality(Hourly(p, t)) < HOURLY_LIMIT
      <4>1. CASE ask[e] = ask'[e]  BY <3>1, <4>1 DEF LimitsInv, Counted
      <4>2. CASE CountAsks(e)
        <5>1. ~(Cardinality(Hourly(p, t)) >= HOURLY_LIMIT)
          BY <3>1, <4>2 DEF CountAsks, Proceed, QuestionsInv, AskTyped, Modes
        <5> QED BY <3>4, <5>1, LimitsAssumption
      <4> QED BY <3>3, <4>1, <4>2
    <3>6. ask'[e] \in Generated => Cardinality(Since(d)) < DailyLimit
      <4>1. CASE ask[e] = ask'[e]  BY <3>1, <3>2, <4>1 DEF LimitsInv, Counted
      <4>2. CASE CountAsks(e)
        <5>1. ask'[e] = ModeFor(e)  BY <4>2 DEF CountAsks, Proceed, QuestionsInv, AskTyped, Modes
        <5>2. ask'[e] \in Generated => ~(Cardinality(Since(d)) >= DailyLimit)
          BY <3>1, <3>2, <5>1 DEF ModeFor, Generated
        <5> QED BY <3>4, <5>2, LimitsAssumption
      <4> QED BY <3>3, <4>1, <4>2
    <3>7. /\ Hourly(p, t)' \subseteq Hourly(p, t) /\ Hourly(p, t) \subseteq Exchanges
          /\ Since(d)' \subseteq Since(d) /\ Since(d) \subseteq Exchanges
      BY <1>1, <2>1, CountsShrink
    <3>8. /\ Cardinality(Hourly(p, t)') \in Nat /\ Cardinality(Hourly(p, t)') <= Cardinality(Hourly(p, t))
          /\ Cardinality(Since(d)') \in Nat /\ Cardinality(Since(d)') <= Cardinality(Since(d))
      BY <3>7, SmallerSet
    <3>9. Hourly(asker[e], began[e])' = Hourly(p, t)' /\ Since(DayOf(began[e]))' = Since(d)'
      BY <3>2, <3>3 DEF Hourly, Since, DayOf
    <3>10. Cardinality(Hourly(p, t)') < HOURLY_LIMIT  BY <3>4, <3>5, <3>8, LimitsAssumption
    <3>11. ask'[e] \in Generated => Cardinality(Since(d)') < DailyLimit  BY <3>4, <3>6, <3>8, LimitsAssumption
    <3> QED BY <3>9, <3>10, <3>11
  <2> QED BY <2>2, <2>3, <2>4 DEF LimitsInv
<1>3. ASSUME NEW e \in Exchanges, CommitReserve(e) PROVE LimitsInv'
  <2>1. /\ ask[e] \in Modes /\ row[e].status = "none" /\ lock = e
        /\ asker' = asker /\ began' = began
    BY <1>3 DEF CommitReserve, QuestionsInv, Locked, Asked, Unasked
  <2>2. PICK personal \in BOOLEAN :
          row' = [row EXCEPT ![e] = [NoRow EXCEPT !.status = "pending", !.mode = ask[e], !.personal = personal]]
    BY <1>3 DEF CommitReserve
  <2>3. /\ row'[e].status = "pending" /\ row'[e].mode = ask[e]
        /\ \A q \in Exchanges \ {e} : row'[q] = row[q]
    BY <2>2 DEF QuestionsInv, RowTyped, NoRow
  <2>4. Counted'
    <3>1. ASSUME NEW q \in Exchanges PROVE ask'[q] \notin Modes
      BY <1>3, <2>1 DEF CommitReserve, Proceed, QuestionsInv, AskTyped, Locked, Modes
    <3> QED BY <3>1 DEF Counted, Generated, Modes
  <2>5. AnyHour'
    <3> SUFFICES ASSUME NEW p \in People, NEW t \in Int PROVE Cardinality(Window(p, t)') <= HOURLY_LIMIT
      BY DEF AnyHour
    <3>1. Window(p, t)' \subseteq Window(p, t) \cup {e}
      BY <2>1, <2>3 DEF Window, Hourly, Exists
    <3>2. Window(p, t) \subseteq Exchanges /\ Window(p, t)' \subseteq Exchanges
      BY DEF Window, Hourly
    <3>3. /\ Cardinality(Window(p, t)) \in Nat /\ Cardinality(Window(p, t)') \in Nat
          /\ Cardinality(Window(p, t)') <= Cardinality(Window(p, t)) + 1
      BY <3>1, <3>2, OneMore
    <3>4. Cardinality(Window(p, t)) <= HOURLY_LIMIT  BY DEF LimitsInv, AnyHour
    <3>5. CASE e \in Window(p, t)'
      <4>1. asker[e] = p /\ began[e] > t - HourTicks /\ began[e] <= t
        BY <2>1, <3>5 DEF Window, Hourly
      <4>2. Window(p, t) \subseteq Hourly(asker[e], began[e])
        BY <4>1, LimitsAssumption DEF Window, Hourly, QuestionsInv, AskTyped
      <4>3. /\ Cardinality(Hourly(asker[e], began[e])) \in Nat
            /\ Cardinality(Window(p, t)) <= Cardinality(Hourly(asker[e], began[e]))
        BY <1>1, <4>2, SmallerSet
      <4>4. Cardinality(Hourly(asker[e], began[e])) < HOURLY_LIMIT
        BY <2>1 DEF LimitsInv, Counted
      <4> QED BY <3>3, <4>3, <4>4, LimitsAssumption
    <3>6. CASE e \notin Window(p, t)'
      <4>1. Window(p, t)' \subseteq Window(p, t)  BY <3>1, <3>6
      <4>2. Cardinality(Window(p, t)') <= Cardinality(Window(p, t))  BY <3>2, <4>1, SmallerSet
      <4> QED BY <3>3, <3>4, <4>2, LimitsAssumption
    <3> QED BY <3>5, <3>6
  <2>6. AnyDay'
    <3> SUFFICES ASSUME NEW d \in Int PROVE Cardinality(Daily(d)') <= DailyLimit
      BY DEF AnyDay
    <3>1. Daily(d)' \subseteq Daily(d) \cup {e}
      BY <2>1, <2>3 DEF Daily
    <3>2. Daily(d) \subseteq Exchanges /\ Daily(d)' \subseteq Exchanges
      BY DEF Daily
    <3>3. /\ Cardinality(Daily(d)) \in Nat /\ Cardinality(Daily(d)') \in Nat
          /\ Cardinality(Daily(d)') <= Cardinality(Daily(d)) + 1
      BY <3>1, <3>2, OneMore
    <3>4. Cardinality(Daily(d)) <= DailyLimit  BY DEF LimitsInv, AnyDay
    <3>5. CASE e \in Daily(d)'
      <4>1. ask[e] \in Generated /\ DayOf(began[e]) = d
        BY <2>1, <2>3, <3>5 DEF Daily, DayOf, Generated
      <4>2. Daily(d) \subseteq Since(DayOf(began[e]))
        BY <4>1 DEF Daily, Since
      <4>3. /\ Cardinality(Since(DayOf(began[e]))) \in Nat
            /\ Cardinality(Daily(d)) <= Cardinality(Since(DayOf(began[e])))
        BY <1>1, <4>2, SmallerSet
      <4>4. Cardinality(Since(DayOf(began[e]))) < DailyLimit
        BY <4>1 DEF LimitsInv, Counted
      <4> QED BY <3>3, <4>3, <4>4, LimitsAssumption
    <3>6. CASE e \notin Daily(d)'
      <4>1. Daily(d)' \subseteq Daily(d)  BY <3>1, <3>6
      <4>2. Cardinality(Daily(d)') <= Cardinality(Daily(d))  BY <3>2, <4>1, SmallerSet
      <4> QED BY <3>3, <3>4, <4>2, LimitsAssumption
    <3> QED BY <3>5, <3>6
  <2> QED BY <2>4, <2>5, <2>6 DEF LimitsInv
<1> QED BY <1>2, <1>3

\* The limits of the run are those at the moments its clock reaches.
LEMMA LimitsKeptByCounts == QuestionsInv /\ LimitsInv => LimitsKept
<1> SUFFICES ASSUME QuestionsInv, LimitsInv PROVE LimitsKept
  OBVIOUS
<1>1. HourlyKept
  <2> SUFFICES ASSUME NEW p \in People, NEW t \in 0..LastTick
               PROVE  Cardinality({q \in Hourly(p, t) : began[q] <= t}) <= HOURLY_LIMIT
    BY DEF HourlyKept
  <2>1. t \in Int  BY LimitsAssumption
  <2>2. Cardinality(Window(p, t)) <= HOURLY_LIMIT  BY <2>1 DEF LimitsInv, AnyHour
  <2> QED BY <2>2 DEF Window
<1>2. DailyKept
  <2> SUFFICES ASSUME NEW t \in 0..LastTick PROVE Cardinality(Daily(DayOf(t))) <= DailyLimit
    BY DEF DailyKept
  <2>1. DayOf(t) \in Int  BY DayIsInt, LimitsAssumption
  <2> QED BY <2>1 DEF LimitsInv, AnyDay
<1> QED BY <1>1, <1>2 DEF LimitsKept

\* "Parallel requests cannot slip past a limit" (reserveAsk), whatever order they get the lock in,
\* wait and fail, for every limit and every number of people and questions.
THEOREM NoLimitSlipsPast == AssistantSpec => []LimitsKept
<1>1. LimitsInv /\ QuestionsInv /\ [AssistantNext]_assistantVars => LimitsInv'
  BY LimitsStep
<1> QED BY <1>1, LimitsInit, LimitsKeptByCounts, QuestionsInvariant, PTL DEF AssistantSpec
-----------------------------------------------------------------------------
(* The promise *)

\* What others see of the questions: the abstract variables, as Promise maps them.
PublicStage == [e \in Exchanges |-> StageOf(row[e].status)]
KnownAsker  == [e \in Exchanges |-> IF Exists(e) THEN asker[e] ELSE Nobody]
ClosedBy    == [e \in Exchanges |-> row[e].reviewer]
Settled     == {e \in Exchanges : ask[e] \in {"refused", "answered", "failed"}}
Public      == <<PublicStage, KnownAsker, ClosedBy, Settled>>

\* The mapped variables and steps of the promise under these names.
LEMMA SameView ==
  /\ Promise!vars = Public
  /\ Promise!Next <=> \E e \in Exchanges :
       \/ Promise!Ask(e) \/ Promise!Answer(e) \/ Promise!Settle(e) \/ Promise!Withdraw(e) \/ Promise!Report(e)
       \/ \E s \in Staff : Promise!Close(e, s)
  BY DEF Promise!vars, Promise!Next, Public, PublicStage, KnownAsker, ClosedBy, Settled

\* The six words a status stands for.
LEMMA Words ==
  /\ StageOf("none") = "unasked" /\ StageOf("pending") = "asked" /\ StageOf("with-staff") = "queued"
  /\ StageOf("reviewed") = "closed" /\ StageOf("error") = "withdrawn"
  /\ \A status \in Rateable : StageOf(status) = "answered"
  /\ \A status \in Statuses \ {"none"} : StageOf(status) # "unasked"
  BY DEF StageOf, Rateable, Statuses

\* What others see when one question's row changes.
LEMMA RowSeen ==
  ASSUME QuestionsInv, NEW e \in Exchanges, NEW r \in RowType, row' = [row EXCEPT ![e] = r]
  PROVE  /\ PublicStage' = [PublicStage EXCEPT ![e] = StageOf(r.status)]
         /\ ClosedBy' = [ClosedBy EXCEPT ![e] = r.reviewer]
         /\ (row[e].status # "none" <=> r.status # "none") /\ asker' = asker => KnownAsker' = KnownAsker
<1>1. \A q \in Exchanges : row'[q] = IF q = e THEN r ELSE row[q]
  BY DEF QuestionsInv, RowTyped
<1>2. PublicStage' = [PublicStage EXCEPT ![e] = StageOf(r.status)]
  <2>1. \A q \in Exchanges : StageOf(row'[q].status) = IF q = e THEN StageOf(r.status) ELSE StageOf(row[q].status)
    BY <1>1
  <2>2. PublicStage' = [q \in Exchanges |-> StageOf(row'[q].status)]  BY DEF PublicStage
  <2>3. [PublicStage EXCEPT ![e] = StageOf(r.status)]
          = [q \in Exchanges |-> IF q = e THEN StageOf(r.status) ELSE StageOf(row[q].status)]
    BY DEF PublicStage
  <2> QED BY <2>1, <2>2, <2>3
<1>3. ClosedBy' = [ClosedBy EXCEPT ![e] = r.reviewer]
  <2>1. \A q \in Exchanges : row'[q].reviewer = IF q = e THEN r.reviewer ELSE row[q].reviewer
    BY <1>1
  <2>2. ClosedBy' = [q \in Exchanges |-> row'[q].reviewer]  BY DEF ClosedBy
  <2>3. [ClosedBy EXCEPT ![e] = r.reviewer]
          = [q \in Exchanges |-> IF q = e THEN r.reviewer ELSE row[q].reviewer]
    BY DEF ClosedBy
  <2> QED BY <2>1, <2>2, <2>3
<1>4. ASSUME row[e].status # "none" <=> r.status # "none", asker' = asker PROVE KnownAsker' = KnownAsker
  BY <1>1, <1>4 DEF KnownAsker, Exists
<1> QED BY <1>2, <1>3, <1>4

\* ... and when one question's request moves on.
LEMMA RequestSeen ==
  ASSUME QuestionsInv, NEW e \in Exchanges, NEW stage, Proceed(e, stage)
  PROVE  Settled' = IF stage \in {"refused", "answered", "failed"} THEN Settled \cup {e} ELSE Settled \ {e}
  BY DEF Proceed, QuestionsInv, AskTyped, Settled

\* A request asks, answers, withdraws or settles, or nothing is seen of its step.
LEMMA RequestKeepsPromise ==
  ASSUME QuestionsInv, NEW e \in Exchanges, AskAssistant(e)
  PROVE  Promise!Next \/ UNCHANGED Public
<1> USE DEF QuestionsInv
<1>1. CASE \E p \in People : BeginAsk(e, p)
  <2>1. row' = row /\ ask[e] = "idle" /\ Proceed(e, "queued") /\ ~Exists(e)
        /\ \A q \in Exchanges \ {e} : asker'[q] = asker[q]
    BY <1>1 DEF BeginAsk, AskTyped, Asked, Unasked, Exists
  <2>2. Settled' = Settled  BY <2>1, RequestSeen DEF Settled
  <2> QED BY <2>1, <2>2 DEF Public, PublicStage, KnownAsker, ClosedBy, Exists
<1>2. CASE TakeLock(e)
  <2>1. Settled' = Settled  BY <1>2, RequestSeen DEF TakeLock, Settled
  <2> QED BY <1>2, <2>1 DEF TakeLock, Public, PublicStage, KnownAsker, ClosedBy, Exists
<1>3. CASE CountAsks(e) \/ FailReserve(e) \/ LogAnswer(e) \/ LeaveAsk(e)
  <2>1. UNCHANGED <<PublicStage, KnownAsker, ClosedBy>> /\ e \notin Settled
    BY <1>3 DEF CountAsks, FailReserve, LogAnswer, LeaveAsk, PublicStage, KnownAsker, ClosedBy, Exists,
       Settled, Modes
  <2>2. ModeFor(e) \in Modes  BY ModeAssumption DEF ModeFor, Modes
  <2>3. \E stage : Proceed(e, stage)
    BY <1>3 DEF CountAsks, FailReserve, LogAnswer, LeaveAsk
  <2>4. Settled' = Settled \cup {e} \/ Settled' = Settled \ {e}
    BY <2>3, RequestSeen
  <2>5. CASE Settled' = Settled \ {e}  BY <2>1, <2>5 DEF Public
  <2>6. CASE Settled' = Settled \cup {e}
    <3>1. Promise!Settle(e)
      BY <2>1, <2>6 DEF Promise!Settle, PublicStage, KnownAsker, ClosedBy, Settled
    <3> QED BY <3>1, SameView
  <2> QED BY <2>4, <2>5, <2>6
<1>4. CASE CommitReserve(e)
  <2>1. PICK personal \in BOOLEAN :
          row' = [row EXCEPT ![e] = [NoRow EXCEPT !.status = "pending", !.mode = ask[e], !.personal = personal]]
    BY <1>4 DEF CommitReserve
  <2> DEFINE r == [NoRow EXCEPT !.status = "pending", !.mode = ask[e], !.personal = personal]
  <2>2. r \in RowType /\ r.status = "pending" /\ r.reviewer = Nobody
    BY <1>4, NoRowTyped DEF CommitReserve, RowType, Statuses, NoRow
  <2>3. /\ ask[e] \in Modes /\ row[e].status = "none" /\ row[e].reviewer = Nobody /\ asker[e] \in People
        /\ asker' = asker /\ Proceed(e, "reserved")
    BY <1>4 DEF CommitReserve, Asked, Unasked, Modes, NoRow
  <2>4. row' = [row EXCEPT ![e] = r]  BY <2>1
  <2> HIDE DEF r
  <2>5. /\ PublicStage[e] = "unasked" /\ PublicStage' = [PublicStage EXCEPT ![e] = "asked"]
        /\ ClosedBy' = ClosedBy
    <3>1. PublicStage[e] = "unasked" /\ ClosedBy = [ClosedBy EXCEPT ![e] = Nobody]
      BY <2>3, Words DEF PublicStage, ClosedBy
    <3>2. /\ PublicStage' = [PublicStage EXCEPT ![e] = StageOf(r.status)]
          /\ ClosedBy' = [ClosedBy EXCEPT ![e] = r.reviewer]
      BY <2>2, <2>4, RowSeen
    <3> QED BY <2>2, <3>1, <3>2, Words
  <2>6. Settled' = Settled /\ e \notin Settled
    BY <2>3, RequestSeen DEF Settled, Modes
  <2>7. KnownAsker' = [KnownAsker EXCEPT ![e] = asker[e]]
    BY <2>2, <2>3, <2>4 DEF RowTyped, KnownAsker, Exists
  <2>8. Promise!Ask(e)
    BY <2>3, <2>5, <2>6, <2>7 DEF Promise!Ask, Promise!Move, PublicStage, ClosedBy, Settled, KnownAsker
  <2> QED BY <2>8, SameView
<1>5. CASE StoreAnswer(e)
  <2>1. PICK r \in RowType :
          /\ row' = [row EXCEPT ![e] = r]
          /\ r.status \in {"with-staff"} \cup Rateable /\ r.reviewer = row[e].reviewer
    BY <1>5, StoredRow
  <2>2. row[e].status = "pending" /\ ask[e] = "reserved" /\ asker' = asker /\ Proceed(e, "stored")
    BY <1>5 DEF StoreAnswer, Asked
  <2>3. /\ PublicStage[e] = "asked"
        /\ \/ PublicStage' = [PublicStage EXCEPT ![e] = "answered"]
           \/ PublicStage' = [PublicStage EXCEPT ![e] = "queued"]
    <3>1. PublicStage[e] = "asked"  BY <2>2, Words DEF PublicStage
    <3>2. PublicStage' = [PublicStage EXCEPT ![e] = StageOf(r.status)]  BY <2>1, RowSeen
    <3> QED BY <2>1, <3>1, <3>2, Words
  <2>4. ClosedBy' = ClosedBy  BY <2>1, RowSeen DEF ClosedBy
  <2>5. KnownAsker' = KnownAsker  BY <2>1, <2>2, RowSeen DEF Rateable
  <2>6. Settled' = Settled /\ e \notin Settled  BY <2>2, RequestSeen DEF Settled
  <2>7. Promise!Answer(e)
    BY <2>3, <2>4, <2>5, <2>6 DEF Promise!Answer, Promise!Move, PublicStage, ClosedBy, Settled, KnownAsker
  <2> QED BY <2>7, SameView
<1>6. CASE FailAsk(e)
  <2> DEFINE r == [row[e] EXCEPT !.status = "error"]
  <2>1. r \in RowType /\ r.status = "error" /\ r.reviewer = row[e].reviewer
    BY DEF RowTyped, RowType, Statuses
  <2>2. /\ ask[e] \in {"reserved", "stored"} /\ row[e].status # "none" /\ row[e].status \in Statuses
        /\ asker' = asker /\ Proceed(e, "failed") /\ row' = [row EXCEPT ![e] = r]
    BY <1>6 DEF FailAsk, Asked, RowTyped, RowType
  <2> HIDE DEF r
  <2>3. PublicStage[e] # "unasked" /\ PublicStage' = [PublicStage EXCEPT ![e] = "withdrawn"]
    <3>1. PublicStage[e] # "unasked"  BY <2>2, Words DEF PublicStage
    <3>2. /\ PublicStage' = [PublicStage EXCEPT ![e] = StageOf(r.status)]
          /\ ClosedBy' = [ClosedBy EXCEPT ![e] = r.reviewer]
      BY <2>1, <2>2, RowSeen
    <3> QED BY <2>1, <3>1, <3>2, Words
  <2>4. ClosedBy' = ClosedBy /\ KnownAsker' = KnownAsker
    <3>1. ClosedBy = [ClosedBy EXCEPT ![e] = row[e].reviewer]  BY DEF ClosedBy
    <3>2. /\ PublicStage' = [PublicStage EXCEPT ![e] = StageOf(r.status)]
          /\ ClosedBy' = [ClosedBy EXCEPT ![e] = r.reviewer]
      BY <2>1, <2>2, RowSeen
    <3>3. KnownAsker' = KnownAsker  BY <2>1, <2>2, RowSeen
    <3> QED BY <2>1, <3>1, <3>2, <3>3
  <2>5. Settled' = Settled \cup {e} /\ e \notin Settled  BY <2>2, RequestSeen DEF Settled
  <2>6. Promise!Withdraw(e)
    BY <2>3, <2>4, <2>5 DEF Promise!Withdraw, PublicStage, ClosedBy, Settled, KnownAsker
  <2> QED BY <2>6, SameView
<1> QED BY <1>1, <1>2, <1>3, <1>4, <1>5, <1>6 DEF AskAssistant, ReserveAsk

\* Feedback reports an answer that is still shown, or changes nothing.
LEMMA FeedbackKeepsPromise ==
  ASSUME QuestionsInv, NEW e \in Exchanges, SubmitFeedback(e)
  PROVE  Promise!Next \/ UNCHANGED Public
<1> USE DEF QuestionsInv
<1>1. asker' = asker /\ Settled' = Settled
  BY DEF SubmitFeedback, BeginFeedback, RecordFeedback, asking, Settled
<1>2. CASE row' = row
  BY <1>1, <1>2 DEF Public, PublicStage, KnownAsker, ClosedBy, Exists
<1>3. CASE row' # row
  <2>1. PICK given \in Ratings : RecordFeedback(e, given)
    BY <1>3 DEF SubmitFeedback, BeginFeedback
  <2> DEFINE r == [row[e] EXCEPT !.status = "with-staff"]
  <2>2. row[e].status \in Rateable /\ row' = [row EXCEPT ![e] = r]
    BY <1>3, <2>1 DEF RecordFeedback, Reported, RowTyped, RowType
  <2>3. r \in RowType /\ r.status = "with-staff" /\ r.reviewer = row[e].reviewer
    BY DEF RowTyped, RowType, Statuses
  <2> HIDE DEF r
  <2>4. PublicStage[e] = "answered" /\ PublicStage' = [PublicStage EXCEPT ![e] = "queued"]
    <3>1. PublicStage[e] = "answered"  BY <2>2, Words DEF PublicStage
    <3>2. /\ PublicStage' = [PublicStage EXCEPT ![e] = StageOf(r.status)]
          /\ ClosedBy' = [ClosedBy EXCEPT ![e] = r.reviewer]
      BY <2>2, <2>3, RowSeen
    <3> QED BY <2>3, <3>1, <3>2, Words
  <2>5. ClosedBy' = ClosedBy /\ KnownAsker' = KnownAsker
    <3>1. ClosedBy = [ClosedBy EXCEPT ![e] = row[e].reviewer]  BY DEF ClosedBy
    <3>2. row[e].status # "none"  BY <2>2 DEF Rateable
    <3> QED BY <1>1, <2>2, <2>3, <3>1, <3>2, RowSeen
  <2>6. Promise!Report(e)
    BY <1>1, <2>4, <2>5 DEF Promise!Report, Promise!Move, PublicStage, ClosedBy, Settled, KnownAsker
  <2> QED BY <2>6, SameView
<1> QED BY <1>2, <1>3

\* A review closes what waits for a case manager, and its reviewer has not asked it.
LEMMA ReviewKeepsPromise ==
  ASSUME QuestionsInv, NEW s \in Staff, ReviewExchange(s)
  PROVE  Promise!Next \/ UNCHANGED Public
<1> USE DEF QuestionsInv
<1>1. asker' = asker /\ Settled' = Settled
  BY DEF ReviewExchange, LockExchange, LogReview, CommitReview, FailReview, asking, Settled
<1>2. CASE row' = row
  BY <1>1, <1>2 DEF Public, PublicStage, KnownAsker, ClosedBy, Exists
<1>3. CASE CommitReview(s)
  <2> DEFINE e == review[s].of
             r == [row[e] EXCEPT !.status = "reviewed", !.reviewer = s, !.outcome = review[s].outcome]
  <2>1. e \in Exchanges /\ row[e].status = "with-staff" /\ asker[e] # s /\ review[s].outcome \in Outcomes
    BY <1>3 DEF CommitReview, Holding
  <2>2. row' = [row EXCEPT ![e] = r]  BY <1>3 DEF CommitReview
  <2>3. r \in RowType /\ r.status = "reviewed" /\ r.reviewer = s
    <3>1. row[e] \in RowType  BY <2>1 DEF RowTyped
    <3> HIDE DEF e
    <3> QED BY <2>1, <3>1 DEF RowType, Statuses
  <2> HIDE DEF e, r
  <2>4. PublicStage[e] = "queued" /\ PublicStage' = [PublicStage EXCEPT ![e] = "closed"]
    <3>1. PublicStage[e] = "queued"  BY <2>1, Words DEF PublicStage
    <3>2. /\ PublicStage' = [PublicStage EXCEPT ![e] = StageOf(r.status)]
          /\ ClosedBy' = [ClosedBy EXCEPT ![e] = r.reviewer]
      BY <2>1, <2>2, <2>3, RowSeen
    <3> QED BY <2>3, <3>1, <3>2, Words
  <2>5. ClosedBy' = [ClosedBy EXCEPT ![e] = s] /\ KnownAsker' = KnownAsker
    BY <1>1, <2>1, <2>2, <2>3, RowSeen
  <2>6. s # KnownAsker[e]  BY <2>1 DEF KnownAsker, Exists
  <2>7. Promise!Close(e, s)
    BY <1>1, <2>4, <2>5, <2>6 DEF Promise!Close, Promise!Move, PublicStage, ClosedBy, Settled, KnownAsker
  <2> QED BY <2>1, <2>7, SameView
<1> QED BY <1>2, <1>3 DEF ReviewExchange, LockExchange, LogReview, FailReview

\* Every step of the assistant is one of the promise, or none.
LEMMA PromiseStep == QuestionsInv /\ [AssistantNext]_assistantVars => [Promise!Next]_(Promise!vars)
<1> SUFFICES ASSUME QuestionsInv, [AssistantNext]_assistantVars PROVE Promise!Next \/ UNCHANGED Public
  BY DEF Promise!vars, Public, PublicStage, KnownAsker, ClosedBy, Settled
<1>1. CASE Tick \/ UNCHANGED assistantVars
  BY <1>1 DEF Tick, assistantVars, asking, Public, PublicStage, KnownAsker, ClosedBy, Exists, Settled
<1>2. CASE \E e \in Exchanges : AskAssistant(e) \/ SubmitFeedback(e)
  BY <1>2, RequestKeepsPromise, FeedbackKeepsPromise
<1>3. CASE \E s \in Staff : ReviewExchange(s)  BY <1>3, ReviewKeepsPromise
<1> QED BY <1>1, <1>2, <1>3 DEF AssistantNext

\* With all its statements, locks and failures the assistant keeps what AssistantPromise says of a
\* question: closed once, by another person, and taken back only by its own request.
THEOREM PromiseKept == AssistantSpec => KeepsPromise
<1>1. AssistantInit => Promise!Init
  BY Words DEF AssistantInit, Promise!Init, NoRow, Exists
<1> QED BY <1>1, PromiseStep, QuestionsInvariant, PTL DEF AssistantSpec, KeepsPromise, Promise!Spec
=============================================================================
