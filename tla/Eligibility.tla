---------------------------- MODULE Eligibility ----------------------------
(***************************************************************************)
(* One person's profile and the exemptions determined from it: saves of    *)
(* the profile (userService.ts, routes/users.ts) and eligibility checks    *)
(* (exemptionService.ts), asked for or made after a save.                  *)
(*                                                                         *)
(* The date a transaction writes is that of its BEGIN; `clock' numbers     *)
(* those.  A save writes one row, under its lock, so its statements and    *)
(* its COMMIT are one step; a check reads the profile on one connection    *)
(* and then writes three rows on another.                                  *)
(***************************************************************************)
EXTENDS Integers

CONSTANTS
  Requests,     \* the HTTP calls of the behaviour, each made at most once
  Changes,      \* what a save may ask: the fields it sets, with their values
  Age,          \* by the date of birth, which a save cannot change
  NoCheck       \* no check has written the row

VARIABLES
  user,         \* the row of users
  exemptions,   \* the rows of exemptions, with the request whose check wrote them
  audit,        \* checks in audit_logs
  clock,
  pc,           \* by request: how far it has come
  change,       \* by request: the fields a save sets
  started,      \* by request: the date of its last transaction
  read,         \* by request: the profile its check has read
  written,      \* by request: the rows its check's open transaction has written
  overlapped    \* history: checks that ran while a save was being made

request == <<pc, change, started, read, written>>
vars    == <<user, exemptions, audit, clock, request, overlapped>>

NoIncome == -1
SENIOR_AGE == 65
POVERTY_THRESHOLD == 20000
Type == {"Type A", "Type B", "Type C"}
Field == {"phone", "address", "annualIncome", "hasDocumentedHardship"}
Profile == [phone : BOOLEAN, address : BOOLEAN, annualIncome : Nat \cup {NoIncome},
            hasDocumentedHardship : BOOLEAN]
Empty == [phone |-> FALSE, address |-> FALSE, annualIncome |-> NoIncome, hasDocumentedHardship |-> FALSE]

\* Nobody younger can register (validators.ts).
ASSUME ChangesAssumption ==
  /\ Age \in Nat /\ Age >= 18 /\ NoCheck \notin Requests
  /\ \A c \in Changes : \A f \in DOMAIN c :
       f \in Field /\ c[f] \in IF f = "annualIncome" THEN Nat \cup {NoIncome} ELSE BOOLEAN

Stage == {"idle", "saving", "checking", "read", "upserting", "logging", "ok", "failed"}
Goto(r, stage) == pc' = [pc EXCEPT ![r] = stage]
Begin(r) == clock' = clock + 1 /\ started' = [started EXCEPT ![r] = clock + 1]

Init ==
  /\ user = [profile |-> Empty, updated_at |-> 0, compliance_status |-> "Pending Review"]
  /\ exemptions = [t \in Type |-> [status |-> "none", determined_at |-> -1, by |-> NoCheck]]
  /\ audit = {} /\ clock = 0 /\ overlapped = {}
  /\ pc = [r \in Requests |-> "idle"]
  /\ change = [r \in Requests |-> <<>>]
  /\ started = [r \in Requests |-> 0]
  /\ read = [r \in Requests |-> Empty]
  /\ written = [r \in Requests |-> {}]
-----------------------------------------------------------------------------
(* PUT /users/:id *)

\* determineCompliance.
DetermineCompliance(p) ==
  IF Age < 18 THEN "Ineligible" ELSE IF p.phone /\ p.address THEN "Eligible" ELSE "Pending Review"

BeginSave(r) ==
  /\ pc[r] = "idle"
  /\ \E c \in Changes : c # <<>> /\ change' = [change EXCEPT ![r] = c]
  /\ Begin(r)
  /\ Goto(r, "saving")
  /\ UNCHANGED <<user, exemptions, audit, read, written, overlapped>>

\* A save of nothing is rolled back, and eligibility checked all the same.
SaveNothing(r) ==
  /\ pc[r] = "idle"
  /\ Goto(r, "checking")
  /\ UNCHANGED <<user, exemptions, audit, clock, change, started, read, written, overlapped>>

Changed(r) == [f \in Field |-> IF f \in DOMAIN change[r] THEN change[r][f] ELSE user.profile[f]]

\* A check has the save's transaction in it when it has read the profile and not yet
\* committed, or began after the save did.
Overlapping(r) == {q \in Requests : \/ pc[q] \in {"read", "upserting"}
                                    \/ \E t \in Type : /\ exemptions[t].by = q
                                                       /\ exemptions[t].determined_at > started[r]}

\* Fault: the row is not dated.
SaveUndated(r) ==
  /\ pc[r] = "saving"
  /\ user' = [user EXCEPT !.profile = Changed(r), !.compliance_status = DetermineCompliance(Changed(r))]
  /\ overlapped' = overlapped \cup Overlapping(r)
  /\ Goto(r, "checking")
  /\ UNCHANGED <<exemptions, audit, clock, change, started, read, written>>

\* updateUserProfile: only the fields of the save, on the row as the lock finds it.
Save(r) ==
  /\ pc[r] = "saving"
  /\ user' = [profile |-> Changed(r), updated_at |-> started[r],
              compliance_status |-> DetermineCompliance(Changed(r))]
  /\ overlapped' = overlapped \cup Overlapping(r)
  /\ Goto(r, "checking")
  /\ UNCHANGED <<exemptions, audit, clock, change, started, read, written>>

\* mfaService.ts dates the row too, when two-step verification goes on or off.
ChangeMfa(r) ==
  /\ pc[r] = "idle"
  /\ Begin(r)
  /\ user' = [user EXCEPT !.updated_at = clock + 1]
  /\ Goto(r, "ok")
  /\ UNCHANGED <<exemptions, audit, change, read, written, overlapped>>
-----------------------------------------------------------------------------
(* runEligibilityCheck *)

\* checkExemptionEligibility.
Evaluate(type, p) ==
  CASE type = "Type A" -> IF Age >= SENIOR_AGE THEN "Eligible" ELSE "Not Eligible"
    [] type = "Type B" -> IF p.annualIncome # NoIncome /\ p.annualIncome < POVERTY_THRESHOLD
                            THEN "Eligible" ELSE "Not Eligible"
    [] type = "Type C" -> IF p.hasDocumentedHardship THEN "Pending Review" ELSE "Not Eligible"

\* After a save, or when the person asks (POST /exemptions/check).
ReadProfile(r) ==
  /\ pc[r] \in {"idle", "checking"}
  /\ read' = [read EXCEPT ![r] = user.profile]
  /\ Goto(r, "read")
  /\ UNCHANGED <<user, exemptions, audit, clock, change, started, written, overlapped>>

BeginCheck(r) ==
  /\ pc[r] = "read"
  /\ Begin(r)
  /\ Goto(r, "upserting")
  /\ UNCHANGED <<user, exemptions, audit, change, read, written, overlapped>>

\* The rows are written in the order of the types.
NextRow(r) == CASE written[r] = {} -> {"Type A"}
                [] written[r] = {"Type A"} -> {"Type B"}
                [] written[r] = {"Type A", "Type B"} -> {"Type C"}
                [] OTHER -> {}

\* What the call knew is gone with its transaction.
Forget(r) == /\ written' = [written EXCEPT ![r] = {}]
             /\ read' = [read EXCEPT ![r] = Empty]
             /\ started' = [started EXCEPT ![r] = 0]

\* A row that another open transaction has written, or inserted, is waited for.
Free(r, t) == \A q \in Requests \ {r} : t \notin written[q]

Determined(r, t) == [status |-> Evaluate(t, read[r]), determined_at |-> started[r], by |-> r]

\* Fault: each row is a transaction of its own.
UpsertAlone(r) ==
  /\ pc[r] = "upserting"
  /\ \E t \in NextRow(r) : /\ written' = [written EXCEPT ![r] = @ \cup {t}]
                           /\ exemptions' = [exemptions EXCEPT ![t] = Determined(r, t)]
  /\ UNCHANGED <<user, audit, clock, pc, change, started, read, overlapped>>

Upsert(r) ==
  /\ pc[r] = "upserting"
  /\ \E t \in NextRow(r) : Free(r, t) /\ written' = [written EXCEPT ![r] = @ \cup {t}]
  /\ UNCHANGED <<user, exemptions, audit, clock, pc, change, started, read, overlapped>>

CommitCheck(r) ==
  /\ pc[r] = "upserting" /\ written[r] = Type
  /\ exemptions' = [t \in Type |-> Determined(r, t)]
  /\ Forget(r)
  /\ Goto(r, "logging")
  /\ UNCHANGED <<user, audit, clock, change, overlapped>>

LogCheck(r) ==
  /\ pc[r] = "logging"
  /\ audit' = audit \cup {r}
  /\ Goto(r, "ok")
  /\ UNCHANGED <<user, exemptions, clock, change, started, read, written, overlapped>>

\* A statement fails: the open transaction is rolled back and the call answers 500.
Fail(r) ==
  /\ pc[r] \notin {"idle", "ok", "failed"}
  /\ Forget(r)
  /\ Goto(r, "failed")
  /\ UNCHANGED <<user, exemptions, audit, clock, change, overlapped>>
-----------------------------------------------------------------------------
Next == \E r \in Requests : \/ BeginSave(r) \/ SaveNothing(r) \/ Save(r) \/ ChangeMfa(r)
                            \/ ReadProfile(r) \/ BeginCheck(r) \/ Upsert(r) \/ CommitCheck(r)
                            \/ LogCheck(r) \/ Fail(r)
Spec == Init /\ [][Next]_vars
-----------------------------------------------------------------------------
\* Every variable holds a value of its kind.
TypeOK ==
  /\ user \in [profile : Profile, updated_at : Nat,
               compliance_status : {"Ineligible", "Eligible", "Pending Review"}]
  /\ exemptions \in [Type -> [status : {"none", "Eligible", "Pending Review", "Not Eligible"},
                              determined_at : Int, by : Requests \cup {NoCheck}]]
  /\ audit \subseteq Requests /\ overlapped \subseteq Requests /\ clock \in Nat
  /\ pc \in [Requests -> Stage]
  /\ change \in [Requests -> Changes \cup {<<>>}]
  /\ started \in [Requests -> Nat] /\ read \in [Requests -> Profile]
  /\ written \in [Requests -> SUBSET Type]

\* The three exemptions on file are one determination, of one profile, however checks
\* overlap and fail (the transaction of runEligibilityCheck).
OneDetermination == \A t, u \in Type : exemptions[t].by = exemptions[u].by

\* The eligibility to hold an account follows from the whole profile, also when its
\* phone and address were saved by two calls at once (checkAndUpdateCompliance reads the
\* row inside the transaction that has just updated it).
ComplianceFollows == user.compliance_status = DetermineCompliance(user.profile)

\* What is on file agrees with itself after any calls: neither the exemptions nor the
\* status are pieced together from two of them (runEligibilityCheck, updateUserProfile).
FilesAgree == OneDetermination /\ ComplianceFollows

\* What CTRL-02 compares.
Current(t) == exemptions[t].determined_at >= user.updated_at

\* A determination that is no longer that of the profile is dated before the profile, so
\* that CTRL-02 notices it - unless its check was running while the save was: only the
\* window between reading the profile and dating the rows is open (exemptionService.ts:129).
StaleIsNoticed ==
  \A t \in Type : exemptions[t].by \notin overlapped \cup {NoCheck} /\ Current(t)
                    => exemptions[t].status = Evaluate(t, user.profile)

-----------------------------------------------------------------------------
\* "STORY-006: exemption eligibility is re-determined whenever the profile changes"
\* (routes/users.ts): when every call has been answered and none failed, the exemptions on
\* file are those of the profile on file.
DeterminationFollows ==
  (\A r \in Requests : pc[r] \in {"idle", "ok"}) /\ (\E r \in Requests : change[r] # <<>>)
    => \A t \in Type : exemptions[t].status = Evaluate(t, user.profile)
=============================================================================
