----------------------------- MODULE MfaSignIn -----------------------------
(***************************************************************************)
(* Two-step verification of one person (mfaService.ts, with the routes of  *)
(* mfa.ts and POST /auth/mfa/verify), as the separate statements the code  *)
(* makes.  A budget is a pending sign-in, which a right password has       *)
(* earned, or a signed-in session; both count the codes tried on them.     *)
(* Transactions run READ COMMITTED: a DELETE finds the rows that were      *)
(* there when it began and waits for those another open transaction has    *)
(* touched.  A 6-digit code is the device and the 30-second step it is of; *)
(* which one a call carries is left open until the code looks at it.       *)
(***************************************************************************)
EXTENDS Integers, FiniteSets, Sequences

CONSTANTS
  PendingSignIns, \* password steps waiting for their code
  Session,        \* the signed-in session that turns two-step verification on and off
  Requests,       \* the HTTP calls of the behaviour, each made at most once
  FirstDevice,    \* an authenticator set up earlier; a setup adds one named after its request
  Slots,          \* the codes of one set of recovery codes (RECOVERY_CODE_COUNT)
  MAX_CODE_ATTEMPTS,
  LastStep        \* bound: the clock stops there

ASSUME BudgetAssumption == Session \notin PendingSignIns /\ FirstDevice \notin Requests
ASSUME BoundAssumption == MAX_CODE_ATTEMPTS \in Nat /\ LastStep \in Nat \ {0}

VARIABLES
  now,        \* the current time step
  enabled,    \* users.mfa_enabled
  devices,    \* mfa_devices: each one's state and last_used_step
  attempts,   \* mfa_code_attempts.attempts
  completed,  \* mfa_code_attempts.completed_at is set
  setups,     \* the setups in the order of their BEGIN, which is their created_at
  recovery,   \* mfa_recovery_codes
  sessions,   \* history: <<pending sign-in, request>> for each session given
  looked,     \* history: <<budget, request>> for each code looked at
  accepted,   \* history: the codes accepted, in order: <<device, step, what for>>
  spent,      \* <<recovery code, request>> for each whose used_at is set
  pc,         \* how far each request has come
  call,       \* what the request asks
  matched,    \* the device and step the request's code was found to be of
  done,       \* the statements of its transaction that have ended
  saw,        \* the rows the DELETE under way has found, or the last one found
  held        \* the rows its open transaction has written or deleted

account == <<enabled, devices, setups, recovery>>
budgets == <<attempts, completed>>
history == <<sessions, looked, accepted, spent>>
change  == <<done, saw, held>>
vars == <<now, account, budgets, history, pc, call, matched, change>>

Budget == PendingSignIns \cup {Session}
Device == Requests \cup {FirstDevice}
Step   == 0 .. LastStep + 1
Never  == -1                       \* last_used_step is NULL
RecoveryCode == Device \X Slots    \* named after what made the set they belong to
UserRow == <<"users", "row">>
Row     == Device \cup RecoveryCode \cup {UserRow}

\* Rows of different tables are different.
ASSUME RowsAssumption == Device \cap RecoveryCode = {} /\ UserRow \notin Device \cup RecoveryCode

Operation == {"none", "sign-in", "recover", "setup", "confirm", "disable", "regenerate"}
Call      == [op : Operation, budget : Budget]

Stage == {"idle", "begun", "reserved", "matched", "accepted", "changing", "deleting", "ok", "failed"}

None == [state |-> "none", last |-> Never]

\* Off, off with a setup not confirmed yet, or on.
Init ==
  /\ now = 1
  /\ \E first \in {"none", "waiting", "verified"} :
       /\ devices = [d \in Device |-> IF d = FirstDevice THEN [None EXCEPT !.state = first] ELSE None]
       /\ enabled = (first = "verified")
       /\ recovery = IF first = "verified" THEN {FirstDevice} \X Slots ELSE {}
  /\ setups = <<>>
  /\ attempts = [b \in Budget |-> 0]
  /\ completed = [b \in Budget |-> FALSE]
  /\ sessions = {} /\ looked = {} /\ accepted = <<>> /\ spent = {}
  /\ pc = [r \in Requests |-> "idle"]
  /\ call = [r \in Requests |-> [op |-> "none", budget |-> Session]]
  /\ matched = [r \in Requests |-> <<FirstDevice, 0>>]
  /\ done = [r \in Requests |-> 0]
  /\ saw = [r \in Requests |-> {}] /\ held = [r \in Requests |-> {}]
-----------------------------------------------------------------------------
Op(r) == call[r].op
Goto(r, stage) == pc' = [pc EXCEPT ![r] = stage]

Begin(r, op, b) ==
  /\ pc[r] = "idle"
  /\ call' = [call EXCEPT ![r] = [op |-> op, budget |-> b]]
  /\ Goto(r, "begun")

With(state) == {d \in Device : devices[d].state = state}
OnFile      == Device \ With("none")
Unused      == recovery \ {x[1] : x \in spent}

\* A row another open transaction has touched makes another writer of it wait.
Free(r, rows) == \A q \in Requests \ {r} : held[q] \cap rows = {}

\* matchTotp: the codes of a device for this time step and one either side of it.
ValidCodes(d) == {d} \X (now - 1 .. now + 1)
-----------------------------------------------------------------------------
\* POST /auth/mfa/verify with a 6-digit code or a recovery code.
BeginSignIn(r) ==
  /\ \E b \in PendingSignIns, op \in {"sign-in", "recover"} : Begin(r, op, b)
  /\ UNCHANGED <<now, account, budgets, history, matched, change>>

\* The routes of mfa.ts ask isMFAEnabled first: some need it on, some off.
BeginChange(r) ==
  /\ \E op \in IF enabled THEN {"disable", "regenerate"} ELSE {"setup", "confirm"} :
       Begin(r, op, Session)
  /\ UNCHANGED <<now, account, budgets, history, matched, change>>

\* The BEGIN of generateMFASecret.
BeginSetup(r) ==
  /\ pc[r] = "begun" /\ Op(r) = "setup"
  /\ setups' = Append(setups, r)
  /\ Goto(r, "changing")
  /\ UNCHANGED <<now, enabled, devices, recovery, budgets, history, call, matched, change>>

\* Fault: a try is counted once the code has been refused, not before.
ReserveUncounted(r) ==
  /\ pc[r] = "begun" /\ Op(r) # "setup"
  /\ LET b == call[r].budget
         refused == completed[b] \/ attempts[b] + 1 > MAX_CODE_ATTEMPTS
     IN  /\ looked' = IF refused THEN looked ELSE looked \cup {<<b, r>>}
         /\ Goto(r, IF refused THEN "failed" ELSE "reserved")
  /\ UNCHANGED <<now, account, budgets, sessions, accepted, spent, call, matched, change>>

\* countAttempt and reserveAttempt: counted in one statement, before the code
\* is looked at.
ReserveAttempt(r) ==
  /\ pc[r] = "begun" /\ Op(r) # "setup"
  /\ LET b == call[r].budget
         refused == completed[b] \/ attempts[b] + 1 > MAX_CODE_ATTEMPTS
     IN  /\ attempts' = [attempts EXCEPT ![b] = @ + 1]
         /\ looked' = IF refused THEN looked ELSE looked \cup {<<b, r>>}
         /\ Goto(r, IF refused THEN "failed" ELSE "reserved")
  /\ UNCHANGED <<now, account, completed, sessions, accepted, spent, call, matched, change>>

\* The SELECT of the device, the verified one or for a confirmation the one waiting
\* whose setup began last, and matchTotp on its key.
Made(d)  == Cardinality({i \in 1 .. Len(setups) : \E j \in i .. Len(setups) : setups[j] = d})
Latest   == {d \in With("waiting") : \A e \in With("waiting") : Made(e) <= Made(d)}
Looks(r) == IF Op(r) = "confirm" THEN Latest ELSE With("verified")

MatchCode(r) ==
  /\ pc[r] = "reserved" /\ Op(r) # "recover"
  /\ \E d \in Looks(r) : \E c \in ValidCodes(d) : matched' = [matched EXCEPT ![r] = c]
  /\ Goto(r, IF Op(r) = "confirm" THEN "changing" ELSE "matched")
  /\ UNCHANGED <<now, account, budgets, history, call, change>>

\* No such device, or a code that is not one of its own for now.
RefuseCode(r) ==
  /\ pc[r] = "reserved"
  /\ Goto(r, "failed")
  /\ UNCHANGED <<now, account, budgets, history, call, matched, change>>

\* Fault: the last step used passes again.
AcceptAgain(r) ==
  /\ pc[r] = "matched" /\ Free(r, {matched[r][1]})
  /\ LET d == matched[r][1]
         s == matched[r][2]
     IN  IF devices[d].state # "none" /\ devices[d].last <= s
           THEN /\ devices' = [devices EXCEPT ![d].last = s]
                /\ accepted' = Append(accepted, <<d, s, Op(r)>>)
                /\ Goto(r, IF Op(r) = "sign-in" THEN "accepted" ELSE "changing")
           ELSE Goto(r, "failed") /\ UNCHANGED <<devices, accepted>>
  /\ UNCHANGED <<now, enabled, setups, recovery, budgets, sessions, looked, spent, call, matched, change>>

\* One UPDATE decides: only a later step than the last one used passes.
AcceptCode(r) ==
  /\ pc[r] = "matched" /\ Free(r, {matched[r][1]})
  /\ LET d == matched[r][1]
         s == matched[r][2]
     IN  IF devices[d].state # "none" /\ devices[d].last < s
           THEN /\ devices' = [devices EXCEPT ![d].last = s]
                /\ accepted' = Append(accepted, <<d, s, Op(r)>>)
                /\ Goto(r, IF Op(r) = "sign-in" THEN "accepted" ELSE "changing")
           ELSE Goto(r, "failed") /\ UNCHANGED <<devices, accepted>>
  /\ UNCHANGED <<now, enabled, setups, recovery, budgets, sessions, looked, spent, call, matched, change>>

\* One UPDATE finds and spends the recovery code; any other is refused.
SpendRecoveryCode(r) ==
  /\ pc[r] = "reserved" /\ Op(r) = "recover"
  /\ \E c \in Unused : Free(r, {c}) /\ spent' = spent \cup {<<c, r>>}
  /\ Goto(r, "accepted")
  /\ UNCHANGED <<now, account, budgets, sessions, looked, accepted, call, matched, change>>

\* Fault: completed_at is set whether or not it is set already.
FinishAgain(r) ==
  /\ pc[r] = "accepted"
  /\ completed' = [completed EXCEPT ![call[r].budget] = TRUE]
  /\ sessions' = sessions \cup {<<call[r].budget, r>>}
  /\ Goto(r, "ok")
  /\ UNCHANGED <<now, account, attempts, looked, accepted, spent, call, matched, change>>

\* One UPDATE ends the pending sign-in; only the call that ended it gets a session.
FinishSignIn(r) ==
  /\ pc[r] = "accepted"
  /\ LET b == call[r].budget
     IN  IF ~completed[b]
           THEN /\ completed' = [completed EXCEPT ![b] = TRUE]
                /\ sessions' = sessions \cup {<<b, r>>}
                /\ Goto(r, "ok")
           ELSE Goto(r, "failed") /\ UNCHANGED <<completed, sessions>>
  /\ UNCHANGED <<now, account, attempts, looked, accepted, spent, call, matched, change>>

-----------------------------------------------------------------------------
(* The transactions of generateMFASecret, verifyAndEnableMFA, disableMFA and *)
(* regenerateRecoveryCodes; storeRecoveryCodes is their DELETE of the codes. *)

Statements(op) == CASE op = "setup"      -> <<"devices">>
                    [] op = "confirm"    -> <<"device", "user", "codes">>
                    [] op = "disable"    -> <<"devices", "codes", "user">>
                    [] op = "regenerate" -> <<"codes">>
                    [] OTHER             -> <<>>

At(r, what) == /\ done[r] < Len(Statements(Op(r)))
               /\ Statements(Op(r))[done[r] + 1] = what

Ended(r, rows) == /\ done' = [done EXCEPT ![r] = @ + 1]
                  /\ held' = [held EXCEPT ![r] = @ \cup rows]

\* The rows a DELETE is about: a setup leaves a verified device alone.
Found(r) == IF At(r, "codes") THEN recovery
            ELSE IF Op(r) = "setup" THEN With("waiting") ELSE OnFile

BeginDelete(r) ==
  /\ pc[r] = "changing"
  /\ At(r, "devices") \/ At(r, "codes")
  /\ saw' = [saw EXCEPT ![r] = Found(r)]
  /\ Goto(r, "deleting")
  /\ UNCHANGED <<now, account, budgets, history, call, matched, done, held>>

\* Of the rows it saw, those that are still there once nobody else has hold of them.
EndDelete(r) ==
  /\ pc[r] = "deleting" /\ Free(r, saw[r])
  /\ Ended(r, saw[r] \cap Found(r))
  /\ Goto(r, "changing")
  /\ UNCHANGED <<now, account, budgets, history, call, matched, saw>>

\* The device is looked up by id only: a setup may have removed it.  The unique index
\* waits for another confirmation or removal, and allows one verified device.
VerifyDevice(r) ==
  /\ pc[r] = "changing" /\ At(r, "device")
  /\ LET d == matched[r][1]
     IN  IF d \in OnFile
           THEN /\ Free(r, {d} \cup With("verified"))
                /\ \A q \in Requests \ {r} : Op(q) = "confirm" => held[q] \cap Device = {}
                /\ IF With("verified") \subseteq {d}
                     THEN Ended(r, {d}) /\ UNCHANGED pc
                     ELSE Goto(r, "failed") /\ held' = [held EXCEPT ![r] = {}] /\ UNCHANGED done
           ELSE Ended(r, {}) /\ UNCHANGED pc
  /\ UNCHANGED <<now, account, budgets, history, call, matched, saw>>

UpdateUser(r) ==
  /\ pc[r] = "changing" /\ At(r, "user")
  /\ Free(r, {UserRow})
  /\ Ended(r, {UserRow})
  /\ UNCHANGED <<now, account, budgets, history, pc, call, matched, saw>>

DeviceAfter(r, d) ==
  IF d \in held[r]
    THEN IF Op(r) = "confirm" THEN [state |-> "verified", last |-> matched[r][2]] ELSE None
    ELSE IF Op(r) = "setup" /\ d = r THEN [None EXCEPT !.state = "waiting"] ELSE devices[d]

\* The INSERT of the device or the codes, if any, and the COMMIT.  A confirmation writes
\* its own step as last_used_step, whatever was there.
CommitChange(r) ==
  /\ pc[r] = "changing" /\ done[r] = Len(Statements(Op(r)))
  /\ devices' = [d \in Device |-> DeviceAfter(r, d)]
  /\ accepted' = IF Op(r) = "confirm" /\ matched[r][1] \in held[r]
                   THEN Append(accepted, <<matched[r][1], matched[r][2], "confirm">>)
                   ELSE accepted
  /\ enabled' = IF Op(r) = "confirm" THEN TRUE ELSE IF Op(r) = "disable" THEN FALSE ELSE enabled
  /\ recovery' = (recovery \ held[r])
                   \cup (IF Op(r) \in {"confirm", "regenerate"} THEN {r} \X Slots ELSE {})
  /\ held' = [held EXCEPT ![r] = {}]
  /\ Goto(r, "ok")
  /\ UNCHANGED <<now, setups, budgets, sessions, looked, spent, call, matched, done, saw>>

\* A statement fails or the process dies; a transaction that is open is rolled back.
Fail(r) ==
  /\ pc[r] \notin {"idle", "ok", "failed"}
  /\ held' = [held EXCEPT ![r] = {}]
  /\ Goto(r, "failed")
  /\ UNCHANGED <<now, account, budgets, history, call, matched, done, saw>>

Tick ==
  /\ now < LastStep
  /\ now' = now + 1
  /\ UNCHANGED <<account, budgets, history, pc, call, matched, change>>

CheckCode(r) == ReserveAttempt(r) \/ MatchCode(r) \/ RefuseCode(r) \/ AcceptCode(r)
SignIn(r)    == BeginSignIn(r) \/ SpendRecoveryCode(r) \/ FinishSignIn(r)
Change(r)    == BeginChange(r) \/ BeginSetup(r) \/ BeginDelete(r) \/ EndDelete(r) \/ VerifyDevice(r)
                  \/ UpdateUser(r) \/ CommitChange(r)

Next == Tick \/ \E r \in Requests : SignIn(r) \/ CheckCode(r) \/ Change(r) \/ Fail(r)

Spec == Init /\ [][Next]_vars
-----------------------------------------------------------------------------
\* Every variable holds a value of its kind.
TypeOK ==
  /\ now \in 1 .. LastStep
  /\ enabled \in BOOLEAN
  /\ devices \in [Device -> [state : {"none", "waiting", "verified"}, last : Step \cup {Never}]]
  /\ attempts \in [Budget -> Nat]
  /\ completed \in [Budget -> BOOLEAN]
  /\ recovery \subseteq RecoveryCode
  /\ sessions \subseteq PendingSignIns \X Requests
  /\ looked \subseteq Budget \X Requests
  /\ accepted \in Seq(Device \X Step \X Operation)
  /\ spent \subseteq RecoveryCode \X Requests
  /\ pc \in [Requests -> Stage]
  /\ call \in [Requests -> Call]
  /\ matched \in [Requests -> Device \X Step]
  /\ setups \in Seq(Requests)
  /\ done \in [Requests -> 0 .. 3]
  /\ saw \in [Requests -> SUBSET Row] /\ held \in [Requests -> SUBSET Row]

\* A right password and a right code are one sign-in, even when two right codes
\* for it (this step's and the next, or a recovery code) arrive together.
OneSession == \A x, y \in sessions : x[1] = y[1] => x = y

\* No more codes are ever looked at than a budget allows, however many are sent
\* at the same moment (countAttempt before matchTotp).
BudgetKept ==
  \A b \in Budget : Cardinality({r \in Requests : <<b, r>> \in looked}) <= MAX_CODE_ATTEMPTS

\* Accepted between the i-th code and the j-th, or as the j-th: one that confirmed its device.
ConfirmedAgain(i, j) ==
  \E k \in i + 1 .. j : accepted[k][1] = accepted[i][1] /\ accepted[k][3] = "confirm"

\* A 6-digit code of a device that is accepted twice, by sign-ins, changes or confirmations,
\* had the device confirmed in between: only that sets last_used_step back, and a second
\* confirmation of a device can only be one that overlapped the first.
OncePerConfirmation ==
  \A i, j \in 1 .. Len(accepted) :
    i < j /\ accepted[i][1] = accepted[j][1] /\ accepted[i][2] = accepted[j][2] => ConfirmedAgain(i, j)

\* A recovery code works once, though it may be sent twice at the same moment
\* or while new codes take the place of its set.
RecoveryOnce == \A x, y \in spent : x[1] = y[1] => x = y

\* No code is worth two answers (checkCode, verifySignInRecoveryCode), but for a 6-digit
\* code of a device that is confirmed again.
CodesSpent == OncePerConfirmation /\ RecoveryOnce
-----------------------------------------------------------------------------
(* What does not hold *)

\* What the comment of generateMFASecret says: "Only the latest setup can be
\* confirmed, so the QR code on screen always matches the stored key".  When
\* two-step verification is turned on, some device is verified.
ConfirmsStoredKey == [][~enabled /\ enabled' => \E d \in Device : devices'[d].state = "verified"]_vars

\* What migration 018 says of last_used_step: "A code is never accepted twice".
\* verifyAndEnableMFA sets it without a condition, and two confirmations of one device may overlap.
NeverAcceptedTwice ==
  \A i, j \in 1 .. Len(accepted) :
    accepted[i][1] = accepted[j][1] /\ accepted[i][2] = accepted[j][2] => i = j

\* "The old ones stop working" (mfa.ts): the codes that work are of one set.  Two sets made at
\* the same moment both stay, as the DELETE of the second does not see what the first inserts.
OneSetOfCodes == \A x, y \in Unused : x[1] = y[1]

\* Two-step verification that is off leaves no verified device behind, which would stand in
\* the way of every later confirmation.
OffLeavesNothing == ~enabled => With("verified") = {}
=============================================================================
