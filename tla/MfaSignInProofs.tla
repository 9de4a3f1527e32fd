-------------------------- MODULE MfaSignInProofs --------------------------
(***************************************************************************)
(* The properties of MfaSignIn for every set of pending sign-ins, calls    *)
(* and recovery codes, every number of tries and every length of time.     *)
(***************************************************************************)
EXTENDS MfaSignIn, FiniteSetTheorems, TLAPS

\* A sign-in is for a pending sign-in, and a DELETE is the next statement of its transaction.
StageOfOp ==
  \A r \in Requests :
    /\ Op(r) \in {"sign-in", "recover"} => call[r].budget \in PendingSignIns
    /\ pc[r] = "accepted" => Op(r) \in {"sign-in", "recover"}
    /\ pc[r] = "deleting" => At(r, "devices") \/ At(r, "codes")

\* A pending sign-in that has a session is completed.
SessionsComplete == \A x \in sessions : completed[x[1]]

\* Whoever looks at a code has been counted.
Tried(b) == {r \in Requests : <<b, r>> \in looked}
TriesCounted == \A b \in Budget : IsFiniteSet(Tried(b)) /\ Cardinality(Tried(b)) <= attempts[b]

\* A device is on file, locked or known from a code only once its setup has committed, so that
\* none comes on file again under the name of one whose codes were accepted.
Inserted(d) == d = FirstDevice \/ pc[d] = "ok"
DevicesInserted ==
  /\ \A d \in Device : devices[d].state # "none" => Inserted(d)
  /\ \A r \in Requests, d \in Device : d \in held[r] => Inserted(d)
  /\ \A i \in 1 .. Len(accepted) : Inserted(accepted[i][1])

\* Only an open transaction holds rows, and a confirmation no device but its own.
HeldByChanges ==
  \A r \in Requests :
    /\ pc[r] \notin {"changing", "deleting"} => held[r] = {}
    /\ \A d \in Device : Op(r) = "confirm" /\ d \in held[r] => d = matched[r][1]

\* last_used_step of a device on file is no earlier than any step accepted of it since it was
\* last confirmed.
LastIsLatest ==
  \A i \in 1 .. Len(accepted) :
    devices[accepted[i][1]].state # "none" =>
      \/ accepted[i][2] <= devices[accepted[i][1]].last
      \/ ConfirmedAgain(i, Len(accepted))

IInv == /\ TypeOK /\ StageOfOp /\ SessionsComplete /\ TriesCounted /\ DevicesInserted /\ HeldByChanges /\ LastIsLatest
        /\ OneSession /\ BudgetKept /\ CodesSpent
-----------------------------------------------------------------------------
LEMMA Kinds ==
  /\ UserRow \in Row /\ Device \subseteq Row /\ RecoveryCode \subseteq Row
  /\ Requests \subseteq Device /\ FirstDevice \in Device
  /\ \A d \in Device : d \in Requests \/ d = FirstDevice
BY DEF Row, Device

LEMMA Numbers ==
  ASSUME TypeOK
  PROVE  /\ now \in Nat /\ LastStep \in Nat /\ 1 <= now /\ now <= LastStep
         /\ \A b \in Budget : attempts[b] \in Nat
         /\ \A d \in Device : devices[d].last \in Int
         /\ \A r \in Requests : done[r] \in Nat
<1>1. now \in Nat /\ LastStep \in Nat /\ 1 <= now /\ now <= LastStep
  BY BoundAssumption DEF TypeOK
<1>2. \A b \in Budget : attempts[b] \in Nat
  BY DEF TypeOK
<1>3. \A d \in Device : devices[d].last \in Int
  <2>1. Step \cup {Never} \subseteq Int
    BY <1>1 DEF Step, Never
  <2>2. \A d \in Device : devices[d].last \in Step \cup {Never}
    BY DEF TypeOK
  <2>3. QED
    BY <2>1, <2>2
<1>4. \A r \in Requests : done[r] \in Nat
  <2>1. \A r \in Requests : done[r] \in 0 .. 3
    BY DEF TypeOK
  <2>2. QED
    BY <2>1
<1>5. QED
  BY <1>1, <1>2, <1>3, <1>4

LEMMA OpsAre ==
  ASSUME TypeOK, NEW r \in Requests
  PROVE  Op(r) \in Operation
<1>1. call[r] \in Call
  BY DEF TypeOK
<1>2. QED
  BY <1>1 DEF Op, Call

LEMMA AcceptedKinds ==
  ASSUME TypeOK
  PROVE  /\ Len(accepted) \in Nat
         /\ \A i \in 1 .. Len(accepted) : accepted[i][1] \in Device /\ accepted[i][2] \in Int
<1>1. accepted \in Seq(Device \X Step \X Operation)
  BY DEF TypeOK
<1>2. Len(accepted) \in Nat /\ \A i \in 1 .. Len(accepted) : accepted[i] \in Device \X Step \X Operation
  BY <1>1
<1>3. Step \subseteq Int
  BY Numbers DEF Step
<1>4. \A x \in Device \X Step \X Operation : x[1] \in Device /\ x[2] \in Step
  OBVIOUS
<1>5. QED
  BY <1>2, <1>3, <1>4

\* One more code is accepted: what was confirmed again still is, and a confirmation is one
\* for every code of its device before it.
LEMMA OneMore ==
  ASSUME TypeOK, NEW d \in Device, NEW s \in Step, NEW op \in Operation, NEW n \in Nat, n = Len(accepted),
         accepted' = Append(accepted, <<d, s, op>>)
  PROVE  /\ Len(accepted)' = n + 1
         /\ accepted'[n + 1][1] = d /\ accepted'[n + 1][2] = s
         /\ \A i \in 1 .. n : accepted'[i] = accepted[i]
         /\ \A i, j \in 1 .. n : ConfirmedAgain(i, j) => ConfirmedAgain(i, j)'
         /\ \A i \in 1 .. n : ConfirmedAgain(i, n) => ConfirmedAgain(i, n + 1)'
         /\ op = "confirm" => \A i \in 1 .. n : accepted[i][1] = d => ConfirmedAgain(i, n + 1)'
<1>1. accepted \in Seq(Device \X Step \X Operation)
  BY DEF TypeOK
<1>2. /\ Len(accepted') = n + 1 /\ accepted'[n + 1] = <<d, s, op>>
      /\ \A i \in 1 .. n : accepted'[i] = accepted[i]
  BY <1>1
<1>3. ASSUME NEW i \in 1 .. n, NEW j \in 1 .. n, NEW m \in j .. n + 1, ConfirmedAgain(i, j)
      PROVE  ConfirmedAgain(i, m)'
  <2>1. PICK k \in i + 1 .. j : accepted[k][1] = accepted[i][1] /\ accepted[k][3] = "confirm"
    BY <1>3 DEF ConfirmedAgain
  <2>2. k \in 1 .. n /\ k \in i + 1 .. m
    OBVIOUS
  <2>3. QED
    BY <1>2, <2>1, <2>2 DEF ConfirmedAgain
<1>4. ASSUME op = "confirm", NEW i \in 1 .. n, accepted[i][1] = d PROVE ConfirmedAgain(i, n + 1)'
  <2>1. n + 1 \in i + 1 .. n + 1
    OBVIOUS
  <2>2. QED
    BY <1>2, <1>4, <2>1 DEF ConfirmedAgain
<1>5. QED
  BY <1>2, <1>3, <1>4

LEMMA StatementsCount ==
  ASSUME TypeOK, NEW r \in Requests, done[r] < Len(Statements(Op(r)))
  PROVE  done[r] + 1 \in 0 .. 3
<1>1. Len(Statements(Op(r))) \in 0 .. 3
  BY DEF Statements
<1>2. done[r] \in Nat
  BY Numbers
<1>3. PICK n \in 0 .. 3 : Len(Statements(Op(r))) = n
  BY <1>1
<1>4. done[r] < n
  BY <1>3
<1>5. QED
  BY <1>2, <1>4

LEMMA FoundAreRows ==
  ASSUME TypeOK, NEW r \in Requests
  PROVE  Found(r) \subseteq Row
BY Kinds DEF Found, With, OnFile, TypeOK
-----------------------------------------------------------------------------
LEMMA Start == Init => IInv
<1> SUFFICES ASSUME Init PROVE IInv
  OBVIOUS
<1>1. TypeOK
  <2>1. now \in 1 .. LastStep /\ enabled \in BOOLEAN
    BY BoundAssumption DEF Init
  <2>2. devices \in [Device -> [state : {"none", "waiting", "verified"}, last : Step \cup {Never}]]
    BY DEF Init, None
  <2>3. recovery \subseteq RecoveryCode
    BY Kinds DEF Init, RecoveryCode
  <2>4. matched \in [Requests -> Device \X Step]
    BY BoundAssumption, Kinds DEF Init, Step
  <2>5. call \in [Requests -> Call] /\ pc \in [Requests -> Stage]
    BY DEF Init, Call, Operation, Budget, Stage
  <2>6. setups \in Seq(Requests)
    BY DEF Init
  <2>7. QED
    BY <2>1, <2>2, <2>3, <2>4, <2>5, <2>6 DEF TypeOK, Init
<1>2. SessionsComplete /\ LastIsLatest /\ OneSession /\ CodesSpent
  BY DEF Init, SessionsComplete, LastIsLatest, OneSession, CodesSpent, OncePerConfirmation, RecoveryOnce
<1>3. \A b \in Budget : Tried(b) = {} /\ attempts[b] = 0
  BY DEF Init, Tried
<1>4. TriesCounted /\ BudgetKept
  <2>1. IsFiniteSet({}) /\ Cardinality({}) = 0
    BY FS_EmptySet
  <2>2. TriesCounted
    BY <1>3, <2>1 DEF TriesCounted
  <2>3. \A b \in Budget : Cardinality(Tried(b)) <= MAX_CODE_ATTEMPTS
    BY <1>3, <2>1, BoundAssumption
  <2>4. QED
    BY <2>2, <2>3 DEF BudgetKept, Tried
<1>5. DevicesInserted
  BY DEF Init, DevicesInserted, Inserted, None
<1>6. HeldByChanges
  BY DEF Init, HeldByChanges
<1>7. StageOfOp
  BY DEF Init, StageOfOp, Op
<1>8. QED
  BY <1>1, <1>2, <1>4, <1>5, <1>6, <1>7 DEF IInv
-----------------------------------------------------------------------------
(* Every step keeps the kinds of the variables. *)

LEMMA SignInTyped ==
  ASSUME TypeOK, StageOfOp, NEW r \in Requests, SignIn(r)
  PROVE  TypeOK'
<1>1. CASE BeginSignIn(r)
  <2>1. PICK b \in PendingSignIns, op \in {"sign-in", "recover"} : Begin(r, op, b)
    BY <1>1 DEF BeginSignIn
  <2>2. [op |-> op, budget |-> b] \in Call
    BY DEF Call, Operation, Budget
  <2>3. call' \in [Requests -> Call] /\ pc' \in [Requests -> Stage]
    BY <2>1, <2>2 DEF Begin, Goto, Stage, TypeOK
  <2>4. QED
    BY <1>1, <2>3 DEF BeginSignIn, account, budgets, history, change, TypeOK
<1>2. CASE SpendRecoveryCode(r)
  <2>1. spent' \subseteq RecoveryCode \X Requests
    BY <1>2 DEF SpendRecoveryCode, Unused, TypeOK
  <2>2. pc' \in [Requests -> Stage]
    BY <1>2 DEF SpendRecoveryCode, Goto, Stage, TypeOK
  <2>3. QED
    BY <1>2, <2>1, <2>2 DEF SpendRecoveryCode, account, budgets, change, TypeOK
<1>3. CASE FinishSignIn(r)
  <2>1. pc' \in [Requests -> Stage]
    <3>1. pc' = [pc EXCEPT ![r] = "ok"] \/ pc' = [pc EXCEPT ![r] = "failed"]
      BY <1>3 DEF FinishSignIn, Goto
    <3>2. QED
      BY <3>1 DEF Stage, TypeOK
  <2>2. completed' \in [Budget -> BOOLEAN]
    BY <1>3 DEF FinishSignIn, TypeOK
  <2>3. sessions' \subseteq PendingSignIns \X Requests
    <3>1. sessions' = sessions \/ sessions' = sessions \cup {<<call[r].budget, r>>}
      BY <1>3 DEF FinishSignIn
    <3>2. call[r].budget \in PendingSignIns
      BY <1>3 DEF FinishSignIn, StageOfOp
    <3>3. QED
      BY <3>1, <3>2 DEF TypeOK
  <2>4. QED
    BY <1>3, <2>1, <2>2, <2>3 DEF FinishSignIn, account, change, TypeOK
<1>4. QED
  BY <1>1, <1>2, <1>3 DEF SignIn

LEMMA CheckCodeTyped ==
  ASSUME TypeOK, NEW r \in Requests, CheckCode(r)
  PROVE  TypeOK'
<1>1. CASE ReserveAttempt(r)
  <2>1. call[r].budget \in Budget
    BY DEF TypeOK, Call
  <2>2. attempts' \in [Budget -> Nat]
    BY <1>1, <2>1 DEF ReserveAttempt, TypeOK
  <2>3. looked' \subseteq Budget \X Requests
    BY <1>1, <2>1 DEF ReserveAttempt, TypeOK
  <2>4. pc' \in [Requests -> Stage]
    BY <1>1 DEF ReserveAttempt, Goto, Stage, TypeOK
  <2>5. QED
    BY <1>1, <2>2, <2>3, <2>4 DEF ReserveAttempt, account, change, TypeOK
<1>2. CASE MatchCode(r)
  <2>1. PICK d \in Looks(r) : \E c \in ValidCodes(d) : matched' = [matched EXCEPT ![r] = c]
    BY <1>2 DEF MatchCode
  <2>2. d \in Device
    BY DEF Looks, Latest, With
  <2>3. ValidCodes(d) \subseteq Device \X Step
    BY <2>2, Numbers DEF ValidCodes, Step
  <2>4. matched' \in [Requests -> Device \X Step]
    BY <2>1, <2>3 DEF TypeOK
  <2>5. pc' \in [Requests -> Stage]
    BY <1>2 DEF MatchCode, Goto, Stage, TypeOK
  <2>6. QED
    BY <1>2, <2>4, <2>5 DEF MatchCode, account, budgets, history, change, TypeOK
<1>3. CASE RefuseCode(r)
  <2>1. pc' \in [Requests -> Stage]
    BY <1>3 DEF RefuseCode, Goto, Stage, TypeOK
  <2>2. QED
    BY <1>3, <2>1 DEF RefuseCode, account, budgets, history, change, TypeOK
<1>4. CASE AcceptCode(r)
  <2>1. matched[r][1] \in Device /\ matched[r][2] \in Step
    BY DEF TypeOK
  <2>2. devices' \in [Device -> [state : {"none", "waiting", "verified"}, last : Step \cup {Never}]]
    <3>1. devices' = devices \/ devices' = [devices EXCEPT ![matched[r][1]].last = matched[r][2]]
      BY <1>4 DEF AcceptCode
    <3>2. [devices[matched[r][1]] EXCEPT !.last = matched[r][2]]
            \in [state : {"none", "waiting", "verified"}, last : Step \cup {Never}]
      <4>1. devices[matched[r][1]] \in [state : {"none", "waiting", "verified"}, last : Step \cup {Never}]
        BY <2>1 DEF TypeOK
      <4>2. QED
        BY <2>1, <4>1
    <3>3. QED
      BY <2>1, <3>1, <3>2 DEF TypeOK
  <2>3. accepted' \in Seq(Device \X Step \X Operation)
    <3>1. accepted \in Seq(Device \X Step \X Operation) /\ <<matched[r][1], matched[r][2], Op(r)>> \in Device \X Step \X Operation
      BY <2>1, OpsAre DEF TypeOK
    <3>2. accepted' = accepted \/ accepted' = Append(accepted, <<matched[r][1], matched[r][2], Op(r)>>)
      BY <1>4 DEF AcceptCode
    <3>3. QED
      BY <3>1, <3>2
  <2>4. pc' \in [Requests -> Stage]
    BY <1>4 DEF AcceptCode, Goto, Stage, TypeOK
  <2>5. QED
    BY <1>4, <2>2, <2>3, <2>4 DEF AcceptCode, budgets, change, TypeOK
<1>5. QED
  BY <1>1, <1>2, <1>3, <1>4 DEF CheckCode

LEMMA EndedTyped ==
  ASSUME TypeOK, NEW r \in Requests, done[r] < Len(Statements(Op(r))), NEW rows, rows \subseteq Row, Ended(r, rows)
  PROVE  done' \in [Requests -> 0 .. 3] /\ held' \in [Requests -> SUBSET Row]
<1>1. done[r] + 1 \in 0 .. 3
  BY StatementsCount
<1>2. held[r] \cup rows \subseteq Row
  BY DEF TypeOK
<1>3. QED
  BY <1>1, <1>2 DEF Ended, TypeOK

LEMMA ChangeTyped ==
  ASSUME TypeOK, StageOfOp, NEW r \in Requests, Change(r)
  PROVE  TypeOK'
<1>1. CASE BeginChange(r)
  <2>1. PICK op \in {"disable", "regenerate", "setup", "confirm"} : Begin(r, op, Session)
    BY <1>1 DEF BeginChange
  <2>2. [op |-> op, budget |-> Session] \in Call
    BY DEF Call, Operation, Budget
  <2>3. call' \in [Requests -> Call] /\ pc' \in [Requests -> Stage]
    BY <2>1, <2>2 DEF Begin, Goto, Stage, TypeOK
  <2>4. QED
    BY <1>1, <2>3 DEF BeginChange, account, budgets, history, change, TypeOK
<1>2. CASE BeginSetup(r)
  <2>1. setups' \in Seq(Requests)
    BY <1>2 DEF BeginSetup, TypeOK
  <2>2. pc' \in [Requests -> Stage]
    BY <1>2 DEF BeginSetup, Goto, Stage, TypeOK
  <2>3. QED
    BY <1>2, <2>1, <2>2 DEF BeginSetup, budgets, history, change, TypeOK
<1>3. CASE BeginDelete(r)
  <2>1. saw' \in [Requests -> SUBSET Row]
    BY <1>3, FoundAreRows DEF BeginDelete, TypeOK
  <2>2. pc' \in [Requests -> Stage]
    BY <1>3 DEF BeginDelete, Goto, Stage, TypeOK
  <2>3. QED
    BY <1>3, <2>1, <2>2 DEF BeginDelete, account, budgets, history, TypeOK
<1>4. CASE EndDelete(r)
  <2>1. pc' \in [Requests -> Stage]
    BY <1>4 DEF EndDelete, Goto, Stage, TypeOK
  <2>2. saw[r] \cap Found(r) \subseteq Row
    BY FoundAreRows
  <2>3. done' \in [Requests -> 0 .. 3] /\ held' \in [Requests -> SUBSET Row]
    <3>1. done[r] < Len(Statements(Op(r)))
      BY <1>4 DEF EndDelete, StageOfOp, At
    <3>2. QED
      BY <1>4, <2>2, <3>1, EndedTyped DEF EndDelete
  <2>4. QED
    BY <1>4, <2>1, <2>3 DEF EndDelete, account, budgets, history, TypeOK
<1>5. CASE VerifyDevice(r)
  <2>1. matched[r][1] \in Device
    BY DEF TypeOK
  <2>2. pc' \in [Requests -> Stage]
    <3>1. pc' = pc \/ pc' = [pc EXCEPT ![r] = "failed"]
      BY <1>5 DEF VerifyDevice, Goto
    <3>2. QED
      BY <3>1 DEF Stage, TypeOK
  <2>3. done' \in [Requests -> 0 .. 3] /\ held' \in [Requests -> SUBSET Row]
    <3>2. CASE \E rows \in SUBSET Row : Ended(r, rows)
      BY <1>5, <3>2, EndedTyped DEF VerifyDevice, At
    <3>3. CASE held' = [held EXCEPT ![r] = {}] /\ UNCHANGED done
      BY <3>3 DEF TypeOK
    <3>4. QED
      BY <1>5, <2>1, <3>2, <3>3, Kinds DEF VerifyDevice
  <2>4. QED
    BY <1>5, <2>2, <2>3 DEF VerifyDevice, account, budgets, history, TypeOK
<1>6. CASE UpdateUser(r)
  <2>1. done' \in [Requests -> 0 .. 3] /\ held' \in [Requests -> SUBSET Row]
    BY <1>6, Kinds, EndedTyped DEF UpdateUser, At
  <2>2. QED
    BY <1>6, <2>1 DEF UpdateUser, account, budgets, history, TypeOK
<1>7. CASE CommitChange(r)
  <2>1. matched[r][1] \in Device /\ matched[r][2] \in Step
    BY DEF TypeOK
  <2>2. devices' \in [Device -> [state : {"none", "waiting", "verified"}, last : Step \cup {Never}]]
    BY <1>7, <2>1 DEF CommitChange, DeviceAfter, None, TypeOK
  <2>3. accepted' \in Seq(Device \X Step \X Operation)
    <3>1. accepted \in Seq(Device \X Step \X Operation) /\ <<matched[r][1], matched[r][2], "confirm">> \in Device \X Step \X Operation
      BY <2>1 DEF TypeOK, Operation
    <3>2. accepted' = accepted \/ accepted' = Append(accepted, <<matched[r][1], matched[r][2], "confirm">>)
      BY <1>7 DEF CommitChange
    <3>3. QED
      BY <3>1, <3>2
  <2>4. recovery' \subseteq RecoveryCode
    BY <1>7, Kinds DEF CommitChange, RecoveryCode, TypeOK
  <2>5. pc' \in [Requests -> Stage] /\ held' \in [Requests -> SUBSET Row] /\ enabled' \in BOOLEAN
    BY <1>7 DEF CommitChange, Goto, Stage, TypeOK
  <2>6. QED
    BY <1>7, <2>2, <2>3, <2>4, <2>5 DEF CommitChange, budgets, TypeOK
<1>8. QED
  BY <1>1, <1>2, <1>3, <1>4, <1>5, <1>6, <1>7 DEF Change

LEMMA StepTyped ==
  ASSUME TypeOK, StageOfOp, [Next]_vars
  PROVE  TypeOK'
<1>1. CASE Tick
  <2>1. now' \in 1 .. LastStep
    BY <1>1, Numbers DEF Tick
  <2>2. QED
    BY <1>1, <2>1 DEF Tick, account, budgets, history, change, TypeOK
<1>2. ASSUME NEW r \in Requests, Fail(r) PROVE TypeOK'
  BY <1>2 DEF Fail, Goto, Stage, account, budgets, history, TypeOK
<1>3. CASE UNCHANGED vars
  BY <1>3 DEF vars, account, budgets, history, change, TypeOK
<1>4. QED
  BY <1>1, <1>2, <1>3, SignInTyped, CheckCodeTyped, ChangeTyped DEF Next
-----------------------------------------------------------------------------
(* Which steps change what. *)

Does(r) == SignIn(r) \/ CheckCode(r) \/ Change(r) \/ Fail(r)

LEMMA StepIsOne ==
  ASSUME [Next]_vars
  PROVE  UNCHANGED <<account, budgets, history, pc, call, matched, change>> \/ \E r \in Requests : Does(r)
<1>1. CASE Tick
  BY <1>1 DEF Tick
<1>2. CASE UNCHANGED vars
  BY <1>2 DEF vars
<1>3. QED
  BY <1>1, <1>2 DEF Next, Does

\* A step of one call leaves the others where they are.
Own(r) == \A q \in Requests \ {r} : /\ pc'[q] = pc[q] /\ call'[q] = call[q] /\ matched'[q] = matched[q]
                                   /\ done'[q] = done[q] /\ held'[q] = held[q]

LEMMA OthersStay ==
  ASSUME TypeOK, NEW r \in Requests, Does(r)
  PROVE  Own(r)
<1>1. CASE SignIn(r)
  BY <1>1 DEF SignIn, BeginSignIn, SpendRecoveryCode, FinishSignIn, Begin, Goto, change, Own, TypeOK
<1>2. CASE CheckCode(r)
  BY <1>2 DEF CheckCode, ReserveAttempt, MatchCode, RefuseCode, AcceptCode, Goto, change, Own, TypeOK
<1>3. CASE Change(r)
  <2>1. CASE BeginChange(r) \/ BeginSetup(r)
    BY <2>1 DEF BeginChange, BeginSetup, Begin, Goto, change, Own, TypeOK
  <2>2. CASE BeginDelete(r) \/ EndDelete(r)
    BY <2>2 DEF BeginDelete, EndDelete, Ended, Goto, Own, TypeOK
  <2>3. CASE VerifyDevice(r) \/ UpdateUser(r)
    BY <2>3 DEF VerifyDevice, UpdateUser, Ended, Goto, Own, TypeOK
  <2>4. CASE CommitChange(r)
    BY <2>4 DEF CommitChange, Goto, Own, TypeOK
  <2>5. QED
    BY <1>3, <2>1, <2>2, <2>3, <2>4 DEF Change
<1>4. CASE Fail(r)
  BY <1>4 DEF Fail, Goto, Own, TypeOK
<1>5. QED
  BY <1>1, <1>2, <1>3, <1>4 DEF Does

LEMMA OkStays ==
  ASSUME TypeOK, [Next]_vars, NEW q \in Requests, pc[q] = "ok"
  PROVE  pc'[q] = "ok"
<1>1. ASSUME NEW r \in Requests, Does(r), r # q PROVE pc'[q] = "ok"
  BY <1>1, OthersStay DEF Own
<1>2. ASSUME Does(q) PROVE FALSE
  BY <1>2 DEF Does, SignIn, CheckCode, Change, BeginSignIn, BeginChange, Begin, BeginSetup, ReserveAttempt,
              MatchCode, RefuseCode, AcceptCode, SpendRecoveryCode, FinishSignIn, BeginDelete, EndDelete,
              VerifyDevice, UpdateUser, CommitChange, Fail
<1>3. QED
  BY <1>1, <1>2, StepIsOne

LEMMA WhoChanges ==
  ASSUME NEW r \in Requests, Does(r)
  PROVE  /\ UNCHANGED <<sessions, completed>> \/ FinishSignIn(r)
         /\ UNCHANGED <<looked, attempts>> \/ ReserveAttempt(r)
         /\ UNCHANGED <<devices, accepted>> \/ AcceptCode(r) \/ CommitChange(r)
         /\ UNCHANGED <<recovery, spent>> \/ SpendRecoveryCode(r) \/ CommitChange(r)
         /\ UNCHANGED held \/ EndDelete(r) \/ VerifyDevice(r) \/ UpdateUser(r) \/ CommitChange(r) \/ Fail(r)
         /\ UNCHANGED matched \/ MatchCode(r)
         /\ UNCHANGED call \/ BeginSignIn(r) \/ BeginChange(r)
<1>1. CASE SignIn(r)
  BY <1>1 DEF SignIn, BeginSignIn, SpendRecoveryCode, FinishSignIn, account, budgets, history, change
<1>2. CASE CheckCode(r)
  BY <1>2 DEF CheckCode, ReserveAttempt, MatchCode, RefuseCode, AcceptCode, account, budgets, history, change
<1>3. CASE Change(r)
  BY <1>3 DEF Change, BeginChange, BeginSetup, BeginDelete, EndDelete, VerifyDevice, UpdateUser, CommitChange,
              account, budgets, history, change
<1>4. CASE Fail(r)
  BY <1>4 DEF Fail, account, budgets, history
<1>5. QED
  BY <1>1, <1>2, <1>3, <1>4 DEF Does
-----------------------------------------------------------------------------
(* The parts of the invariant, one after the other. *)

LEMMA StageKept ==
  ASSUME TypeOK, StageOfOp, [Next]_vars
  PROVE  StageOfOp'
<1> DEFINE Part(q) == /\ Op(q) \in {"sign-in", "recover"} => call[q].budget \in PendingSignIns
                      /\ pc[q] = "accepted" => Op(q) \in {"sign-in", "recover"}
                      /\ pc[q] = "deleting" => At(q, "devices") \/ At(q, "codes")
<1>1. ASSUME NEW r \in Requests, Does(r), NEW q \in Requests, q # r PROVE Part(q)'
  <2>1. pc'[q] = pc[q] /\ call'[q] = call[q] /\ done'[q] = done[q]
    BY <1>1, OthersStay DEF Own
  <2>2. Op(q)' = Op(q)
    BY <2>1 DEF Op
  <2>3. Part(q)
    BY DEF StageOfOp
  <2>4. QED
    BY <2>1, <2>2, <2>3 DEF At
<1>2. ASSUME NEW r \in Requests, Does(r) PROVE Part(r)'
  <2>1. CASE BeginSignIn(r)
    <3>1. PICK b \in PendingSignIns, op \in {"sign-in", "recover"} : Begin(r, op, b)
      BY <2>1 DEF BeginSignIn
    <3>2. pc'[r] = "begun" /\ call'[r] = [op |-> op, budget |-> b]
      BY <3>1 DEF Begin, Goto, TypeOK
    <3>3. QED
      BY <3>2 DEF Op
  <2>2. CASE BeginChange(r)
    <3>1. PICK op \in {"disable", "regenerate", "setup", "confirm"} : Begin(r, op, Session)
      BY <2>2 DEF BeginChange
    <3>2. pc'[r] = "begun" /\ call'[r] = [op |-> op, budget |-> Session]
      BY <3>1 DEF Begin, Goto, TypeOK
    <3>3. QED
      BY <3>2 DEF Op
  <2>3. CASE ~BeginSignIn(r) /\ ~BeginChange(r)
    <3>1. call' = call /\ Op(r)' = Op(r)
      BY <1>2, <2>3, WhoChanges DEF Op
    <3>2. pc'[r] = "accepted" => Op(r) \in {"sign-in", "recover"}
      BY <1>2, <2>3 DEF Does, SignIn, CheckCode, Change, BeginSetup, ReserveAttempt,
              MatchCode, RefuseCode, AcceptCode, SpendRecoveryCode, FinishSignIn, BeginDelete, EndDelete,
              VerifyDevice, UpdateUser, CommitChange, Fail, Goto, TypeOK
    <3>3. pc'[r] = "deleting" => BeginDelete(r)
      BY <1>2, <2>3 DEF Does, SignIn, CheckCode, Change, BeginSetup, ReserveAttempt,
              MatchCode, RefuseCode, AcceptCode, SpendRecoveryCode, FinishSignIn, EndDelete,
              VerifyDevice, UpdateUser, CommitChange, Fail, Goto, TypeOK
    <3>4. BeginDelete(r) => At(r, "devices")' \/ At(r, "codes")'
      BY <3>1 DEF BeginDelete, At
    <3>5. QED
      BY <3>1, <3>2, <3>3, <3>4 DEF StageOfOp
  <2>4. QED
    BY <2>1, <2>2, <2>3
<1>3. CASE UNCHANGED <<account, budgets, history, pc, call, matched, change>>
  BY <1>3 DEF StageOfOp, Op, At, change
<1>4. QED
  BY <1>1, <1>2, <1>3, StepIsOne DEF StageOfOp

\* The UPDATE of completed_at gives one session to a pending sign-in.
LEMMA SessionsKept ==
  ASSUME TypeOK, StageOfOp, SessionsComplete, OneSession, [Next]_vars
  PROVE  SessionsComplete' /\ OneSession'
<1>1. ASSUME NEW r \in Requests, FinishSignIn(r) PROVE SessionsComplete' /\ OneSession'
  <2>1. CASE UNCHANGED <<completed, sessions>>
    BY <2>1 DEF SessionsComplete, OneSession
  <2>2. CASE ~completed[call[r].budget]
    <3>1. /\ completed' = [completed EXCEPT ![call[r].budget] = TRUE]
          /\ sessions' = sessions \cup {<<call[r].budget, r>>}
      BY <1>1, <2>2 DEF FinishSignIn
    <3>2. call[r].budget \in Budget
      BY DEF TypeOK, Call
    <3>3. \A x \in sessions : x[1] # call[r].budget /\ x[1] \in Budget
      BY <2>2 DEF SessionsComplete, TypeOK, Budget
    <3>4. SessionsComplete'
      BY <3>1, <3>2, <3>3 DEF SessionsComplete, TypeOK
    <3>5. OneSession'
      BY <3>1, <3>3 DEF OneSession
    <3>6. QED
      BY <3>4, <3>5
  <2>3. QED
    BY <1>1, <2>1, <2>2 DEF FinishSignIn
<1>2. CASE UNCHANGED <<sessions, completed>>
  BY <1>2 DEF SessionsComplete, OneSession
<1>3. QED
  BY <1>1, <1>2, StepIsOne, WhoChanges DEF history, budgets

\* A try is counted before the code is looked at.
LEMMA TriesKept ==
  ASSUME TypeOK, TriesCounted, BudgetKept, [Next]_vars
  PROVE  TriesCounted' /\ BudgetKept'
<1>1. ASSUME NEW r \in Requests, ReserveAttempt(r) PROVE TriesCounted' /\ BudgetKept'
  <2> DEFINE b == call[r].budget
  <2>1. b \in Budget /\ attempts' = [attempts EXCEPT ![b] = @ + 1]
    BY <1>1 DEF ReserveAttempt, TypeOK, Call
  <2>2. looked' = looked \/ (looked' = looked \cup {<<b, r>>} /\ attempts[b] + 1 <= MAX_CODE_ATTEMPTS)
    BY <1>1, <2>1, Numbers, BoundAssumption DEF ReserveAttempt
  <2>3. ASSUME NEW c \in Budget
        PROVE  /\ IsFiniteSet(Tried(c)') /\ Cardinality(Tried(c)') <= attempts'[c]
               /\ Cardinality(Tried(c)') <= MAX_CODE_ATTEMPTS
    <3>1. IsFiniteSet(Tried(c)) /\ Cardinality(Tried(c)) <= attempts[c] /\ attempts[c] <= attempts'[c]
          /\ Cardinality(Tried(c)) <= MAX_CODE_ATTEMPTS
      <4>1. attempts[c] \in Nat /\ attempts'[c] = IF c = b THEN attempts[c] + 1 ELSE attempts[c]
        BY <2>1 DEF TypeOK
      <4>2. attempts[c] <= attempts'[c]
        BY <4>1
      <4>3. Cardinality(Tried(c)) <= MAX_CODE_ATTEMPTS
        BY DEF BudgetKept, Tried
      <4>4. QED
        BY <4>2, <4>3 DEF TriesCounted
    <3>2. Cardinality(Tried(c)) \in Nat /\ attempts[c] \in Nat /\ attempts'[c] \in Nat
      BY <3>1, <2>1, FS_CardinalityType, Numbers DEF TypeOK
    <3>3. CASE Tried(c)' = Tried(c)
      BY <3>1, <3>2, <3>3, BoundAssumption
    <3>4. CASE c = b /\ looked' = looked \cup {<<b, r>>} /\ attempts[b] + 1 <= MAX_CODE_ATTEMPTS
      <4>1. Tried(c)' = Tried(c) \cup {r}
        BY <3>4 DEF Tried
      <4>2. IsFiniteSet(Tried(c)') /\ Cardinality(Tried(c)') <= Cardinality(Tried(c)) + 1
            /\ Cardinality(Tried(c)') \in Nat
        <5>1. /\ IsFiniteSet(Tried(c) \cup {r})
              /\ Cardinality(Tried(c) \cup {r}) = IF r \in Tried(c) THEN Cardinality(Tried(c)) ELSE Cardinality(Tried(c)) + 1
          BY <3>1, FS_AddElement
        <5>2. QED
          BY <3>2, <4>1, <5>1
      <4>3. attempts'[c] = attempts[c] + 1
        BY <2>1, <3>4 DEF TypeOK
      <4>4. QED
        BY <3>1, <3>2, <3>4, <4>2, <4>3, BoundAssumption
    <3>5. looked' = looked \/ c # b => Tried(c)' = Tried(c)
      BY <2>2 DEF Tried
    <3>6. QED
      BY <2>2, <3>3, <3>4, <3>5
  <2>4. QED
    BY <2>3 DEF TriesCounted, BudgetKept, Tried
<1>2. CASE UNCHANGED <<looked, attempts>>
  BY <1>2 DEF TriesCounted, BudgetKept, Tried
<1>3. QED
  BY <1>1, <1>2, StepIsOne, WhoChanges DEF history, budgets

LEMMA InsertedStays ==
  ASSUME TypeOK, [Next]_vars, NEW d \in Device, Inserted(d)
  PROVE  Inserted(d)'
BY OkStays, Kinds DEF Inserted

LEMMA DevicesKept ==
  ASSUME TypeOK, DevicesInserted, [Next]_vars
  PROVE  DevicesInserted'
<1>1. ASSUME NEW r \in Requests, Does(r), NEW d \in Device, devices'[d].state # "none" PROVE Inserted(d)'
  <2>1. CASE devices[d].state # "none"
    BY <2>1, InsertedStays DEF DevicesInserted
  <2>2. CASE AcceptCode(r)
    <3>1. devices' = devices \/ devices' = [devices EXCEPT ![matched[r][1]].last = matched[r][2]]
      BY <2>2 DEF AcceptCode
    <3>2. devices'[d].state = devices[d].state
      <4>1. devices[d] \in [state : {"none", "waiting", "verified"}, last : Step \cup {Never}] /\ d \in DOMAIN devices
        BY DEF TypeOK
      <4>2. d = matched[r][1] /\ devices' # devices => devices'[d] = [devices[d] EXCEPT !.last = matched[r][2]]
        BY <3>1, <4>1
      <4>3. d # matched[r][1] => devices'[d] = devices[d]
        BY <3>1, <4>1
      <4>4. QED
        BY <4>1, <4>2, <4>3
    <3>3. QED
      BY <1>1, <2>1, <3>2
  <2>3. CASE CommitChange(r)
    <3>1. devices'[d] = DeviceAfter(r, d) /\ pc'[r] = "ok"
      BY <2>3 DEF CommitChange, Goto, TypeOK
    <3>2. d \in held[r] \/ d = r \/ devices'[d] = devices[d]
      BY <3>1 DEF DeviceAfter
    <3>3. d \in held[r] => Inserted(d)'
      BY InsertedStays DEF DevicesInserted
    <3>4. d = r => Inserted(d)'
      BY <3>1 DEF Inserted
    <3>5. QED
      BY <1>1, <2>1, <3>2, <3>3, <3>4
  <2>4. QED
    BY <1>1, <2>1, <2>2, <2>3, WhoChanges
<1>2. ASSUME NEW r \in Requests, Does(r), NEW q \in Requests, NEW d \in Device, d \in held'[q] PROVE Inserted(d)'
  <2>1. CASE d \in held[q]
    BY <2>1, InsertedStays DEF DevicesInserted
  <2>2. CASE devices[d].state # "none"
    BY <2>2, InsertedStays DEF DevicesInserted
  <2>3. q # r => held'[q] = held[q]
    BY <1>2, OthersStay DEF Own
  <2>4. d \in held'[r] => d \in held[r] \/ devices[d].state # "none"
    <3>1. CASE EndDelete(r)
      <4>1. held'[r] = held[r] \cup (saw[r] \cap Found(r))
        BY <3>1 DEF EndDelete, Ended, TypeOK
      <4>2. d \in Found(r) => devices[d].state # "none"
        BY RowsAssumption DEF Found, OnFile, With, TypeOK
      <4>3. QED
        BY <4>1, <4>2
    <3>2. CASE VerifyDevice(r)
      <4>1. d \in held'[r] => d \in held[r] \/ (d = matched[r][1] /\ d \in OnFile)
        BY <3>2 DEF VerifyDevice, Ended, TypeOK
      <4>2. QED
        BY <4>1 DEF OnFile, With
    <3>3. CASE UpdateUser(r)
      BY <3>3, RowsAssumption DEF UpdateUser, Ended, TypeOK
    <3>4. CASE CommitChange(r) \/ Fail(r)
      BY <3>4 DEF CommitChange, Fail, TypeOK
    <3>5. QED
      BY <1>2, <3>1, <3>2, <3>3, <3>4, WhoChanges
  <2>5. QED
    BY <1>2, <2>1, <2>2, <2>3, <2>4
<1>3. ASSUME NEW r \in Requests, Does(r)
      PROVE  (\A i \in 1 .. Len(accepted) : Inserted(accepted[i][1]))'
  <2>1. PICK n \in Nat, d \in Device : n = Len(accepted) /\ d = matched[r][1]
    BY AcceptedKinds DEF TypeOK
  <2>2. \A e \in Device : Inserted(e) => Inserted(e)'
    BY InsertedStays
  <2>3. \A i \in 1 .. n : accepted[i][1] \in Device /\ Inserted(accepted[i][1])
    BY <2>1, AcceptedKinds DEF DevicesInserted
  <2>4. CASE accepted' = accepted
    BY <2>1, <2>2, <2>3, <2>4
  <2>5. ASSUME NEW op \in Operation, accepted' = Append(accepted, <<d, matched[r][2], op>>), Inserted(d)
        PROVE  (\A i \in 1 .. Len(accepted) : Inserted(accepted[i][1]))'
    <3>1. matched[r][2] \in Step
      BY DEF TypeOK
    <3>2. /\ Len(accepted') = n + 1 /\ accepted'[n + 1][1] = d
          /\ \A i \in 1 .. n : accepted'[i] = accepted[i]
      BY <2>1, <2>5, <3>1, OneMore
    <3>3. ASSUME NEW i \in 1 .. n + 1
          PROVE  \E e \in Device : Inserted(e) /\ e = accepted'[i][1]
      <4>1. i \in 1 .. n \/ i = n + 1
        BY <2>1
      <4>2. QED
        BY <2>3, <2>5, <3>2, <4>1
    <3>4. QED
      BY <2>2, <3>2, <3>3
  <2>6. CASE AcceptCode(r)
    <3>1. CASE devices[d].state # "none"
      BY <2>1, <2>4, <2>5, <2>6, <3>1, OpsAre DEF AcceptCode, DevicesInserted
    <3>2. QED
      BY <2>1, <2>4, <2>6, <3>1 DEF AcceptCode
  <2>7. CASE CommitChange(r)
    <3>1. CASE d \in held[r]
      BY <2>1, <2>4, <2>5, <2>7, <3>1 DEF CommitChange, Operation, DevicesInserted
    <3>2. QED
      BY <2>1, <2>4, <2>7, <3>1 DEF CommitChange
  <2>8. QED
    BY <1>3, <2>4, <2>6, <2>7, WhoChanges
<1>4. CASE UNCHANGED <<account, budgets, history, pc, call, matched, change>>
  BY <1>4 DEF DevicesInserted, Inserted, account, history, change
<1>5. QED
  BY <1>1, <1>2, <1>3, <1>4, StepIsOne DEF DevicesInserted

LEMMA HeldKept ==
  ASSUME TypeOK, StageOfOp, HeldByChanges, [Next]_vars
  PROVE  HeldByChanges'
<1> DEFINE Part(q) == /\ pc[q] \notin {"changing", "deleting"} => held[q] = {}
                      /\ \A d \in Device : Op(q) = "confirm" /\ d \in held[q] => d = matched[q][1]
<1>1. ASSUME NEW r \in Requests, Does(r), NEW q \in Requests, q # r PROVE Part(q)'
  <2>1. pc'[q] = pc[q] /\ Op(q)' = Op(q) /\ held'[q] = held[q] /\ matched'[q] = matched[q]
    BY <1>1, OthersStay DEF Own, Op
  <2>2. QED
    BY <2>1 DEF HeldByChanges
<1>2. ASSUME NEW r \in Requests, Does(r) PROVE Part(r)'
  <2>1. CASE pc[r] \notin {"changing", "deleting"}
    <3>1. held[r] = {}
      BY <2>1 DEF HeldByChanges
    <3>2. ~EndDelete(r) /\ ~VerifyDevice(r) /\ ~UpdateUser(r) /\ ~CommitChange(r)
      BY <2>1 DEF EndDelete, VerifyDevice, UpdateUser, CommitChange
    <3>3. Fail(r) => held'[r] = {}
      BY DEF Fail, TypeOK
    <3>4. held'[r] = {}
      BY <1>2, <3>1, <3>2, <3>3, WhoChanges
    <3>5. QED
      BY <3>4
  <2>2. CASE pc[r] \in {"changing", "deleting"}
    <3>1. ~MatchCode(r) /\ ~BeginSignIn(r) /\ ~BeginChange(r)
      BY <2>2 DEF MatchCode, BeginSignIn, BeginChange, Begin
    <3>2. call' = call /\ matched' = matched /\ Op(r)' = Op(r)
      BY <1>2, <3>1, WhoChanges DEF Op
    <3>3. CASE EndDelete(r)
      <4>1. held'[r] = held[r] \cup (saw[r] \cap Found(r)) /\ pc'[r] = "changing"
        BY <3>3 DEF EndDelete, Ended, Goto, TypeOK
      <4>2. Op(r) = "confirm" => Found(r) \cap Device = {}
        <5>1. Op(r) = "confirm" => ~At(r, "devices")
          BY Numbers DEF At, Statements
        <5>2. Op(r) = "confirm" => At(r, "codes")
          BY <3>3, <5>1 DEF EndDelete, StageOfOp
        <5>3. QED
          BY <5>2, RowsAssumption DEF Found, TypeOK
      <4>3. QED
        BY <3>2, <4>1, <4>2 DEF HeldByChanges
    <3>4. CASE VerifyDevice(r)
      <4>1. pc'[r] \in {"changing", "failed"} /\ (pc'[r] = "failed" => held'[r] = {})
            /\ held'[r] \subseteq held[r] \cup {matched[r][1]}
        BY <3>4 DEF VerifyDevice, Ended, Goto, TypeOK
      <4>2. QED
        BY <3>2, <4>1 DEF HeldByChanges
    <3>5. CASE UpdateUser(r)
      <4>1. pc'[r] = "changing" /\ held'[r] = held[r] \cup {UserRow}
        BY <3>5 DEF UpdateUser, Ended, TypeOK
      <4>2. QED
        BY <3>2, <4>1, RowsAssumption DEF HeldByChanges
    <3>6. CASE CommitChange(r) \/ Fail(r)
      <4>1. held'[r] = {}
        BY <3>6 DEF CommitChange, Fail, TypeOK
      <4>2. QED
        BY <4>1
    <3>7. CASE held' = held /\ ~VerifyDevice(r) /\ ~CommitChange(r) /\ ~Fail(r)
      <4>1. pc'[r] \in {"changing", "deleting"}
        BY <1>2, <2>2, <3>7 DEF Does, SignIn, CheckCode, Change, BeginSignIn, BeginChange, Begin, BeginSetup,
             ReserveAttempt, MatchCode, RefuseCode, AcceptCode, SpendRecoveryCode, FinishSignIn, BeginDelete,
             EndDelete, UpdateUser, Goto, TypeOK
      <4>2. QED
        BY <3>2, <3>7, <4>1 DEF HeldByChanges
    <3>8. QED
      BY <1>2, <3>3, <3>4, <3>5, <3>6, <3>7, WhoChanges
  <2>3. QED
    BY <2>1, <2>2
<1>3. CASE UNCHANGED <<account, budgets, history, pc, call, matched, change>>
  BY <1>3 DEF HeldByChanges, Op, change
<1>4. QED
  BY <1>1, <1>2, <1>3, StepIsOne DEF HeldByChanges

\* Accepting a code moves last_used_step on, a confirmation starts it anew, and nothing else
\* touches it.
LEMMA CodesKept ==
  ASSUME TypeOK, DevicesInserted, HeldByChanges, LastIsLatest, OncePerConfirmation, [Next]_vars
  PROVE  LastIsLatest' /\ OncePerConfirmation'
<1>1. PICK n \in Nat : n = Len(accepted)
  BY AcceptedKinds
<1>2. /\ \A i \in 1 .. n : accepted[i][1] \in Device /\ accepted[i][2] \in Int
      /\ \A e \in Device : devices[e].last \in Int
  BY <1>1, AcceptedKinds, Numbers
<1>3. ASSUME UNCHANGED accepted,
             \A i \in 1 .. n : devices'[accepted[i][1]].state # "none" => devices'[accepted[i][1]] = devices[accepted[i][1]]
      PROVE  LastIsLatest' /\ OncePerConfirmation'
  BY <1>1, <1>3 DEF LastIsLatest, OncePerConfirmation, ConfirmedAgain
\* One more is accepted: an earlier one of the same device is of an earlier step, or was
\* confirmed again, or is by this one.
<1>4. ASSUME NEW d \in Device, NEW s \in Step, NEW op \in Operation, accepted' = Append(accepted, <<d, s, op>>),
             devices'[d].last = s, op = "confirm" \/ (devices[d].state # "none" /\ devices[d].last < s),
             \A e \in Device \ {d} : devices'[e].state # "none" => devices'[e] = devices[e]
      PROVE  LastIsLatest' /\ OncePerConfirmation'
  <2>1. /\ Len(accepted') = n + 1 /\ accepted'[n + 1][1] = d /\ accepted'[n + 1][2] = s
        /\ \A i \in 1 .. n : accepted'[i] = accepted[i]
    BY <1>1, <1>4, OneMore
  <2>2. /\ \A i, j \in 1 .. n : ConfirmedAgain(i, j) => ConfirmedAgain(i, j)'
        /\ \A i \in 1 .. n : ConfirmedAgain(i, n) => ConfirmedAgain(i, n + 1)'
        /\ op = "confirm" => \A i \in 1 .. n : accepted[i][1] = d => ConfirmedAgain(i, n + 1)'
    BY <1>1, <1>4, OneMore
  <2>3. s \in Int
    BY Numbers DEF Step
  <2>4. ASSUME NEW i \in 1 .. n, accepted[i][1] = d PROVE accepted[i][2] < s \/ ConfirmedAgain(i, n + 1)'
    <3>1. CASE op = "confirm"
      BY <2>2, <2>4, <3>1
    <3>2. CASE devices[d].state # "none" /\ devices[d].last < s
      <4>1. accepted[i][2] <= devices[d].last \/ ConfirmedAgain(i, n)
        BY <1>1, <2>4, <3>2 DEF LastIsLatest
      <4>2. QED
        BY <1>2, <2>2, <2>3, <3>2, <4>1
    <3>3. QED
      BY <1>4, <3>1, <3>2
  <2>5. ASSUME NEW i \in 1 .. n + 1, devices'[accepted'[i][1]].state # "none"
        PROVE  accepted'[i][2] <= devices'[accepted'[i][1]].last \/ ConfirmedAgain(i, n + 1)'
    <3>1. CASE i = n + 1
      BY <1>4, <2>1, <2>3, <3>1
    <3>2. CASE i \in 1 .. n /\ accepted[i][1] = d
      BY <1>2, <1>4, <2>1, <2>3, <2>4, <3>2
    <3>3. CASE i \in 1 .. n /\ accepted[i][1] # d
      <4>1. devices'[accepted[i][1]] = devices[accepted[i][1]] /\ devices[accepted[i][1]].state # "none"
        BY <1>2, <1>4, <2>1, <2>5, <3>3
      <4>2. accepted[i][2] <= devices[accepted[i][1]].last \/ ConfirmedAgain(i, n)
        BY <1>1, <3>3, <4>1 DEF LastIsLatest
      <4>3. QED
        BY <2>1, <2>2, <3>3, <4>1, <4>2
    <3>4. i \in 1 .. n \/ i = n + 1
      BY <1>1
    <3>5. QED
      BY <3>1, <3>2, <3>3, <3>4
  <2>6. LastIsLatest'
    BY <2>1, <2>5 DEF LastIsLatest, ConfirmedAgain
  <2>7. ASSUME NEW i \in 1 .. n + 1, NEW j \in 1 .. n + 1, i < j,
               accepted'[i][1] = accepted'[j][1], accepted'[i][2] = accepted'[j][2]
        PROVE  ConfirmedAgain(i, j)'
    <3>1. i \in 1 .. n /\ (j \in 1 .. n \/ j = n + 1)
      BY <1>1, <2>7
    <3>2. CASE j \in 1 .. n
      <4>1. ConfirmedAgain(i, j)
        BY <1>1, <2>1, <2>7, <3>1, <3>2 DEF OncePerConfirmation
      <4>2. QED
        BY <2>2, <3>1, <3>2, <4>1
    <3>3. CASE j = n + 1
      <4>1. accepted[i][1] = d /\ accepted[i][2] = s
        BY <2>1, <2>7, <3>1, <3>3
      <4>2. ~(accepted[i][2] < s)
        BY <2>3, <4>1
      <4>3. QED
        BY <2>4, <3>1, <3>3, <4>1, <4>2
    <3>4. QED
      BY <3>1, <3>2, <3>3
  <2>8. OncePerConfirmation'
    BY <2>1, <2>7 DEF OncePerConfirmation, ConfirmedAgain
  <2>9. QED
    BY <2>6, <2>8
<1>5. ASSUME NEW r \in Requests, AcceptCode(r) PROVE LastIsLatest' /\ OncePerConfirmation'
  <2> DEFINE d == matched[r][1]
             s == matched[r][2]
  <2>1. CASE UNCHANGED <<devices, accepted>>
    BY <1>3, <2>1
  <2>2. CASE devices[d].state # "none" /\ devices[d].last < s
    <3>1. devices' = [devices EXCEPT ![d].last = s] /\ accepted' = Append(accepted, <<d, s, Op(r)>>)
      BY <1>5, <2>2 DEF AcceptCode
    <3>2. d \in Device /\ s \in Step /\ Op(r) \in Operation
      BY OpsAre DEF TypeOK
    <3>3. devices'[d].last = s /\ \A e \in Device \ {d} : devices'[e] = devices[e]
      <4>1. d \in DOMAIN devices /\ "last" \in DOMAIN devices[d]
        BY <3>2 DEF TypeOK
      <4>2. QED
        BY <3>1, <3>2, <4>1 DEF TypeOK
    <3>4. QED
      BY <1>4, <2>2, <3>1, <3>2, <3>3
  <2>3. QED
    BY <1>5, <2>1, <2>2 DEF AcceptCode
<1>6. ASSUME NEW r \in Requests, CommitChange(r) PROVE LastIsLatest' /\ OncePerConfirmation'
  <2> DEFINE d == matched[r][1]
             s == matched[r][2]
  <2>1. d \in Device /\ s \in Step /\ "confirm" \in Operation
    BY DEF TypeOK, Operation
  <2>2. \A e \in Device : devices'[e] = DeviceAfter(r, e)
    BY <1>6 DEF CommitChange
  <2>3. ASSUME NEW e \in Device, e # r, ~(Op(r) = "confirm" /\ e = d /\ d \in held[r]), devices'[e].state # "none"
        PROVE  devices'[e] = devices[e]
    <3>1. e \notin held[r]
      BY <2>1, <2>2, <2>3 DEF HeldByChanges, DeviceAfter, None
    <3>2. QED
      BY <2>2, <2>3, <3>1 DEF DeviceAfter
  <2>4. pc[r] # "ok" /\ r # FirstDevice
    BY <1>6, BudgetAssumption DEF CommitChange
  <2>5. CASE Op(r) = "confirm" /\ d \in held[r]
    <3>1. accepted' = Append(accepted, <<d, s, "confirm">>) /\ devices'[d].last = s
      BY <1>6, <2>1, <2>2, <2>5 DEF CommitChange, DeviceAfter
    <3>2. ASSUME NEW e \in Device \ {d}, devices'[e].state # "none" PROVE devices'[e] = devices[e]
      <4>1. CASE e = r
        <5>1. r \notin held[r]
          BY <2>4, <4>1 DEF DevicesInserted, Inserted
        <5>2. QED
          BY <2>2, <2>5, <4>1, <5>1 DEF DeviceAfter
      <4>2. QED
        BY <2>3, <3>2, <4>1
    <3>3. QED
      BY <1>4, <2>1, <3>1, <3>2
  <2>6. CASE ~(Op(r) = "confirm" /\ d \in held[r])
    <3>1. accepted' = accepted
      BY <1>6, <2>6 DEF CommitChange
    <3>2. \A i \in 1 .. n : accepted[i][1] # r
      BY <1>1, <2>4 DEF DevicesInserted, Inserted
    <3>3. QED
      BY <1>2, <1>3, <2>3, <2>6, <3>1, <3>2
  <2>7. QED
    BY <2>5, <2>6
<1>7. CASE UNCHANGED <<devices, accepted>>
  BY <1>3, <1>7
<1>8. QED
  BY <1>5, <1>6, <1>7, StepIsOne, WhoChanges DEF history, account

\* The UPDATE of used_at finds only what is unused.
LEMMA RecoveryKept ==
  ASSUME RecoveryOnce, [Next]_vars
  PROVE  RecoveryOnce'
<1>1. ASSUME NEW r \in Requests, SpendRecoveryCode(r) PROVE RecoveryOnce'
  <2>1. PICK c \in Unused : spent' = spent \cup {<<c, r>>}
    BY <1>1 DEF SpendRecoveryCode
  <2>2. \A x \in spent : x[1] # c
    BY DEF Unused
  <2>3. QED
    BY <2>1, <2>2 DEF RecoveryOnce
<1>2. CASE UNCHANGED spent
  BY <1>2 DEF RecoveryOnce
<1>3. ASSUME NEW r \in Requests, CommitChange(r) PROVE UNCHANGED spent
  BY <1>3 DEF CommitChange
<1>4. QED
  BY <1>1, <1>2, <1>3, StepIsOne, WhoChanges DEF history
-----------------------------------------------------------------------------
\* The inductive invariant: what the histories say is what the rows say, a device comes on
\* file once, and only an open transaction holds rows (mfaService.ts).
THEOREM RowsTell == Spec => []IInv
<1>1. IInv /\ [Next]_vars => IInv'
  BY StepTyped, StageKept, SessionsKept, TriesKept, DevicesKept, HeldKept, CodesKept, RecoveryKept DEF IInv, CodesSpent
<1>2. QED
  BY Start, <1>1, PTL DEF Spec

\* Every variable keeps its type, for any calls, codes and times.
THEOREM MfaTypes == Spec => []TypeOK
<1>1. IInv => TypeOK
  BY DEF IInv
<1>2. QED
  BY RowsTell, <1>1, PTL

\* A pending sign-in becomes one session at most, however many right codes of either kind
\* arrive for it (finishing in checkCode and verifySignInRecoveryCode).
THEOREM OneSessionEach == Spec => []OneSession
<1>1. IInv => OneSession
  BY DEF IInv
<1>2. QED
  BY RowsTell, <1>1, PTL

\* No budget has more codes looked at than MAX_CODE_ATTEMPTS, for any number of calls at the
\* same moment (countAttempt).
THEOREM BudgetsKept == Spec => []BudgetKept
<1>1. IInv => BudgetKept
  BY DEF IInv
<1>2. QED
  BY RowsTell, <1>1, PTL

\* A recovery code is accepted once, and a 6-digit code of a device twice only when the device
\* was confirmed in between, beside any setups, confirmations and removals (the UPDATEs of
\* last_used_step, where checkCode's has a condition and verifyAndEnableMFA's none, and of used_at).
THEOREM CodesStaySpent == Spec => []CodesSpent
<1>1. IInv => CodesSpent
  BY DEF IInv
<1>2. QED
  BY RowsTell, <1>1, PTL
=============================================================================
