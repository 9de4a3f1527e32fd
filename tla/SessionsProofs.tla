--------------------------- MODULE SessionsProofs ---------------------------
(***************************************************************************)
(* The properties of Sessions for every set of sign-ins, every limit and   *)
(* every length of a token and a session. What is let in within a window   *)
(* is never more than its row has counted, and a row of the list of        *)
(* signed-out sessions says when the session would have ended.             *)
(* And those of Availability, which decides whether a request gets that    *)
(* far, for every number of steps, every size of the pool and every set of *)
(* requests: the gate has been told of the start exactly when the          *)
(* supervisor serves, and it serves when no step is left.                  *)
(***************************************************************************)
EXTENDS Sessions, Availability, FiniteSetTheorems, TLAPS

\* Only a session that has begun is asked anything, and its sign-in time stays.
AskedOf == \A s \in SignIns : asked[s] # {} => pc[s] = "signed in"

\* A row of the list is kept until the session it names would have ended.
OnTheList ==
  \A s \in SignIns :
    /\ revoked[s] # Never => revoked[s] = End(s)
    /\ revoked[s] # Never \/ s \in signedOut => pc[s] = "signed in"
    /\ s \in signedOut => revoked[s] # Never \/ now >= End(s)

\* The windows that were counted in: of the account the one of now was begun after its row
\* was last deleted, and no other began later.
Counting == {"account", "registrations"}
Window(l)   == <<l, counter[l].start, IF l = "account" THEN cleared ELSE 0>>
Windows ==
  /\ \A l \in Limit : counter[l].count > 0 => counter[l].start <= now
  /\ \A s \in SignIns : pc[s] \in {"idle", "asked"} => window[s][1] = "none"
  /\ \A s \in SignIns, l \in Limit : window[s][1] = l =>
       /\ l \in Counting /\ window[s][3] <= cleared
       /\ l = "registrations" => window[s][3] = 0
       /\ l = "registrations" \/ window[s][3] = cleared => counter[l].count > 0 /\ window[s][2] <= counter[l].start

\* Who was let in within the window of now has been counted in its row.
RowCounts == \A l \in Limit : counter[l].count > 0 => Cardinality(LetIn(Window(l))) <= counter[l].count

IInv == TypeOK /\ AskedOf /\ OnTheList /\ SessionEnds /\ Windows /\ RowCounts /\ GuessesBounded

-----------------------------------------------------------------------------
\* What is compared or added is a number.
LEMMA Numbers ==
  ASSUME TypeOK
  PROVE  /\ now \in Nat /\ now \in Int /\ cleared \in Nat
         /\ \A s \in SignIns : auth_time[s] \in Nat /\ exp[s] \in Nat /\ revoked[s] \in Int
         /\ \A s \in SignIns : End(s) \in Nat
         /\ \A l \in Limit : counter[l].count \in Nat /\ counter[l].start \in Nat
<1>1. now \in Nat /\ now \in Int /\ cleared \in Nat
  BY DEF TypeOK
<1>2. \A s \in SignIns : auth_time[s] \in Nat /\ exp[s] \in Nat /\ revoked[s] \in Int
  BY DEF TypeOK
<1>3. \A s \in SignIns : End(s) \in Nat
  BY <1>2, TimesAssumption DEF End
<1>4. \A l \in Limit : counter[l].count \in Nat /\ counter[l].start \in Nat
  BY DEF TypeOK
<1>5. QED
  BY <1>1, <1>2, <1>3, <1>4

\* Every limit has a number and a window of at least a second.
LEMMA LimitsAreNumbers ==
  \A l \in Limit : LIMITS[l].max \in Nat /\ LIMITS[l].windowSeconds \in Nat \ {0}
BY LimitsAssumption

\* A row that counts one more is a row.
LEMMA CountedRow ==
  ASSUME TypeOK, NEW l \in Limit
  PROVE  Counted(l) \in [count : Nat, start : Nat]
<1>1. counter[l] \in [count : Nat, start : Nat]
  BY DEF TypeOK
<1>2. [counter[l] EXCEPT !.count = @ + 1] \in [count : Nat, start : Nat]
  BY <1>1
<1>3. [count |-> 1, start |-> now] \in [count : Nat, start : Nat]
  BY Numbers
<1>4. QED
  BY <1>2, <1>3 DEF Counted

\* A count and a move to another stage keep their types.
LEMMA CountTypes ==
  ASSUME TypeOK, NEW s \in SignIns, NEW l \in Limit, NEW letIn \in Stage, Count(s, l, letIn)
  PROVE  /\ counter' \in [Limit -> [count : Nat, start : Nat]]
         /\ pc' \in [SignIns -> Stage]
         /\ window' \in [SignIns -> (Limit \cup {"none"}) \X Int \X Int]
<1>1. counter' \in [Limit -> [count : Nat, start : Nat]]
  BY CountedRow DEF Count, TypeOK
<1>2. pc' \in [SignIns -> Stage]
  BY DEF Count, Goto, TypeOK, Stage
<1>3. Counted(l).start \in Int /\ cleared \in Int
  BY CountedRow, Numbers
<1>4. <<l, Counted(l).start, IF l = "account" THEN cleared ELSE 0>> \in (Limit \cup {"none"}) \X Int \X Int
  BY <1>3
<1>5. window' \in [SignIns -> (Limit \cup {"none"}) \X Int \X Int]
  BY <1>4 DEF Count, InWindow, TypeOK
<1>6. QED
  BY <1>1, <1>2, <1>5

\* A sign-in that moves on is at a stage there is.
LEMMA GotoTypes ==
  ASSUME TypeOK, NEW s \in SignIns, NEW to \in Stage, Goto(s, to)
  PROVE  pc' \in [SignIns -> Stage]
BY DEF Goto, TypeOK

\* A session that starts is dated and its token has an end.
LEMMA StartTypes ==
  ASSUME TypeOK, NEW s \in SignIns, Start(s)
  PROVE  /\ auth_time' = [auth_time EXCEPT ![s] = now] /\ exp' = [exp EXCEPT ![s] = now + JWT_EXPIRY]
         /\ auth_time' \in [SignIns -> Nat] /\ exp' \in [SignIns -> Nat]
<1>1. auth_time' = [auth_time EXCEPT ![s] = now] /\ exp' = [exp EXCEPT ![s] = now + JWT_EXPIRY]
  BY DEF Start, Sign
<1>2. now \in Nat /\ now + JWT_EXPIRY \in Nat
  BY Numbers, TimesAssumption
<1>3. auth_time \in [SignIns -> Nat] /\ exp \in [SignIns -> Nat]
  BY DEF TypeOK
<1>4. QED
  BY <1>1, <1>2, <1>3

\* An extension leaves the expiry, or sets it to that of a token made for a session that has
\* not ended.
LEMMA ExtendedTo ==
  ASSUME TypeOK, NEW s \in SignIns, Refresh(s)
  PROVE  \/ exp' = exp
         \/ \E verified, looked, signed \in now .. (now + 1) :
              /\ verified <= looked /\ looked <= signed
              /\ verified - auth_time[s] <= MAX_SESSION_SECONDS
              /\ ExtendToken(s, looked, signed) \in Nat
              /\ exp' = [exp EXCEPT ![s] = ExtendToken(s, looked, signed)]
<1>1. PICK verified \in now .. (now + 1), looked \in now .. (now + 1), signed \in now .. (now + 1) :
        /\ verified <= looked /\ looked <= signed
        /\ exp' = IF verified < exp[s] /\ verified - auth_time[s] <= MAX_SESSION_SECONDS
                    THEN [exp EXCEPT ![s] = IF ExtendToken(s, looked, signed) > exp[s]
                                              THEN ExtendToken(s, looked, signed) ELSE exp[s]]
                    ELSE exp
  BY Zenon DEF Refresh
<1>2. ExtendToken(s, looked, signed) \in Nat
  BY Numbers, TimesAssumption DEF ExtendToken
<1>3. CASE ~(verified < exp[s] /\ verified - auth_time[s] <= MAX_SESSION_SECONDS)
  BY <1>1, <1>3
<1>4. CASE /\ verified - auth_time[s] <= MAX_SESSION_SECONDS
           /\ exp' = [exp EXCEPT ![s] = ExtendToken(s, looked, signed)]
  BY <1>1, <1>2, <1>4
<1>5. CASE exp' = [exp EXCEPT ![s] = exp[s]]
  BY <1>5 DEF TypeOK
<1>6. QED
  BY <1>1, <1>3, <1>4, <1>5

\* Types.
LEMMA TypesKept ==
  ASSUME TypeOK, [Next]_vars
  PROVE  TypeOK'
<1>1. CASE Tick
  BY <1>1, Numbers DEF Tick, limit, session, TypeOK
<1>2. ASSUME NEW s \in SignIns, AskAddress(s) PROVE TypeOK'
  BY <1>2 DEF AskAddress, Goto, session, limit, TypeOK, Stage
<1>3. ASSUME NEW s \in SignIns, CountAttempt(s) PROVE TypeOK'
  BY <1>3, CountTypes DEF CountAttempt, session, TypeOK, Limit, Stage
<1>4. ASSUME NEW s \in SignIns, WrongPassword(s) PROVE TypeOK'
  BY <1>4 DEF WrongPassword, Goto, session, limit, TypeOK, Stage
<1>5. ASSUME NEW s \in SignIns, CountFailure(s) PROVE TypeOK'
  <2>1. counter' \in [Limit -> [count : Nat, start : Nat]]
    BY <1>5, CountedRow DEF CountFailure, TypeOK, Limit
  <2>2. QED
    BY <1>5, <2>1, GotoTypes DEF CountFailure, session, TypeOK, Stage
<1>6. ASSUME NEW s \in SignIns, RightPassword(s) PROVE TypeOK'
  <2>1. pc' \in [SignIns -> Stage]
    BY <1>6, GotoTypes DEF RightPassword, Stage
  <2>2. auth_time' \in [SignIns -> Nat] /\ exp' \in [SignIns -> Nat]
    <3>1. now + PENDING_MFA_SECONDS \in Nat
      BY Numbers, TimesAssumption
    <3>2. QED
      BY <1>6, <3>1, StartTypes DEF RightPassword, Sign, TypeOK
  <2>3. QED
    BY <1>6, <2>1, <2>2 DEF RightPassword, TypeOK
<1>7. ASSUME NEW s \in SignIns, RightCode(s) PROVE TypeOK'
  BY <1>7 DEF RightCode, Goto, session, limit, TypeOK, Stage
<1>8. ASSUME NEW s \in SignIns, ClearAccount(s) PROVE TypeOK'
  <2>1. counter' \in [Limit -> [count : Nat, start : Nat]]
    BY <1>8 DEF ClearAccount, NoRow, TypeOK
  <2>2. pc' \in [SignIns -> Stage]
    BY <1>8 DEF ClearAccount, Goto, TypeOK, Stage
  <2>3. cleared' \in Nat
    <3>1. cleared' = cleared + 1
      BY <1>8 DEF ClearAccount
    <3>2. QED
      BY <3>1, Numbers
  <2>4. QED
    BY <1>8, <2>1, <2>2, <2>3 DEF ClearAccount, session, TypeOK
<1>9. ASSUME NEW s \in SignIns, CountRegistration(s) PROVE TypeOK'
  BY <1>9, CountTypes DEF CountRegistration, session, TypeOK, Limit, Stage
<1>10. ASSUME NEW s \in SignIns, SignToken(s) PROVE TypeOK'
  BY <1>10, StartTypes, GotoTypes DEF SignToken, TypeOK, Stage
<1>11. ASSUME NEW s \in SignIns, FailSignIn(s) PROVE TypeOK'
  BY <1>11 DEF FailSignIn, Goto, session, limit, TypeOK, Stage
<1>12. ASSUME NEW s \in SignIns, RevokeSession(s) PROVE TypeOK'
  <2>1. revoked' \in [SignIns -> Int]
    <3>1. End(s) \in Int
      BY Numbers
    <3>2. QED
      BY <1>12, <3>1 DEF RevokeSession, TypeOK
  <2>2. asked' \in [SignIns -> SUBSET Requests] /\ signedOut' \subseteq SignIns
    BY <1>12 DEF RevokeSession, TypeOK, Requests
  <2>3. QED
    BY <1>12, <2>1, <2>2 DEF RevokeSession, limit, TypeOK
<1>13. ASSUME NEW s \in SignIns, DeleteExpired(s) PROVE TypeOK'
  <2>1. revoked' \in [SignIns -> Int]
    <3>1. PICK bound \in {now, now + 1} :
            revoked' = [t \in SignIns |-> IF revoked[t] < bound THEN Never ELSE revoked[t]]
      BY <1>13 DEF DeleteExpired
    <3>2. Never \in Int /\ \A t \in SignIns : revoked[t] \in Int
      BY Numbers DEF Never
    <3>3. QED
      BY <3>1, <3>2
  <2>2. asked' \in [SignIns -> SUBSET Requests]
    BY <1>13 DEF DeleteExpired, Answered, TypeOK
  <2>3. QED
    BY <1>13, <2>1, <2>2 DEF DeleteExpired, limit, TypeOK
<1>14. ASSUME NEW s \in SignIns, Refresh(s) PROVE TypeOK'
  <2>1. exp' \in [SignIns -> Nat]
    BY <1>14, ExtendedTo, Numbers DEF TypeOK
  <2>2. asked' \in [SignIns -> SUBSET Requests]
    BY <1>14 DEF Refresh, Answered, TypeOK
  <2>3. QED
    BY <1>14, <2>1, <2>2 DEF Refresh, limit, TypeOK
<1>15. ASSUME NEW s \in SignIns, NEW request \in Requests, Admit(s, request) PROVE TypeOK'
  BY <1>15 DEF Admit, limit, session, TypeOK, Stage
<1>16. ASSUME NEW s \in SignIns, NEW request \in Requests, Fail(s, request) PROVE TypeOK'
  BY <1>16 DEF Fail, Answered, limit, session, TypeOK, Stage
<1>17. CASE UNCHANGED vars
  BY <1>17 DEF vars, limit, session, TypeOK
<1>18. QED
  BY <1>1, <1>2, <1>3, <1>4, <1>5, <1>6, <1>7, <1>8, <1>9, <1>10, <1>11, <1>12, <1>13, <1>14, <1>15, <1>16, <1>17 DEF Next, Login, Logout, Requests

\* Nobody leaves a session that has begun.
LEMMA AskedKept ==
  ASSUME TypeOK, AskedOf, [Next]_vars
  PROVE  AskedOf'
<1>1. CASE Tick
  BY <1>1 DEF Tick, limit, session, TypeOK, AskedOf
<1>2. ASSUME NEW s \in SignIns, AskAddress(s) PROVE AskedOf'
  BY <1>2 DEF AskAddress, Goto, session, limit, TypeOK, AskedOf
<1>3. ASSUME NEW s \in SignIns, CountAttempt(s) PROVE AskedOf'
  BY <1>3 DEF CountAttempt, Count, Goto, InWindow, session, limit, TypeOK, AskedOf
<1>4. ASSUME NEW s \in SignIns, WrongPassword(s) PROVE AskedOf'
  BY <1>4 DEF WrongPassword, Goto, session, limit, TypeOK, AskedOf
<1>5. ASSUME NEW s \in SignIns, CountFailure(s) PROVE AskedOf'
  BY <1>5 DEF CountFailure, Goto, session, limit, TypeOK, AskedOf
<1>6. ASSUME NEW s \in SignIns, RightPassword(s) PROVE AskedOf'
  BY <1>6 DEF RightPassword, Goto, Start, Sign, session, limit, TypeOK, AskedOf
<1>7. ASSUME NEW s \in SignIns, RightCode(s) PROVE AskedOf'
  BY <1>7 DEF RightCode, Goto, session, limit, TypeOK, AskedOf
<1>8. ASSUME NEW s \in SignIns, ClearAccount(s) PROVE AskedOf'
  BY <1>8 DEF ClearAccount, Goto, NoRow, session, limit, TypeOK, AskedOf
<1>9. ASSUME NEW s \in SignIns, CountRegistration(s) PROVE AskedOf'
  BY <1>9 DEF CountRegistration, Count, Goto, InWindow, session, limit, TypeOK, AskedOf
<1>10. ASSUME NEW s \in SignIns, SignToken(s) PROVE AskedOf'
  BY <1>10 DEF SignToken, Goto, Start, Sign, session, limit, TypeOK, AskedOf
<1>11. ASSUME NEW s \in SignIns, FailSignIn(s) PROVE AskedOf'
  BY <1>11 DEF FailSignIn, Goto, session, limit, TypeOK, AskedOf
<1>12. ASSUME NEW s \in SignIns, RevokeSession(s) PROVE AskedOf'
  BY <1>12 DEF RevokeSession, session, limit, TypeOK, AskedOf
<1>13. ASSUME NEW s \in SignIns, DeleteExpired(s) PROVE AskedOf'
  BY <1>13 DEF DeleteExpired, Answered, session, limit, TypeOK, AskedOf
<1>14. ASSUME NEW s \in SignIns, Refresh(s) PROVE AskedOf'
  BY <1>14 DEF Refresh, Answered, session, limit, TypeOK, AskedOf
<1>15. ASSUME NEW s \in SignIns, NEW request \in Requests, Admit(s, request) PROVE AskedOf'
  BY <1>15 DEF Admit, limit, session, TypeOK, AskedOf
<1>16. ASSUME NEW s \in SignIns, NEW request \in Requests, Fail(s, request) PROVE AskedOf'
  BY <1>16 DEF Fail, Answered, limit, session, TypeOK, AskedOf
<1>17. CASE UNCHANGED vars
  BY <1>17 DEF vars, limit, session, AskedOf
<1>18. QED
  BY <1>1, <1>2, <1>3, <1>4, <1>5, <1>6, <1>7, <1>8, <1>9, <1>10, <1>11, <1>12, <1>13, <1>14, <1>15, <1>16, <1>17 DEF Next, Login, Logout, Requests

\* The list; its rows are tidied when the session they name is over.
LEMMA ListKept ==
  ASSUME TypeOK, AskedOf, OnTheList, [Next]_vars
  PROVE  OnTheList'
<1>1. CASE Tick
  <2>1. \A s \in SignIns : now >= End(s) => now + 1 >= End(s)
    BY Numbers
  <2>2. QED
    BY <1>1, <2>1 DEF Tick, limit, session, OnTheList, End
<1>2. ASSUME NEW s \in SignIns, AskAddress(s) PROVE OnTheList'
  BY <1>2 DEF AskAddress, Goto, session, limit, TypeOK, AskedOf, OnTheList, End
<1>3. ASSUME NEW s \in SignIns, CountAttempt(s) PROVE OnTheList'
  BY <1>3 DEF CountAttempt, Count, Goto, InWindow, session, limit, TypeOK, AskedOf, OnTheList, End
<1>4. ASSUME NEW s \in SignIns, WrongPassword(s) PROVE OnTheList'
  BY <1>4 DEF WrongPassword, Goto, session, limit, TypeOK, AskedOf, OnTheList, End
<1>5. ASSUME NEW s \in SignIns, CountFailure(s) PROVE OnTheList'
  BY <1>5 DEF CountFailure, Goto, session, limit, TypeOK, AskedOf, OnTheList, End
<1>6. ASSUME NEW s \in SignIns, RightPassword(s) PROVE OnTheList'
  BY <1>6 DEF RightPassword, Goto, Start, Sign, session, limit, TypeOK, AskedOf, OnTheList, End
<1>7. ASSUME NEW s \in SignIns, RightCode(s) PROVE OnTheList'
  BY <1>7 DEF RightCode, Goto, session, limit, TypeOK, AskedOf, OnTheList, End
<1>8. ASSUME NEW s \in SignIns, ClearAccount(s) PROVE OnTheList'
  BY <1>8 DEF ClearAccount, Goto, NoRow, session, limit, TypeOK, AskedOf, OnTheList, End
<1>9. ASSUME NEW s \in SignIns, CountRegistration(s) PROVE OnTheList'
  BY <1>9 DEF CountRegistration, Count, Goto, InWindow, session, limit, TypeOK, AskedOf, OnTheList, End
<1>10. ASSUME NEW s \in SignIns, SignToken(s) PROVE OnTheList'
  BY <1>10 DEF SignToken, Goto, Start, Sign, session, limit, TypeOK, AskedOf, OnTheList, End
<1>11. ASSUME NEW s \in SignIns, FailSignIn(s) PROVE OnTheList'
  BY <1>11 DEF FailSignIn, Goto, session, limit, TypeOK, AskedOf, OnTheList, End
<1>12. ASSUME NEW s \in SignIns, RevokeSession(s) PROVE OnTheList'
  <2>1. \A t \in SignIns : End(t) \in Nat /\ End(t) # Never
    BY Numbers DEF Never
  <2>2. pc[s] = "signed in"
    BY <1>12 DEF RevokeSession, AskedOf
  <2>3. \A t \in SignIns : revoked'[t] = IF t = s /\ revoked[t] = Never THEN End(t) ELSE revoked[t]
    BY <1>12 DEF RevokeSession, TypeOK
  <2>4. now' = now /\ pc' = pc /\ auth_time' = auth_time /\ signedOut' = signedOut \cup {s}
    BY <1>12 DEF RevokeSession, limit
  <2>5. QED
    BY <2>1, <2>2, <2>3, <2>4 DEF OnTheList, End
<1>13. ASSUME NEW s \in SignIns, DeleteExpired(s) PROVE OnTheList'
  <2>1. PICK bound \in {now, now + 1} :
          revoked' = [t \in SignIns |-> IF revoked[t] < bound THEN Never ELSE revoked[t]]
    BY <1>13 DEF DeleteExpired
  <2>2. \A t \in SignIns : revoked'[t] # revoked[t] => revoked'[t] = Never /\ (revoked[t] = Never \/ now >= End(t))
    <3> SUFFICES ASSUME NEW t \in SignIns, revoked[t] < bound, revoked[t] # Never PROVE now >= End(t)
      BY <2>1
    <3>1. revoked[t] = End(t)
      BY DEF OnTheList
    <3>2. QED
      BY <3>1, Numbers
  <2>3. now' = now /\ pc' = pc /\ auth_time' = auth_time /\ signedOut' = signedOut
    BY <1>13 DEF DeleteExpired, limit
  <2>4. QED
    BY <2>2, <2>3 DEF OnTheList, End
<1>14. ASSUME NEW s \in SignIns, Refresh(s) PROVE OnTheList'
  BY <1>14 DEF Refresh, Answered, session, limit, TypeOK, AskedOf, OnTheList, End
<1>15. ASSUME NEW s \in SignIns, NEW request \in Requests, Admit(s, request) PROVE OnTheList'
  BY <1>15 DEF Admit, limit, session, TypeOK, AskedOf, OnTheList, End
<1>16. ASSUME NEW s \in SignIns, NEW request \in Requests, Fail(s, request) PROVE OnTheList'
  BY <1>16 DEF Fail, Answered, limit, session, TypeOK, AskedOf, OnTheList, End
<1>17. CASE UNCHANGED vars
  BY <1>17 DEF vars, limit, session, OnTheList, End
<1>18. QED
  BY <1>1, <1>2, <1>3, <1>4, <1>5, <1>6, <1>7, <1>8, <1>9, <1>10, <1>11, <1>12, <1>13, <1>14, <1>15, <1>16, <1>17 DEF Next, Login, Logout, Requests

\* The end; a token that is extended is signed at most a second after the look at the clock.
LEMMA EndKept ==
  ASSUME TypeOK, SessionEnds, [Next]_vars
  PROVE  SessionEnds'
<1>1. CASE Tick
  BY <1>1 DEF Tick, limit, session, SessionEnds, End
<1>2. ASSUME NEW s \in SignIns, AskAddress(s) PROVE SessionEnds'
  BY <1>2 DEF AskAddress, Goto, session, limit, TypeOK, SessionEnds, End
<1>3. ASSUME NEW s \in SignIns, CountAttempt(s) PROVE SessionEnds'
  BY <1>3 DEF CountAttempt, Count, Goto, InWindow, session, limit, TypeOK, SessionEnds, End
<1>4. ASSUME NEW s \in SignIns, WrongPassword(s) PROVE SessionEnds'
  BY <1>4 DEF WrongPassword, Goto, session, limit, TypeOK, SessionEnds, End
<1>5. ASSUME NEW s \in SignIns, CountFailure(s) PROVE SessionEnds'
  BY <1>5 DEF CountFailure, Goto, session, limit, TypeOK, SessionEnds, End
<1>6. ASSUME NEW s \in SignIns, RightPassword(s) PROVE SessionEnds'
  <2>1. CASE pc' = [pc EXCEPT ![s] = "right"] /\ Start(s)
    <3>1. now + JWT_EXPIRY <= now + MAX_SESSION_SECONDS + 2
      BY Numbers, TimesAssumption, ExpiryAssumption
    <3>2. auth_time' = [auth_time EXCEPT ![s] = now] /\ exp' = [exp EXCEPT ![s] = now + JWT_EXPIRY]
      BY <2>1, StartTypes
    <3>3. QED
      BY <2>1, <3>1, <3>2 DEF SessionEnds, End, TypeOK
  <2>2. CASE pc' = [pc EXCEPT ![s] = "pending"] /\ exp' = [exp EXCEPT ![s] = now + PENDING_MFA_SECONDS]
              /\ auth_time' = auth_time
    BY <2>2 DEF SessionEnds, End, TypeOK
  <2>3. QED
    BY <1>6, <2>1, <2>2 DEF RightPassword, Goto, Sign
<1>7. ASSUME NEW s \in SignIns, RightCode(s) PROVE SessionEnds'
  BY <1>7 DEF RightCode, Goto, session, limit, TypeOK, SessionEnds, End
<1>8. ASSUME NEW s \in SignIns, ClearAccount(s) PROVE SessionEnds'
  <2>1. \A t \in SignIns : pc'[t] \in {"right", "signed in"} => pc[t] \in {"right", "signed in"}
    BY <1>8 DEF ClearAccount, Goto, TypeOK
  <2>2. QED
    BY <1>8, <2>1 DEF ClearAccount, session, SessionEnds, End
<1>9. ASSUME NEW s \in SignIns, CountRegistration(s) PROVE SessionEnds'
  BY <1>9 DEF CountRegistration, Count, Goto, InWindow, session, limit, TypeOK, SessionEnds, End
<1>10. ASSUME NEW s \in SignIns, SignToken(s) PROVE SessionEnds'
  <2>1. now + JWT_EXPIRY <= now + MAX_SESSION_SECONDS + 2
    BY Numbers, TimesAssumption, ExpiryAssumption
  <2>2. auth_time' = [auth_time EXCEPT ![s] = now] /\ exp' = [exp EXCEPT ![s] = now + JWT_EXPIRY]
    BY <1>10, StartTypes DEF SignToken
  <2>3. pc' = [pc EXCEPT ![s] = "signed in"]
    BY <1>10 DEF SignToken, Goto
  <2>4. QED
    BY <2>1, <2>2, <2>3 DEF SessionEnds, End, TypeOK
<1>11. ASSUME NEW s \in SignIns, FailSignIn(s) PROVE SessionEnds'
  BY <1>11 DEF FailSignIn, Goto, session, limit, TypeOK, SessionEnds, End
<1>12. ASSUME NEW s \in SignIns, RevokeSession(s) PROVE SessionEnds'
  BY <1>12 DEF RevokeSession, session, limit, TypeOK, SessionEnds, End
<1>13. ASSUME NEW s \in SignIns, DeleteExpired(s) PROVE SessionEnds'
  BY <1>13 DEF DeleteExpired, Answered, session, limit, TypeOK, SessionEnds, End
<1>14. ASSUME NEW s \in SignIns, Refresh(s) PROVE SessionEnds'
  <2>1. CASE exp' = exp
    BY <1>14, <2>1 DEF Refresh, limit, SessionEnds, End
  <2>2. ASSUME NEW verified \in now .. (now + 1), NEW looked \in now .. (now + 1),
               NEW signed \in now .. (now + 1),
               verified <= looked, looked <= signed, verified - auth_time[s] <= MAX_SESSION_SECONDS,
               exp' = [exp EXCEPT ![s] = ExtendToken(s, looked, signed)]
        PROVE  SessionEnds'
    <3>1. verified <= End(s)
      BY <2>2, Numbers, TimesAssumption DEF End
    <3>2. ExtendToken(s, looked, signed) <= End(s) + 2
      BY <2>2, <3>1, Numbers, TimesAssumption DEF ExtendToken
    <3>3. QED
      BY <1>14, <2>2, <3>2 DEF Refresh, limit, SessionEnds, End, TypeOK
  <2>3. QED
    BY <1>14, <2>1, <2>2, ExtendedTo
<1>15. ASSUME NEW s \in SignIns, NEW request \in Requests, Admit(s, request) PROVE SessionEnds'
  BY <1>15 DEF Admit, limit, session, TypeOK, SessionEnds, End
<1>16. ASSUME NEW s \in SignIns, NEW request \in Requests, Fail(s, request) PROVE SessionEnds'
  BY <1>16 DEF Fail, Answered, limit, session, TypeOK, SessionEnds, End
<1>17. CASE UNCHANGED vars
  BY <1>17 DEF vars, limit, session, SessionEnds, End
<1>18. QED
  BY <1>1, <1>2, <1>3, <1>4, <1>5, <1>6, <1>7, <1>8, <1>9, <1>10, <1>11, <1>12, <1>13, <1>14, <1>15, <1>16, <1>17 DEF Next, Login, Logout, Requests

-----------------------------------------------------------------------------
\* How many were let in can be counted.
LEMMA LetInFinite == \A w : IsFiniteSet(LetIn(w)) /\ Cardinality(LetIn(w)) \in Nat
<1>1. \A w : LetIn(w) \subseteq SignIns
  BY DEF LetIn
<1>2. QED
  BY <1>1, FS_Subset, FS_CardinalityType, LimitsAssumption

\* A step that counts nothing leaves the windows and who was let in within them.
Quiet == /\ counter' = counter /\ cleared' = cleared /\ window' = window /\ now <= now'
         /\ \A s \in SignIns : window[s][1] # "none" =>
              (pc'[s] = "refused" <=> pc[s] = "refused") /\ pc'[s] \notin {"idle", "asked"}

\* Such a step keeps what is said of the windows.
LEMMA QuietKeeps ==
  ASSUME TypeOK, TypeOK', Windows, RowCounts, GuessesBounded, Quiet
  PROVE  Windows' /\ RowCounts' /\ GuessesBounded'
<1>1. \A w : w[1] # "none" => LetIn(w)' = LetIn(w)
  BY DEF Quiet, LetIn
<1>2. Windows'
  <2>1. \A l \in Limit : counter'[l].count > 0 => counter'[l].start <= now'
    BY Numbers DEF Quiet, Windows, TypeOK
  <2>2. \A s \in SignIns : pc'[s] \in {"idle", "asked"} => window'[s][1] = "none"
    BY DEF Quiet
  <2>3. QED
    BY <2>1, <2>2 DEF Quiet, Windows
<1>3. RowCounts'
  <2>1. \A l \in Limit : Window(l)' = Window(l) /\ Window(l)[1] # "none"
    BY DEF Quiet, Window, Limit
  <2>2. QED
    BY <1>1, <2>1 DEF Quiet, RowCounts
<1>4. GuessesBounded'
  BY <1>1 DEF Quiet, GuessesBounded
<1>5. QED
  BY <1>2, <1>3, <1>4

\* Every step is such a step, but the three counts and the deletion of a row.
LEMMA QuietSteps ==
  ASSUME TypeOK, Windows, [Next]_vars,
         ~\E s \in SignIns : CountAttempt(s) \/ CountFailure(s) \/ ClearAccount(s) \/ CountRegistration(s)
  PROVE  Quiet
<1> USE Numbers
<1>1. CASE Tick
  BY <1>1 DEF Tick, limit, Quiet, Windows
<1>2. ASSUME NEW s \in SignIns, AskAddress(s) PROVE Quiet
  BY <1>2 DEF AskAddress, Goto, Quiet, Windows, TypeOK
<1>3. ASSUME NEW s \in SignIns, WrongPassword(s) PROVE Quiet
  BY <1>3 DEF WrongPassword, Goto, Quiet, Windows, TypeOK
<1>4. ASSUME NEW s \in SignIns, RightPassword(s) PROVE Quiet
  BY <1>4 DEF RightPassword, Goto, Quiet, Windows, TypeOK
<1>5. ASSUME NEW s \in SignIns, RightCode(s) PROVE Quiet
  BY <1>5 DEF RightCode, Goto, Quiet, Windows, TypeOK
<1>6. ASSUME NEW s \in SignIns, SignToken(s) PROVE Quiet
  <2>1. pc[s] = "welcome" /\ pc' = [pc EXCEPT ![s] = "signed in"]
    BY <1>6 DEF SignToken, Goto
  <2>2. counter' = counter /\ cleared' = cleared /\ window' = window /\ now' = now
    BY <1>6 DEF SignToken
  <2>3. \A q \in SignIns : pc'[q] = pc[q] \/ (pc[q] = "welcome" /\ pc'[q] = "signed in")
    <3>1. DOMAIN pc = SignIns
      BY DEF TypeOK
    <3>2. pc[s] = "welcome" /\ pc'[s] = "signed in"
      BY <2>1, <3>1
    <3>3. ASSUME NEW q \in SignIns PROVE pc'[q] = pc[q] \/ (pc[q] = "welcome" /\ pc'[q] = "signed in")
      <4>1. CASE q = s
        BY <3>2, <4>1
      <4>2. CASE q # s
        BY <2>1, <3>1, <4>2
      <4>3. QED
        BY <4>1, <4>2
    <3>4. QED
      BY <3>3
  <2>4. \A q \in SignIns : window[q][1] # "none" => pc[q] \notin {"idle", "asked"}
    BY DEF Windows
  <2>5. \A q \in SignIns : window[q][1] # "none" =>
          (pc'[q] = "refused" <=> pc[q] = "refused") /\ pc'[q] \notin {"idle", "asked"}
    BY <2>3, <2>4
  <2>6. now <= now'
    BY <2>2
  <2>7. QED
    BY <2>2, <2>5, <2>6 DEF Quiet
<1>7. ASSUME NEW s \in SignIns, FailSignIn(s) PROVE Quiet
  BY <1>7 DEF FailSignIn, Goto, Quiet, Windows, TypeOK
<1>8. ASSUME NEW s \in SignIns, RevokeSession(s) PROVE Quiet
  BY <1>8 DEF RevokeSession, limit, Quiet, Windows, TypeOK
<1>9. ASSUME NEW s \in SignIns, DeleteExpired(s) PROVE Quiet
  BY <1>9 DEF DeleteExpired, limit, Quiet, Windows, TypeOK
<1>10. ASSUME NEW s \in SignIns, Refresh(s) PROVE Quiet
  BY <1>10 DEF Refresh, limit, Quiet, Windows, TypeOK
<1>11. ASSUME NEW s \in SignIns, NEW request \in Requests, Admit(s, request) PROVE Quiet
  <2>1. counter' = counter /\ cleared' = cleared /\ window' = window /\ now' = now /\ pc' = pc
    BY <1>11 DEF Admit, limit
  <2>2. QED
    BY <2>1 DEF Quiet, Windows
<1>12. ASSUME NEW s \in SignIns, NEW request \in Requests, Fail(s, request) PROVE Quiet
  BY <1>12 DEF Fail, limit, Quiet, Windows
<1>13. CASE UNCHANGED vars
  BY <1>13 DEF vars, limit, Quiet, Windows
<1>14. QED
  BY <1>1, <1>2, <1>3, <1>4, <1>5, <1>6, <1>7, <1>8, <1>9, <1>10, <1>11, <1>12, <1>13 DEF Next, Login, Logout, Requests

\* A counted sign-in finds room in its window, or is refused.
LEMMA CountKeeps ==
  ASSUME TypeOK, Windows, RowCounts, GuessesBounded, NEW s \in SignIns, NEW l \in Counting,
         window[s][1] = "none", NEW letIn \in Stage \ {"idle", "asked", "refused"}, Count(s, l, letIn),
         now' = now, cleared' = cleared
  PROVE  Windows' /\ RowCounts' /\ GuessesBounded'
<1>0a. PICK row : row = Counted(l)
  OBVIOUS
<1>0b. PICK w : w = <<l, row.start, IF l = "account" THEN cleared ELSE 0>>
  OBVIOUS
<1>1. /\ l \in Limit /\ row \in [count : Nat, start : Nat] /\ counter[l] \in [count : Nat, start : Nat]
      /\ LIMITS[l].max \in Nat /\ LIMITS[l].windowSeconds \in Nat \ {0} /\ now \in Nat /\ cleared \in Nat
  BY <1>0a, CountedRow, LimitsAreNumbers, Numbers DEF Counting, Limit, TypeOK
<1>2. /\ counter' = [counter EXCEPT ![l] = row]
      /\ pc' = [pc EXCEPT ![s] = IF row.count > LIMITS[l].max THEN "refused" ELSE letIn]
      /\ window' = [window EXCEPT ![s] = w]
  BY <1>0a, <1>0b DEF Count, Goto, Exhausted, InWindow
<1>3. \/ counter[l].count > 0 /\ row.count = counter[l].count + 1 /\ row.start = counter[l].start
      \/ row.count = 1 /\ row.start = now /\ (counter[l].count > 0 => counter[l].start < now)
  BY <1>0a, <1>1 DEF Counted
<1>4. row.count > 0 /\ row.start <= now
  BY <1>1, <1>3 DEF Windows
<1>5. \A q \in SignIns : window[q] = w => counter[l].count > 0 /\ row.start = counter[l].start
  <2> SUFFICES ASSUME NEW q \in SignIns, window[q] = w
               PROVE  counter[l].count > 0 /\ row.start = counter[l].start
    OBVIOUS
  <2>1. window[q][1] = l /\ window[q][2] = row.start /\ (l = "registrations" \/ window[q][3] = cleared)
    BY <1>0b DEF Counting
  <2>2. counter[l].count > 0 /\ row.start <= counter[l].start
    BY <1>1, <2>1 DEF Windows
  <2>3. QED
    BY <1>1, <1>3, <2>2
<1>6. Cardinality(LetIn(w)) < row.count
  <2>1. CASE counter[l].count > 0 /\ row.count = counter[l].count + 1 /\ row.start = counter[l].start
    <3>1. w = Window(l)
      BY <1>0b, <2>1 DEF Window
    <3>2. Cardinality(LetIn(w)) <= counter[l].count
      BY <1>1, <2>1, <3>1 DEF RowCounts
    <3>3. QED
      BY <1>1, <2>1, <3>2, LetInFinite
  <2>2. CASE row.count = 1 /\ row.start = now /\ (counter[l].count > 0 => counter[l].start < now)
    <3>1. LetIn(w) = {}
      BY <1>1, <1>5, <2>2 DEF LetIn
    <3>2. QED
      BY <2>2, <3>1, FS_EmptySet
  <2>3. QED
    BY <1>3, <2>1, <2>2
<1>7. Cardinality(LetIn(w)) <= LIMITS[l].max
  <2>1. CASE LetIn(w) = {}
    BY <1>1, <2>1, FS_EmptySet
  <2>2. CASE LetIn(w) # {}
    <3>1. PICK q \in SignIns : window[q] = w
      BY <2>2 DEF LetIn
    <3>2. window[q][1] = l /\ l # "none"
      BY <1>0b, <1>1, <3>1 DEF Limit
    <3>3. QED
      BY <3>1, <3>2 DEF GuessesBounded
  <2>3. QED
    BY <2>1, <2>2
<1>8. LetIn(w)' = IF row.count > LIMITS[l].max THEN LetIn(w) ELSE LetIn(w) \cup {s}
  <2>1. s \notin LetIn(w)
    BY <1>0b, <1>1 DEF LetIn, Limit
  <2>2. pc'[s] = (IF row.count > LIMITS[l].max THEN "refused" ELSE letIn) /\ window'[s] = w
    BY <1>2 DEF TypeOK
  <2>3. \A q \in SignIns \ {s} : pc'[q] = pc[q] /\ window'[q] = window[q]
    BY <1>2 DEF TypeOK
  <2>4. LetIn(w)' = {q \in SignIns : pc'[q] # "refused" /\ window'[q] = w}
    BY <1>2 DEF LetIn
  <2>5. QED
    BY <2>1, <2>2, <2>3, <2>4 DEF LetIn
<1>9. Cardinality(LetIn(w)') <= row.count /\ Cardinality(LetIn(w)') <= LIMITS[l].max
  <2>1. CASE row.count > LIMITS[l].max
    BY <1>1, <1>6, <1>7, <1>8, <2>1, LetInFinite
  <2>2. CASE ~(row.count > LIMITS[l].max)
    <3>1. IsFiniteSet(LetIn(w)) /\ Cardinality(LetIn(w)) \in Nat
      BY LetInFinite
    <3>2. Cardinality(LetIn(w) \cup {s}) = IF s \in LetIn(w) THEN Cardinality(LetIn(w)) ELSE Cardinality(LetIn(w)) + 1
      BY <3>1, FS_AddElement
    <3>3. Cardinality(LetIn(w) \cup {s}) \in Nat /\ Cardinality(LetIn(w) \cup {s}) <= row.count
      BY <1>1, <1>6, <3>1, <3>2
    <3>4. LetIn(w)' = LetIn(w) \cup {s}
      BY <1>8, <2>2
    <3>5. QED
      BY <1>1, <2>2, <3>3, <3>4
  <2>3. QED
    BY <2>1, <2>2
<1>10. \A v : v # w /\ v[1] # "none" => LetIn(v)' = LetIn(v)
  <2> SUFFICES ASSUME NEW v, v # w, v[1] # "none" PROVE LetIn(v)' = LetIn(v)
    OBVIOUS
  <2>1. s \notin LetIn(v)
    BY DEF LetIn
  <2>2. window'[s] = w
    BY <1>2 DEF TypeOK
  <2>3. \A q \in SignIns \ {s} : pc'[q] = pc[q] /\ window'[q] = window[q]
    BY <1>2 DEF TypeOK
  <2>4. LetIn(v)' = {q \in SignIns : pc'[q] # "refused" /\ window'[q] = v}
    BY DEF LetIn
  <2>5. QED
    BY <2>1, <2>2, <2>3, <2>4 DEF LetIn
<1>11. Windows'
  <2>1. counter'[l] = row /\ \A k \in Limit \ {l} : counter'[k] = counter[k]
    BY <1>1, <1>2 DEF TypeOK
  <2>2. window'[s] = w /\ \A q \in SignIns \ {s} : window'[q] = window[q]
    BY <1>2 DEF TypeOK
  <2>3. pc'[s] \notin {"idle", "asked"} /\ \A q \in SignIns \ {s} : pc'[q] = pc[q]
    BY <1>2 DEF TypeOK
  <2>4. \A k \in Limit : counter'[k].count > 0 => counter'[k].start <= now'
    BY <1>4, <2>1 DEF Windows
  <2>5. \A q \in SignIns : pc'[q] \in {"idle", "asked"} => window'[q][1] = "none"
    BY <2>2, <2>3 DEF Windows
  <2>6. w[1] = l /\ w[2] = row.start /\ w[3] <= cleared /\ (l = "registrations" => w[3] = 0)
    BY <1>0b, <1>1 DEF Counting
  <2>7. ASSUME NEW q \in SignIns \ {s}, NEW k \in Limit, window[q][1] = k
        PROVE  /\ k \in Counting /\ window[q][3] <= cleared
               /\ k = "registrations" => window[q][3] = 0
               /\ k = "registrations" \/ window[q][3] = cleared =>
                    counter'[k].count > 0 /\ window[q][2] <= counter'[k].start
    <3>1. CASE k # l
      BY <2>1, <2>7, <3>1 DEF Windows
    <3>2. CASE k = l
      <4>1. window[q][2] \in Int
        BY DEF TypeOK
      <4>2. counter[l].count > 0 => counter[l].start <= row.start
        BY <1>1, <1>3
      <4>3. QED
        BY <1>1, <1>4, <2>1, <2>7, <3>2, <4>1, <4>2 DEF Windows
    <3>3. QED
      BY <3>1, <3>2
  <2>8. ASSUME NEW q \in SignIns, NEW k \in Limit, window'[q][1] = k
        PROVE  /\ k \in Counting /\ window'[q][3] <= cleared'
               /\ k = "registrations" => window'[q][3] = 0
               /\ k = "registrations" \/ window'[q][3] = cleared' =>
                    counter'[k].count > 0 /\ window'[q][2] <= counter'[k].start
    <3>1. CASE q = s
      BY <1>1, <1>4, <2>1, <2>2, <2>6, <2>8, <3>1
    <3>2. CASE q # s
      BY <2>2, <2>7, <2>8, <3>2
    <3>3. QED
      BY <3>1, <3>2
  <2>9. QED
    BY <2>4, <2>5, <2>8 DEF Windows
<1>12. RowCounts'
  <2> SUFFICES ASSUME NEW k \in Limit, counter'[k].count > 0
               PROVE  Cardinality(LetIn(Window(k))') <= counter'[k].count
    BY DEF RowCounts
  <2>1. CASE k = l
    <3>1. counter'[l] = row
      BY <1>1, <1>2 DEF TypeOK
    <3>2. Window(l)' = w
      BY <1>0b, <3>1 DEF Window
    <3>3. QED
      BY <1>9, <2>1, <3>1, <3>2
  <2>2. CASE k # l
    <3>1. counter'[k] = counter[k]
      BY <1>2, <2>2 DEF TypeOK
    <3>2. Window(k)' = Window(k)
      BY <3>1 DEF Window
    <3>3. Window(k) # w /\ Window(k)[1] # "none"
      BY <1>0b, <2>2 DEF Window, Limit
    <3>4. LetIn(Window(k))' = LetIn(Window(k))
      BY <1>10, <3>2, <3>3
    <3>5. QED
      BY <3>1, <3>4 DEF RowCounts
  <2>3. QED
    BY <2>1, <2>2
<1>13. GuessesBounded'
  <2> SUFFICES ASSUME NEW q \in SignIns, window'[q][1] # "none"
               PROVE  Cardinality(LetIn(window[q])') <= LIMITS[window'[q][1]].max
    BY DEF GuessesBounded
  <2>1. CASE window'[q] = w
    BY <1>0b, <1>9, <2>1
  <2>2. CASE window'[q] # w
    <3>1. q # s /\ window'[q] = window[q]
      BY <1>2, <2>2 DEF TypeOK
    <3>2. LetIn(window[q])' = LetIn(window[q])
      BY <1>10, <2>2, <3>1
    <3>3. QED
      BY <3>1, <3>2 DEF GuessesBounded
  <2>3. QED
    BY <2>1, <2>2
<1>14. QED
  BY <1>11, <1>12, <1>13

\* A failure is counted where nobody is let in, and a sign-in clears the account's row.
LEMMA ClearKeeps ==
  ASSUME TypeOK, Windows, RowCounts, GuessesBounded, NEW s \in SignIns, ClearAccount(s)
  PROVE  Windows' /\ RowCounts' /\ GuessesBounded'
<1>1. /\ counter' = [counter EXCEPT !["account"] = NoRow] /\ cleared' = cleared + 1
      /\ window' = window /\ now' = now /\ pc[s] # "refused"
      /\ pc' = [pc EXCEPT ![s] = IF pc[s] = "right" THEN "signed in" ELSE "welcome"]
  BY DEF ClearAccount, Goto
<1>2. \A w : LetIn(w)' = LetIn(w)
  BY <1>1 DEF LetIn, TypeOK
<1>3. /\ counter'["account"].count = 0 /\ \A l \in Limit \ {"account"} : counter'[l] = counter[l]
      /\ \A q \in SignIns : pc'[q] \in {"idle", "asked"} => pc[q] \in {"idle", "asked"}
  BY <1>1 DEF TypeOK, NoRow, Limit
<1>4. Windows'
  <2>1. ASSUME NEW q \in SignIns, NEW l \in Limit, window[q][1] = l
        PROVE  /\ l \in Counting /\ window[q][3] <= cleared + 1 /\ window[q][3] # cleared + 1
               /\ l = "registrations" =>
                    window[q][3] = 0 /\ counter'[l].count > 0 /\ window[q][2] <= counter'[l].start
    <3>1. window[q][3] \in Int /\ cleared \in Nat
      BY DEF TypeOK
    <3>2. l = "registrations" => counter'[l] = counter[l]
      BY <1>3
    <3>3. QED
      BY <2>1, <3>1, <3>2 DEF Windows
  <2>2. ASSUME NEW l \in Limit, counter'[l].count > 0 PROVE counter'[l].start <= now'
    <3>1. l # "account"
      BY <1>3, <2>2
    <3>2. counter'[l] = counter[l] /\ now' = now
      BY <1>1, <1>3, <3>1
    <3>3. QED
      BY <2>2, <3>2 DEF Windows
  <2>3. \A q \in SignIns : pc'[q] \in {"idle", "asked"} => window'[q][1] = "none"
    BY <1>1, <1>3 DEF Windows
  <2>4. QED
    BY <1>1, <2>1, <2>2, <2>3 DEF Windows
<1>5. RowCounts'
  <2>1. \A l \in Limit : counter'[l].count > 0 => l # "account" /\ counter'[l] = counter[l] /\ Window(l)' = Window(l)
    BY <1>3 DEF Window
  <2>2. QED
    BY <1>2, <2>1 DEF RowCounts
<1>6. GuessesBounded'
  BY <1>1, <1>2 DEF GuessesBounded
<1>7. QED
  BY <1>4, <1>5, <1>6

\* A failure counts in a row of its own and lets nobody in.
LEMMA FailureKeeps ==
  ASSUME TypeOK, Windows, RowCounts, GuessesBounded, NEW s \in SignIns, CountFailure(s)
  PROVE  Windows' /\ RowCounts' /\ GuessesBounded'
<1>1. /\ counter' = [counter EXCEPT !["failures"] = Counted("failures")] /\ cleared' = cleared
      /\ window' = window /\ now' = now /\ pc[s] = "wrong" /\ pc' = [pc EXCEPT ![s] = "failed"]
  BY DEF CountFailure, Goto
<1>2. \A w : LetIn(w)' = LetIn(w)
  BY <1>1 DEF LetIn, TypeOK
<1>3. /\ counter'["failures"] = Counted("failures")
      /\ \A l \in Limit \ {"failures"} : counter'[l] = counter[l]
      /\ \A q \in SignIns : pc'[q] \in {"idle", "asked"} => pc[q] \in {"idle", "asked"}
  BY <1>1 DEF TypeOK, Limit
<1>4. Counted("failures").start <= now /\ Counted("failures").count \in Nat
  <2>1. counter["failures"] \in [count : Nat, start : Nat] /\ now \in Nat /\ "failures" \in Limit
    BY DEF TypeOK, Limit
  <2>2. QED
    BY <2>1, CountedRow DEF Counted, Windows
<1>5. \A q \in SignIns : window[q][1] # "failures"
  BY DEF Windows, Counting, Limit
<1>6. Windows'
  <2>1. \A l \in Limit : counter'[l].count > 0 => counter'[l].start <= now'
    BY <1>1, <1>3, <1>4 DEF Windows
  <2>2. \A q \in SignIns : pc'[q] \in {"idle", "asked"} => window'[q][1] = "none"
    BY <1>1, <1>3 DEF Windows
  <2>3. QED
    BY <1>1, <1>3, <1>5, <2>1, <2>2 DEF Windows
<1>7. RowCounts'
  <2> SUFFICES ASSUME NEW l \in Limit, counter'[l].count > 0
               PROVE  Cardinality(LetIn(Window(l))') <= counter'[l].count
    BY DEF RowCounts
  <2>1. CASE l = "failures"
    <3>1. LetIn(Window(l))' = {}
      BY <1>1, <1>5, <2>1 DEF LetIn, Window
    <3>2. QED
      BY <1>3, <1>4, <2>1, <3>1, FS_EmptySet
  <2>2. CASE l # "failures"
    <3>1. counter'[l] = counter[l] /\ Window(l)' = Window(l)
      BY <1>1, <1>3, <2>2 DEF Window
    <3>2. LetIn(Window(l))' = LetIn(Window(l))
      BY <1>2, <3>1
    <3>3. QED
      BY <3>1, <3>2 DEF RowCounts
  <2>3. QED
    BY <2>1, <2>2
<1>8. GuessesBounded'
  BY <1>1, <1>2 DEF GuessesBounded
<1>9. QED
  BY <1>6, <1>7, <1>8

\* No step lets in more within a window than its row has counted.
LEMMA GuessesKept ==
  ASSUME TypeOK, TypeOK', Windows, RowCounts, GuessesBounded, [Next]_vars
  PROVE  Windows' /\ RowCounts' /\ GuessesBounded'
<1>1. ASSUME NEW s \in SignIns, CountAttempt(s) PROVE Windows' /\ RowCounts' /\ GuessesBounded'
  BY <1>1, CountKeeps DEF CountAttempt, Windows, Counting, Stage
<1>2. ASSUME NEW s \in SignIns, CountRegistration(s) PROVE Windows' /\ RowCounts' /\ GuessesBounded'
  BY <1>2, CountKeeps DEF CountRegistration, Windows, Counting, Stage
<1>3. QED
  BY <1>1, <1>2, FailureKeeps, ClearKeeps, QuietSteps, QuietKeeps

-----------------------------------------------------------------------------
\* At first nobody is signed in and no row counts anything.
LEMMA Begins == Init => IInv
<1> SUFFICES ASSUME Init PROVE IInv
  OBVIOUS
<1>1. TypeOK
  <2>1. /\ [l \in Limit |-> NoRow] \in [Limit -> [count : Nat, start : Nat]]
        /\ [s \in SignIns |-> <<"none", Never, Never>>] \in [SignIns -> (Limit \cup {"none"}) \X Int \X Int]
        /\ [s \in SignIns |-> Never] \in [SignIns -> Int]
    BY DEF NoRow, Never
  <2>2. QED
    BY <2>1 DEF Init, TypeOK, Stage
<1>2. AskedOf /\ OnTheList
  BY DEF Init, AskedOf, OnTheList
<1>3. SessionEnds
  BY DEF Init, SessionEnds
<1>4. \A s \in SignIns : window[s][1] = "none"
  BY DEF Init
<1>5. \A l \in Limit : counter[l].count = 0
  BY DEF Init, NoRow
<1>6. Windows /\ RowCounts /\ GuessesBounded
  BY <1>4, <1>5 DEF Windows, RowCounts, GuessesBounded, Limit
<1>7. QED
  BY <1>1, <1>2, <1>3, <1>6 DEF IInv

\* The inductive invariant: a row counts whom its window let in, and the list says when the
\* sessions on it would have ended (rateLimitService.ts, sessionService.ts).
THEOREM CountedAndListed == Spec => []IInv
<1>1. IInv /\ [Next]_vars => IInv'
  BY TypesKept, AskedKept, ListKept, EndKept, GuessesKept DEF IInv
<1>2. QED
  BY Begins, <1>1, PTL DEF Spec

\* Every variable keeps its type, for any sign-ins and limits (rate_limits, tokens).
THEOREM SessionTypes == Spec => []TypeOK
<1>1. IInv => TypeOK
  BY DEF IInv
<1>2. QED
  BY CountedAndListed, <1>1, PTL

\* In no window are more let in than its limit, however many arrive together, for any
\* limits and lengths of the windows (rateLimitService.ts).
THEOREM GuessesAlwaysBounded == Spec => []GuessesBounded
<1>1. IInv => GuessesBounded
  BY DEF IInv
<1>2. QED
  BY CountedAndListed, <1>1, PTL

\* No token outlives its session by more than two seconds, however often it is extended, for
\* any times of which a token's is not longer than a session's (jwt.ts).
THEOREM SessionsEnd == Spec => []SessionEnds
<1>1. IInv => SessionEnds
  BY DEF IInv
<1>2. QED
  BY CountedAndListed, <1>1, PTL

\* A session that was signed out is refused for as long as it could have lasted, whatever
\* other sign-outs tidy away (sessionService.ts).
THEOREM SignedOutStays == Spec => []SignedOutStaysOut
<1>1. IInv => SignedOutStaysOut
  <2>1. ASSUME IInv, NEW s \in signedOut, now < End(s) PROVE revoked[s] # Never
    <3>1. s \in SignIns /\ TypeOK
      BY <2>1 DEF IInv, TypeOK
    <3>2. now \in Nat /\ End(s) \in Nat
      BY <3>1, Numbers
    <3>3. revoked[s] # Never \/ now >= End(s)
      BY <2>1, <3>1 DEF IInv, OnTheList
    <3>4. QED
      BY <2>1, <3>2, <3>3
  <2>2. QED
    BY <2>1 DEF SignedOutStaysOut
<1>2. QED
  BY CountedAndListed, <1>1, PTL
-----------------------------------------------------------------------------
(* The start, the gate and the pool *)

\* The steps that have finished are those before the one the supervisor is at; the gate has
\* been told of the start when the supervisor serves, and then no step is left; the port is
\* open before only where the database was out of reach; and no request came in before.
StepsInOrder == done = 1..(step - 1)
GateTold     == startupComplete <=> stage = "serving"
ServingDone  == stage = "serving" => step > Steps
PortWaits    == listening /\ reachable => startupComplete
NoneBefore   == \A r \in DataRequests : phase[r] # "idle" => startupComplete
StartInv     == AvailabilityTypeOK /\ StepsInOrder /\ GateTold /\ ServingDone /\ PortWaits /\ NoneBefore

\* Before the first step nothing has finished, the gate is shut and no request has come.
LEMMA StartInvInit == AvailabilityInit => StartInv
<1> SUFFICES ASSUME AvailabilityInit PROVE StartInv
  OBVIOUS
<1>1. AvailabilityTypeOK
  <2>1. step \in 1..(Steps + 1)  BY SizesAssumption DEF AvailabilityInit
  <2>2. phase \in [DataRequests -> {"idle", "queued", "timedOut", "broken"} \cup Connected]
    BY DEF AvailabilityInit
  <2> QED BY <2>1, <2>2 DEF AvailabilityInit, AvailabilityTypeOK
<1>2. StepsInOrder        BY DEF AvailabilityInit, StepsInOrder
<1> QED BY <1>1, <1>2 DEF AvailabilityInit, StartInv, GateTold, ServingDone, PortWaits, NoneBefore

\* What a request does: only its own stage and the lock change, and it moves from idle only
\* where the gate was open.
LEMMA RequestMoves ==
  ASSUME StartInv, NEW r \in DataRequests, Request(r)
  PROVE  /\ UNCHANGED <<db, boot, startupComplete, probe>>
         /\ database' \in {database, "down"}
         /\ lock' \in {lock, r, Nobody}
         /\ \E s \in {"idle", "queued", "timedOut", "broken"} \cup Connected : Enter(r, s)
         /\ phase[r] = "idle" => startupComplete
<1> USE DEF StartInv, Away, gate, boot, Enter, Leave, Connected
<1>1. CASE LetThrough(r)   BY <1>1 DEF LetThrough, Open
<1>2. CASE Connect(r)      BY <1>2 DEF Connect
<1>3. CASE TakeLock(r)     BY <1>3 DEF TakeLock
<1>4. CASE LogChange(r)    BY <1>4 DEF LogChange
<1>5. CASE Finish(r)       BY <1>5 DEF Finish
<1>6. CASE TimeOut(r)      BY <1>6 DEF TimeOut
<1>7. CASE Break(r)        BY <1>7 DEF Break
<1>8. CASE HandleError(r)  BY <1>8 DEF HandleError, MarkDown
<1> QED BY <1>1, <1>2, <1>3, <1>4, <1>5, <1>6, <1>7, <1>8 DEF Request

\* A step of the start finishes its number and goes on to the next; only CompleteStartup tells
\* the gate, and it asks that none be left.
LEMMA StartInvStep == StartInv /\ [AvailabilityNext]_availabilityVars => StartInv'
<1> SUFFICES ASSUME StartInv, [AvailabilityNext]_availabilityVars PROVE StartInv'
  OBVIOUS
<1> USE SizesAssumption DEF StartInv, AvailabilityTypeOK, StepsInOrder, GateTold, ServingDone,
        PortWaits, NoneBefore, gate, boot, work
<1>1. CASE Outage            BY <1>1 DEF Outage
<1>2. CASE Recover           BY <1>2 DEF Recover
<1>3. CASE BeginStart        BY <1>3 DEF BeginStart
<1>4. CASE RunStep           BY <1>4 DEF RunStep, Running
<1>5. CASE FailRelease       BY <1>5 DEF FailRelease, Running
<1>6. CASE StepUnreachable   BY <1>6 DEF StepUnreachable, Running, MarkDown
<1>7. CASE Retry             BY <1>7 DEF Retry
<1>8. CASE CompleteStartup   BY <1>8 DEF CompleteStartup, MarkUp
<1>9. CASE SendProbe         BY <1>9 DEF SendProbe
<1>10. CASE ProbeAnswers     BY <1>10 DEF ProbeAnswers, MarkUp
<1>11. CASE ProbeFails       BY <1>11 DEF ProbeFails, MarkDown
<1>12. CASE CheckHealth      BY <1>12 DEF CheckHealth, MarkDown
<1>13. ASSUME NEW r \in DataRequests, Request(r) PROVE StartInv'
  <2>1. PICK s \in {"idle", "queued", "timedOut", "broken"} \cup Connected : Enter(r, s)
    BY <1>13, RequestMoves
  <2> QED BY <1>13, <2>1, RequestMoves DEF Enter, Connected
<1>14. CASE UNCHANGED availabilityVars  BY <1>14 DEF availabilityVars
<1> QED BY <1>1, <1>2, <1>3, <1>4, <1>5, <1>6, <1>7, <1>8, <1>9, <1>10, <1>11, <1>12, <1>13, <1>14
        DEF AvailabilityNext, Supervisor, Monitor

\* Whatever the database does while the steps run, the gate knows how far they have come.
THEOREM AvailabilityStart == AvailabilitySpec => []StartInv
  BY StartInvInit, StartInvStep, PTL DEF AvailabilitySpec

\* Every variable of the start, the gate and the pool keeps its type.
THEOREM AvailabilityTyped == AvailabilitySpec => []AvailabilityTypeOK
<1>1. StartInv => AvailabilityTypeOK BY DEF StartInv
<1> QED BY <1>1, AvailabilityStart, PTL

\* For any number of steps and however often a step is tried again: no request is served before
\* all are done, and a server that could reach its database opens no port before (runSteps,
\* startupDone, requireDatabase).
THEOREM NoneServedBefore == AvailabilitySpec => []ServedAfterStart
<1>1. StartInv => ServedAfterStart
  BY SizesAssumption DEF StartInv, AvailabilityTypeOK, StepsInOrder, GateTold, ServingDone, PortWaits,
     NoneBefore, ServedAfterStart
<1> QED BY <1>1, AvailabilityStart, PTL

\* At first no transaction is going and nobody has the lock ...
LEMMA LockHeldInit == AvailabilityInit => LockHeld
  BY DataRequestsAssumption DEF AvailabilityInit, LockHeld

\* ... it is taken when free, and what ends a transaction gives it back.
LEMMA LockHeldStep ==
  AvailabilityTypeOK /\ LockHeld /\ [AvailabilityNext]_availabilityVars => LockHeld'
<1> SUFFICES ASSUME AvailabilityTypeOK, LockHeld, [AvailabilityNext]_availabilityVars PROVE LockHeld'
  OBVIOUS
<1> USE DataRequestsAssumption DEF LockHeld
<1>1. ASSUME UNCHANGED <<phase, lock>> PROVE LockHeld'  BY <1>1
<1>2. ASSUME NEW r \in DataRequests, Request(r) PROVE LockHeld'
  <2> USE DEF AvailabilityTypeOK, Away, Enter, Leave, Connected
  <2>1. CASE LetThrough(r)   BY <2>1 DEF LetThrough
  <2>2. CASE Connect(r)      BY <2>2 DEF Connect
  <2>3. CASE TakeLock(r)     BY <2>3 DEF TakeLock
  <2>4. CASE LogChange(r)    BY <2>4 DEF LogChange
  <2>5. CASE Finish(r)       BY <2>5 DEF Finish
  <2>6. CASE TimeOut(r)      BY <2>6 DEF TimeOut
  <2>7. CASE Break(r)        BY <2>7 DEF Break
  <2>8. CASE HandleError(r)  BY <2>8 DEF HandleError
  <2> QED BY <1>2, <2>1, <2>2, <2>3, <2>4, <2>5, <2>6, <2>7, <2>8 DEF Request
<1>3. ASSUME Outage \/ Recover \/ Supervisor \/ Monitor \/ CheckHealth PROVE UNCHANGED <<phase, lock>>
  BY <1>3 DEF Outage, Recover, Supervisor, Monitor, CheckHealth, BeginStart, RunStep, FailRelease,
     StepUnreachable, Retry, CompleteStartup, SendProbe, ProbeAnswers, ProbeFails, work
<1> QED BY <1>1, <1>2, <1>3 DEF AvailabilityNext, availabilityVars, work

\* The advisory lock belongs to one transaction, and to none that has timed out or lost its
\* connection, for any set of requests (createPool: connectionTimeoutMillis).
THEOREM LockHeldByOne == AvailabilitySpec => []LockHeld
  BY LockHeldInit, LockHeldStep, AvailabilityTyped, PTL DEF AvailabilitySpec
=============================================================================
