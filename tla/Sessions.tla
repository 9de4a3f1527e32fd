------------------------------ MODULE Sessions ------------------------------
(***************************************************************************)
(* Sign-ins of one account and registrations, all from one address, and    *)
(* the sessions they become: the throttle of attempts                      *)
(* (rateLimitService.ts), tokens that are signed and extended (jwt.ts,     *)
(* routes/auth.ts) and the list of sessions that were signed out           *)
(* (sessionService.ts).  Time is in whole seconds, as in a token.          *)
(***************************************************************************)
EXTENDS Integers, FiniteSets

CONSTANTS
  SignIns,              \* the attempts; each names the session it may become
  LIMITS,               \* by limit: how much of it, and the seconds of its window
  PENDING_MFA_SECONDS,  \* how long a right password waits for its code
  JWT_EXPIRY,
  MAX_SESSION_SECONDS,
  LastSecond            \* bound: where the clock stops

\* Sign-ins of an account, failed sign-ins of an address, registrations of an address.
Limit == {"account", "failures", "registrations"}

ASSUME LimitsAssumption == /\ IsFiniteSet(SignIns)
                           /\ LIMITS \in [Limit -> [max : Nat, windowSeconds : Nat \ {0}]]
ASSUME TimesAssumption  == /\ PENDING_MFA_SECONDS \in Nat /\ JWT_EXPIRY \in Nat \ {0}
                           /\ MAX_SESSION_SECONDS \in Nat /\ LastSecond \in Nat
\* The first token of a session is not cut to the session's end, and the settings could allow it
\* to last longer.
ASSUME ExpiryAssumption == JWT_EXPIRY <= MAX_SESSION_SECONDS

VARIABLES
  now,
  counter,   \* rate_limits, by limit; a count of 0 is no row
  cleared,   \* how often the account's row has been deleted: tells its windows apart
  pc,        \* by sign-in: how far the attempt has come
  window,    \* by sign-in: the window it was counted in
  auth_time, \* by session
  exp,       \* by session: when its last token to expire does, or the pending one
  asked,     \* by session: the requests past the role read and not yet answered
  revoked,   \* revoked_sessions: when the row may be deleted, Never when there is none
  signedOut  \* the sessions whose sign-out has been recorded

limit   == <<counter, cleared, pc, window>>
session == <<auth_time, exp, asked, revoked, signedOut>>
vars    == <<now, limit, session>>

Never   == -1
NoRow   == [count |-> 0, start |-> 0]
End(s)  == auth_time[s] + MAX_SESSION_SECONDS
Requests == {"refresh", "logout", "tidy"}

Init ==
  /\ now = 0
  /\ counter = [l \in Limit |-> NoRow] /\ cleared = 0
  /\ pc = [s \in SignIns |-> "idle"] /\ window = [s \in SignIns |-> <<"none", Never, Never>>]
  /\ auth_time = [s \in SignIns |-> 0] /\ exp = [s \in SignIns |-> 0]
  /\ asked = [s \in SignIns |-> {}]
  /\ revoked = [s \in SignIns |-> Never] /\ signedOut = {}

Tick == now < LastSecond /\ now' = now + 1 /\ UNCHANGED <<limit, session>>

Goto(s, stage) == pc' = [pc EXCEPT ![s] = stage]
-----------------------------------------------------------------------------
(* Limits *)

\* The row of a limit after one more event: the next in its window, or the first of a new one.
Counted(l) == IF counter[l].count > 0 /\ counter[l].start > now - LIMITS[l].windowSeconds
                THEN [counter[l] EXCEPT !.count = @ + 1] ELSE [count |-> 1, start |-> now]

\* exhausted counts nothing.
Exhausted(l) == Counted(l).count > LIMITS[l].max

InWindow(s, l) == window' = [window EXCEPT ![s] = <<l, Counted(l).start, IF l = "account" THEN cleared ELSE 0>>]

\* Fault: the row is asked first and counted after the password was wrong.
AskFirst(s, l, letIn) ==
  /\ Goto(s, IF Exhausted(l) THEN "refused" ELSE letIn)
  /\ InWindow(s, l)
  /\ UNCHANGED counter

\* count, in one statement, and the refusal past the limit.
Count(s, l, letIn) ==
  /\ counter' = [counter EXCEPT ![l] = Counted(l)]
  /\ Goto(s, IF Exhausted(l) THEN "refused" ELSE letIn)
  /\ InWindow(s, l)
-----------------------------------------------------------------------------
(* POST /auth/login and POST /auth/register *)

\* beforeSignIn: first the address is asked ...
AskAddress(s) ==
  /\ pc[s] = "idle"
  /\ Goto(s, IF Exhausted("failures") THEN "refused" ELSE "asked")
  /\ UNCHANGED <<now, counter, cleared, window, session>>

\* ... then the attempt is counted for the account, before the password is looked at.
CountAttempt(s) ==
  /\ pc[s] = "asked"
  /\ Count(s, "account", "counted")
  /\ UNCHANGED <<now, cleared, session>>

WrongPassword(s) ==
  /\ pc[s] = "counted"
  /\ Goto(s, "wrong")
  /\ UNCHANGED <<now, counter, cleared, window, session>>

\* afterFailedSignIn: counted for the address, and answered.
CountFailure(s) ==
  /\ pc[s] = "wrong"
  /\ counter' = [counter EXCEPT !["failures"] = Counted("failures")]
  /\ Goto(s, "failed")
  /\ UNCHANGED <<now, cleared, window, session>>

Sign(s, seconds) == exp' = [exp EXCEPT ![s] = now + seconds]

Start(s) == auth_time' = [auth_time EXCEPT ![s] = now] /\ Sign(s, JWT_EXPIRY)

\* loginUser signs the token, or with two-step verification the one that waits for a code.
RightPassword(s) ==
  /\ pc[s] = "counted"
  /\ \/ Goto(s, "right") /\ Start(s)
     \/ Goto(s, "pending") /\ Sign(s, PENDING_MFA_SECONDS) /\ UNCHANGED auth_time
  /\ UNCHANGED <<now, counter, cleared, window, asked, revoked, signedOut>>

\* POST /auth/mfa/verify; MfaSignIn says which codes are right.
RightCode(s) ==
  /\ pc[s] = "pending" /\ now < exp[s]
  /\ Goto(s, "verified")
  /\ UNCHANGED <<now, counter, cleared, window, session>>

\* afterSignIn deletes the account's row; the token of a login is there already.
ClearAccount(s) ==
  /\ pc[s] \in {"right", "verified"}
  /\ counter' = [counter EXCEPT !["account"] = NoRow] /\ cleared' = cleared + 1
  /\ Goto(s, IF pc[s] = "right" THEN "signed in" ELSE "welcome")
  /\ UNCHANGED <<now, window, session>>

\* beforeRegistration counts before anything else.
CountRegistration(s) ==
  /\ pc[s] = "idle"
  /\ Count(s, "registrations", "welcome")
  /\ UNCHANGED <<now, cleared, session>>

\* The first token of a registration, and of a sign-in with a code.
SignToken(s) ==
  /\ pc[s] = "welcome"
  /\ Start(s)
  /\ Goto(s, "signed in")
  /\ UNCHANGED <<now, counter, cleared, window, asked, revoked, signedOut>>

\* A registration that is refused, and any statement that fails.
FailSignIn(s) ==
  /\ pc[s] \in {"asked", "counted", "wrong", "right", "verified", "welcome"}
  /\ Goto(s, "failed")
  /\ UNCHANGED <<now, counter, cleared, window, session>>
-----------------------------------------------------------------------------
(* The session *)

\* The role read: a token that has not expired, of a session that is not on the list.
Admit(s, request) ==
  /\ pc[s] = "signed in" /\ now < exp[s] /\ revoked[s] = Never
  /\ asked' = [asked EXCEPT ![s] = @ \cup {request}]
  /\ UNCHANGED <<now, limit, auth_time, exp, revoked, signedOut>>

Answered(s, request) == asked' = [asked EXCEPT ![s] = @ \ {request}]

\* Fault: the replacement is a token like any other.
Extended(s, looked, signed) == signed + JWT_EXPIRY

\* extendToken: the end of the session as it was a moment ago, at least one second.
ExtendToken(s, looked, signed) ==
  IF looked + JWT_EXPIRY <= End(s) THEN looked + JWT_EXPIRY
  ELSE signed + (IF End(s) - looked >= 1 THEN End(s) - looked ELSE 1)

\* POST /auth/refresh, in one turn: the second may pass between its looks at the clock.
Refresh(s) ==
  /\ "refresh" \in asked[s]
  /\ \E verified, looked, signed \in now..(now + 1) :
       /\ verified <= looked /\ looked <= signed
       /\ exp' = IF verified < exp[s] /\ verified - auth_time[s] <= MAX_SESSION_SECONDS
                   THEN [exp EXCEPT ![s] = IF ExtendToken(s, looked, signed) > @
                                             THEN ExtendToken(s, looked, signed) ELSE @]
                   ELSE exp
  /\ Answered(s, "refresh")
  /\ UNCHANGED <<now, limit, auth_time, revoked, signedOut>>

\* Fault: the row is kept for as long as the token that signs out.
RevokeUntilExpiry(s) ==
  /\ "logout" \in asked[s]
  /\ revoked' = [revoked EXCEPT ![s] = IF @ = Never THEN exp[s] ELSE @]
  /\ signedOut' = signedOut \cup {s}
  /\ asked' = [asked EXCEPT ![s] = (@ \ {"logout"}) \cup {"tidy"}]
  /\ UNCHANGED <<now, limit, auth_time, exp>>

\* endSession's INSERT: kept until the longest session could have lasted.
RevokeSession(s) ==
  /\ "logout" \in asked[s]
  /\ revoked' = [revoked EXCEPT ![s] = IF @ = Never THEN End(s) ELSE @]
  /\ signedOut' = signedOut \cup {s}
  /\ asked' = [asked EXCEPT ![s] = (@ \ {"logout"}) \cup {"tidy"}]
  /\ UNCHANGED <<now, limit, auth_time, exp>>

\* endSession's DELETE.  NOW() is somewhere within the second.
DeleteExpired(s) ==
  /\ "tidy" \in asked[s]
  /\ \E bound \in {now, now + 1} :
       revoked' = [t \in SignIns |-> IF revoked[t] < bound THEN Never ELSE revoked[t]]
  /\ Answered(s, "tidy")
  /\ UNCHANGED <<now, limit, auth_time, exp, signedOut>>

\* A request that fails is answered and changes nothing more.
Fail(s, request) ==
  /\ request \in asked[s]
  /\ Answered(s, request)
  /\ UNCHANGED <<now, limit, auth_time, exp, revoked, signedOut>>
-----------------------------------------------------------------------------
Login(s)  == AskAddress(s) \/ CountAttempt(s) \/ WrongPassword(s) \/ CountFailure(s) \/ RightPassword(s)
               \/ RightCode(s) \/ ClearAccount(s) \/ SignToken(s) \/ FailSignIn(s)
Logout(s) == Admit(s, "logout") \/ RevokeSession(s) \/ DeleteExpired(s)

Next == Tick \/ \E s \in SignIns : \/ CountRegistration(s) \/ Login(s) \/ Logout(s) \/ Admit(s, "refresh") \/ Refresh(s)
                                   \/ \E request \in Requests : Fail(s, request)
Spec == Init /\ [][Next]_vars
-----------------------------------------------------------------------------
Stage == {"idle", "asked", "counted", "refused", "wrong", "right", "pending", "verified", "welcome",
          "signed in", "failed"}

\* Every variable holds a value of its kind.
TypeOK ==
  /\ now \in Nat /\ cleared \in Nat
  /\ counter \in [Limit -> [count : Nat, start : Nat]]
  /\ pc \in [SignIns -> Stage]
  /\ window \in [SignIns -> (Limit \cup {"none"}) \X Int \X Int]
  /\ auth_time \in [SignIns -> Nat] /\ exp \in [SignIns -> Nat]
  /\ asked \in [SignIns -> SUBSET Requests]
  /\ revoked \in [SignIns -> Int] /\ signedOut \subseteq SignIns

\* "Every attempt counts, before the password is checked, so attempts sent at the same
\* moment are all counted" (rateLimitService.ts): in one window of an account, until a
\* sign-in clears it, no more passwords are checked than the limit allows, and in one window
\* of an address no more accounts are made.
LetIn(w)       == {s \in SignIns : pc[s] # "refused" /\ window[s] = w}
GuessesBounded ==
  \A s \in SignIns : window[s][1] # "none" => Cardinality(LetIn(window[s])) <= LIMITS[window[s][1]].max

\* Extending ends: however often and however late a session is extended, every token of
\* it is dead two seconds after MAX_SESSION_SECONDS (the second of jwt.ts:63, and the one
\* that may pass while the token is made).
SessionEnds == \A s \in SignIns : exp[s] <= End(s) + 2 \/ pc[s] \notin {"right", "signed in"}

\* "Signing out ends the session on the server" (sessionService.ts): until
\* MAX_SESSION_SECONDS after the sign-in, whichever of its tokens is still good and whatever
\* other sign-outs tidy away, the list refuses it.  The row may be deleted then, while a
\* token extended at the very end has up to two seconds left.
SignedOutStaysOut ==
  \A s \in signedOut : now < exp[s] /\ now < End(s) => revoked[s] # Never
-----------------------------------------------------------------------------
(* What does not hold *)

\* What the comments of extendToken and of POST /auth/refresh say: "never valid past
\* MAX_SESSION_SECONDS after it", "extending never keeps a session going past 12 hours".
SessionsEndOnTime == \A s \in SignIns : pc[s] \in {"right", "signed in"} => exp[s] <= End(s)
=============================================================================
