------------------------------- MODULE Browser -------------------------------
(***************************************************************************)
(* The session in the browser: the token that the tabs of one browser      *)
(* share (tokenManager.js), the timer each tab keeps on it                 *)
(* (SessionTimer.jsx), the replies that replace it or take it away         *)
(* (api.js, authService.js) and the ways to sign in and out.  The server   *)
(* is what Sessions shows of it: it signs, extends, revokes and refuses.   *)
(* The browser and the server have one clock here: a timer compares the    *)
(* computer's with an expiry that the server has written.                  *)
(***************************************************************************)
EXTENDS Integers

CONSTANTS
  Tabs,
  SignIns,             \* the sessions that can be started, each once
  JWT_EXPIRY, MAX_SESSION_SECONDS,
  WARN_SECONDS,        \* WARN_MS
  LastSecond,          \* bound: where the clock stops
  Clicks               \* bound: how much is done in the tabs

ASSUME SecondsAssumption == /\ JWT_EXPIRY \in Nat \ {0} /\ MAX_SESSION_SECONDS \in Nat
                            /\ WARN_SECONDS \in Nat /\ LastSecond \in Nat /\ Clicks \in Nat

VARIABLES
  now,
  token,      \* auth_token of localStorage
  auth_time,  \* the server: when each session was signed in
  revoked,    \* the server: the sessions signed out
  page,       \* by tab: closed, the sign-in page, or a page of the application
  expiresAt,  \* by tab: the expiry its SessionTimer knows
  warned,     \* by tab: whether the warning is open
  events,     \* the tabs with a storage event not yet delivered
  stay,       \* by tab: its request to extend the session
  data,       \* by tab: the token of a request for data under way
  leaving,    \* by tab: the token of a sign-out under way
  left,       \* the clicks to come
  lost,       \* history: what has taken a token away that was still good
  revived     \* history: what had become of a timer whose late reply stored a token
              \* of a session that was signed out, or not the one signed in

server      == <<auth_time, revoked>>
timer       == <<page, expiresAt, warned>>
calls       == <<stay, data, leaving>>
browserVars == <<now, token, server, timer, events, calls, left, lost, revived>>

Never   == -1
NoToken == [session |-> "none", exp |-> Never]
Token   == [session : SignIns, exp : Nat]
NoStay  == [stage |-> "none", token |-> NoToken, sender |-> "here"]

BrowserInit ==
  /\ now = 0 /\ token = NoToken
  /\ auth_time = [s \in SignIns |-> Never] /\ revoked = {}
  /\ page = [t \in Tabs |-> "login"]
  /\ expiresAt = [t \in Tabs |-> Never] /\ warned = [t \in Tabs |-> FALSE]
  /\ events = {}
  /\ stay = [t \in Tabs |-> NoStay]
  /\ data = [t \in Tabs |-> NoToken] /\ leaving = [t \in Tabs |-> NoToken]
  /\ left = Clicks /\ lost = {} /\ revived = {}

Click == left > 0 /\ left' = left - 1
Tick  == now < LastSecond /\ now' = now + 1
         /\ UNCHANGED <<token, server, timer, events, calls, left, lost, revived>>

\* What authenticate and the list of signed-out sessions let through.
Accepted(k) == k # NoToken /\ now < k.exp /\ k.session \notin revoked

\* A change of localStorage is an event in the other tabs that listen for it.
Store(t, k) ==
  /\ token' = k
  /\ events' = IF k = token THEN events ELSE events \cup {u \in Tabs \ {t} : page[u] = "app"}

TakeAway(t, cause) == Store(t, NoToken) /\ lost' = IF Accepted(token) THEN lost \cup {cause} ELSE lost

Know(t, e) == /\ expiresAt' = [expiresAt EXCEPT ![t] = e]
              /\ warned' = [warned EXCEPT ![t] = @ /\ e = expiresAt[t]]

\* A page of the application is shown, with a new SessionTimer.
Mount(t, k) == /\ page' = [page EXCEPT ![t] = "app"]
               /\ expiresAt' = [expiresAt EXCEPT ![t] = k.exp]
               /\ warned' = [warned EXCEPT ![t] = FALSE]

Unmount(t, to) == /\ page' = [page EXCEPT ![t] = to]
                  /\ expiresAt' = [expiresAt EXCEPT ![t] = Never]
                  /\ warned' = [warned EXCEPT ![t] = FALSE]

\* The request of a SessionTimer that is no longer shown goes on.
Orphan(t, fate) == stay' = [stay EXCEPT ![t].sender = IF @ = "here" THEN fate ELSE @]

\* The tab is closed, or loads a page anew: what it has asked for is not answered.
Abort(t) == /\ stay' = [stay EXCEPT ![t] = NoStay]
            /\ data' = [data EXCEPT ![t] = NoToken]
            /\ leaving' = [leaving EXCEPT ![t] = NoToken]
-----------------------------------------------------------------------------
(* Pages *)

\* SignedOutOnly and ProtectedRoute, where a tab is opened or goes to another page.
Navigate(t) ==
  /\ Click
  /\ IF token = NoToken THEN Unmount(t, "login") ELSE Mount(t, token)
  /\ Orphan(t, "left")
  /\ UNCHANGED <<now, token, server, events, data, leaving, lost, revived>>

CloseTab(t) ==
  /\ page[t] # "closed" /\ Click
  /\ Unmount(t, "closed")
  /\ Abort(t)
  /\ UNCHANGED <<now, token, server, events, lost, revived>>

\* Login: the right password; the code of two-step verification ends the same way.
SignIn(t, s) ==
  /\ page[t] = "login" /\ auth_time[s] = Never /\ Click
  /\ auth_time' = [auth_time EXCEPT ![s] = now]
  /\ LET k == [session |-> s, exp |-> now + JWT_EXPIRY]
     IN  Store(t, k) /\ Mount(t, k)
  /\ UNCHANGED <<now, revoked, calls, lost, revived>>

\* The response interceptor, on a 401: whichever token was refused, the stored one goes
\* and the sign-in page is loaded.
Refused(t) == TakeAway(t, "refusal") /\ Unmount(t, "login") /\ Abort(t)

WrongPassword(t) ==
  /\ page[t] = "login" /\ Click
  /\ Refused(t)
  /\ UNCHANGED <<now, server, revived>>

\* A request for data is sent with the token of the moment ...
Ask(t) ==
  /\ page[t] = "app" /\ data[t] = NoToken /\ token # NoToken /\ Click
  /\ data' = [data EXCEPT ![t] = token]
  /\ UNCHANGED <<now, token, server, timer, events, stay, leaving, lost, revived>>

\* ... and answered at another.
DataAnswered(t) ==
  /\ data[t] # NoToken
  /\ IF Accepted(data[t])
       THEN /\ data' = [data EXCEPT ![t] = NoToken]
            /\ UNCHANGED <<token, timer, events, stay, leaving, lost>>
       ELSE Refused(t)
  /\ UNCHANGED <<now, server, left, revived>>
-----------------------------------------------------------------------------
(* Signing out *)

\* logout is sent with the token, and nobody waits for it.
Leave(t, fate) ==
  /\ leaving' = [leaving EXCEPT ![t] = IF token = NoToken THEN @ ELSE token]
  /\ TakeAway(t, "person")
  /\ Unmount(t, "login") /\ Orphan(t, fate)

\* AppNav; the warning covers it while it is open.
HandleLogout(t) ==
  /\ page[t] = "app" /\ ~warned[t] /\ Click
  /\ Leave(t, "left")
  /\ UNCHANGED <<now, server, data, revived>>

\* The button of the warning.
SignOut(t) ==
  /\ warned[t] /\ Click
  /\ Leave(t, "ended")
  /\ UNCHANGED <<now, server, data, revived>>

\* POST /auth/logout: recorded, or refused like any other request.
LogoutAnswered(t) ==
  /\ leaving[t] # NoToken
  /\ IF Accepted(leaving[t])
       THEN /\ revoked' = revoked \cup {leaving[t].session}
            /\ leaving' = [leaving EXCEPT ![t] = NoToken]
            /\ UNCHANGED <<token, timer, events, stay, data, lost>>
       ELSE Refused(t) /\ UNCHANGED revoked
  /\ UNCHANGED <<now, auth_time, left, revived>>
-----------------------------------------------------------------------------
(* SessionTimer *)

WarnDue(t) == page[t] = "app" /\ expiresAt[t] # Never /\ ~warned[t] /\ now >= expiresAt[t] - WARN_SECONDS
EndDue(t)  == warned[t] /\ now >= expiresAt[t]
Changed(t) == token.exp # expiresAt[t]

WarnFires(t) ==
  /\ WarnDue(t)
  /\ IF Changed(t) THEN Know(t, token.exp)
     ELSE warned' = [warned EXCEPT ![t] = TRUE] /\ UNCHANGED expiresAt
  /\ UNCHANGED <<now, token, server, page, events, calls, left, lost, revived>>

EndSession(t) == /\ TakeAway(t, "timer") /\ Unmount(t, "login") /\ Orphan(t, "ended")
                 /\ UNCHANGED <<now, server, data, leaving, left, revived>>

\* Fault: the stored token is not looked at.
EndBlindly(t) == EndDue(t) /\ EndSession(t)

\* Fault: a token that another has replaced is left to the timer of the one who did.
EndOrLeave(t) == EndDue(t) /\ ~Changed(t) /\ EndSession(t)

EndFires(t) ==
  /\ EndDue(t)
  /\ IF Changed(t)
       THEN Know(t, token.exp) /\ UNCHANGED <<now, token, server, page, events, calls, left, lost, revived>>
       ELSE EndSession(t)

\* The storage event: extended or signed out in another tab.
Sync(t) ==
  /\ t \in events
  /\ events' = events \ {t}
  /\ IF page[t] = "app" THEN Know(t, token.exp) ELSE UNCHANGED <<expiresAt, warned>>
  /\ UNCHANGED <<now, token, server, page, calls, left, lost, revived>>

\* The button of the warning, or Escape; pressed again it does nothing while it is busy.
Stay(t) ==
  /\ warned[t] /\ stay[t] = NoStay /\ Click
  /\ stay' = [stay EXCEPT ![t] = [stage |-> "asked", token |-> token, sender |-> "here"]]
  /\ UNCHANGED <<now, token, server, timer, events, data, leaving, lost, revived>>

End(s) == auth_time[s] + MAX_SESSION_SECONDS

\* extendToken: the end of the session as it was a moment ago, at least one second.
Replacement(k, looked, signed) ==
  [k EXCEPT !.exp = IF looked + JWT_EXPIRY <= End(k.session) THEN looked + JWT_EXPIRY
                    ELSE signed + (IF End(k.session) - looked >= 1 THEN End(k.session) - looked ELSE 1)]

\* POST /auth/refresh, in one turn: the second may pass between its looks at the clock.
ServeStay(t) ==
  /\ stay[t].stage = "asked"
  /\ \E verified, looked, signed \in now .. now + 1 :
       /\ verified <= looked /\ looked <= signed
       /\ LET k == stay[t].token
              good == Accepted(k) /\ verified <= End(k.session)
          IN  stay' = [stay EXCEPT ![t].stage = IF good THEN "answered" ELSE "refused",
                                   ![t].token = IF good THEN Replacement(k, looked, signed) ELSE NoToken]
  /\ UNCHANGED <<now, token, server, timer, events, data, leaving, left, lost, revived>>

\* A timer that has signed out takes no reply.
TakeLiveReply(t) == stay[t].sender # "ended"

StayAnswered(t) ==
  /\ stay[t].stage = "answered"
  /\ stay' = [stay EXCEPT ![t] = NoStay]
  /\ IF TakeLiveReply(t)
       THEN /\ Store(t, stay[t].token)
            /\ revived' = IF token.session # stay[t].token.session THEN revived \cup {stay[t].sender}
                        ELSE revived
            /\ IF stay[t].sender = "here" THEN Know(t, stay[t].token.exp) ELSE UNCHANGED <<expiresAt, warned>>
       ELSE UNCHANGED <<token, events, revived, expiresAt, warned>>
  /\ UNCHANGED <<now, server, page, data, leaving, left, lost>>

StayRefused(t) ==
  /\ stay[t].stage = "refused"
  /\ Refused(t)
  /\ UNCHANGED <<now, server, left, revived>>

\* No answer, or one that is no 401: it can be asked again.
StayFailed(t) ==
  /\ stay[t].stage \in {"asked", "answered"}
  /\ stay' = [stay EXCEPT ![t] = NoStay]
  /\ UNCHANGED <<now, token, server, timer, events, data, leaving, left, lost, revived>>
-----------------------------------------------------------------------------
Timer(t)  == WarnFires(t) \/ EndFires(t) \/ Sync(t)
Person(t) == \/ Navigate(t) \/ CloseTab(t) \/ WrongPassword(t) \/ Ask(t) \/ Stay(t)
             \/ HandleLogout(t) \/ SignOut(t) \/ \E s \in SignIns : SignIn(t, s)
Reply(t)  == \/ DataAnswered(t) \/ LogoutAnswered(t)
             \/ ServeStay(t) \/ StayAnswered(t) \/ StayRefused(t) \/ StayFailed(t)

BrowserNext == Tick \/ \E t \in Tabs : Timer(t) \/ Person(t) \/ Reply(t)
BrowserSpec == BrowserInit /\ [][BrowserNext]_browserVars

\* The timers of a page fire and its events are delivered.  Nothing is asked of people, of
\* the network or of the server.
BrowserFairSpec == BrowserSpec /\ \A t \in Tabs : WF_browserVars(Timer(t))
-----------------------------------------------------------------------------
\* Every variable holds a value of its kind.
BrowserTypeOK ==
  /\ now \in Nat /\ left \in Nat
  /\ token \in Token \cup {NoToken}
  /\ auth_time \in [SignIns -> Nat \cup {Never}] /\ revoked \subseteq SignIns
  /\ page \in [Tabs -> {"closed", "login", "app"}]
  /\ expiresAt \in [Tabs -> Nat \cup {Never}] /\ warned \in [Tabs -> BOOLEAN]
  /\ events \subseteq Tabs
  /\ stay \in [Tabs -> [stage : {"none", "asked", "answered", "refused"}, token : Token \cup {NoToken},
                        sender : {"here", "left", "ended"}]]
  /\ data \in [Tabs -> Token \cup {NoToken}] /\ leaving \in [Tabs -> Token \cup {NoToken}]
  /\ lost \subseteq {"timer", "refusal", "person"} /\ revived \subseteq {"here", "left", "ended"}

\* "Another tab may have extended the session meanwhile, so each timer checks the stored
\* token before it acts" (SessionTimer.jsx): no timer takes away a token that is still good,
\* in whichever tab it was extended or signed in, and whether or not the event has arrived.
TimersSpare == "timer" \notin lost

\* "Signed out here, so a late reply must not bring the session back" (SessionTimer.jsx):
\* where the warning, or the timer, has signed out, the reply to a request to stay stores
\* nothing.
NothingRevived == "ended" \notin revived

\* A timer does no harm to a session that is not its own to end or to bring back.
TimersHarmless == TimersSpare /\ NothingRevived

\* No timer stops short of its end: when the stored token has run out and nobody extends it,
\* every tab that shows the application leaves it, also the one that another tab's or an
\* earlier page's extension has passed by, unless it has been told that the token is gone
\* already.  The exception: a reply to an earlier page of the tab that comes after a sign-out
\* stores a token no timer knows.
ToldOfRemoval(t) == token = NoToken /\ expiresAt[t] = Never
TimersRunOut ==
  \A t \in Tabs : \/ []<>(page[t] # "app" \/ now < token.exp \/ ToldOfRemoval(t))
                  \/ <>("left" \in revived)
-----------------------------------------------------------------------------
\* What does not hold.  "While signed in, a 401 means the session ended" (api.js): it may be
\* the answer to a request sent with an earlier token, or to a wrong password.
RefusalsEnd == "refusal" \notin lost

\* "Sign out when it ends" (SessionTimer.jsx): a tab that hears from another that the token
\* is gone has no timer any more, and stays on its page until it asks for something.
OffInTheEnd == \A t \in Tabs : []<>(page[t] # "app" \/ now < token.exp) \/ <>("left" \in revived)

\* A late reply brings a session back that another tab, or the navigation, has signed out.
StaysSignedOut == revived = {}
=============================================================================
