\* Two tabs and two sign-ins; a token lasts two seconds and a session three, and the warning
\* opens a second before.
SPECIFICATION BrowserFairSpec
CONSTANTS
  Tabs = {t1, t2}
  SignIns = {s1, s2}
  JWT_EXPIRY = 2
  MAX_SESSION_SECONDS = 3
  WARN_SECONDS = 1
  LastSecond = 5
  Clicks = 4
INVARIANTS TimersHarmless
PROPERTIES TimersRunOut
CHECK_DEADLOCK FALSE
