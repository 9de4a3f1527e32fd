\* Two sign-ins, one of which may be of a new account, in windows of two and three seconds; a
\* token lasts two seconds and a session three.
SPECIFICATION Spec
CONSTANTS
  SignIns = {s1, s2}
  LIMITS <- OneOfEach
  PENDING_MFA_SECONDS = 1
  JWT_EXPIRY = 2
  MAX_SESSION_SECONDS = 3
  LastSecond = 5
SYMMETRY Symmetry
INVARIANTS GuessesBounded SessionEnds SignedOutStaysOut
CHECK_DEADLOCK FALSE
