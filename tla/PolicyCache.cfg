\* Two saves, of a change that closes the route or switches the rule off or opens
\* the route again, at two processes; one of them serves the caller.
SPECIFICATION FairSpec
CONSTANTS
  p1 = p1
  p2 = p2
  limited = limited
  off = off
  Processes = {p1, p2}
  Callers = {p1}
  Saves = {s1, s2}
  Calls <- MCCalls
  Settings = {limited, off}
  Closing = limited
  Denying = off
  NoSave = NoSave
  MaxFailures = 1
INVARIANTS NoChangeLost AppliesAtOnce DecisionsJustified
PROPERTIES NeverBack InForceInTheEnd
CHECK_DEADLOCK FALSE
