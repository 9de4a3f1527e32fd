\* Three calls at once on one pending sign-in or two and a session, two tries
\* each, over two time steps.
SPECIFICATION Spec
CONSTANTS
  PendingSignIns = {p1, p2}
  Session = Session
  Requests = {r1, r2, r3}
  FirstDevice = phone
  Slots = {1}
  MAX_CODE_ATTEMPTS = 2
  LastStep = 2
SYMMETRY Symmetry
INVARIANTS OneSession BudgetKept CodesSpent
CHECK_DEADLOCK FALSE
