\* Three calls, each a save with its check, a check or a change of two-step verification.
SPECIFICATION Spec
CONSTANTS
  Requests = {r1, r2, r3}
  Changes <- SomeChanges
  Age = 65
  NoCheck = NoCheck
SYMMETRY Symmetry
INVARIANTS FilesAgree StaleIsNoticed
CHECK_DEADLOCK FALSE
