\* Three calls that overlap and fail in every way, from a case in any state a
\* first call can find it in.
SPECIFICATION Spec
CONSTANTS
  m1 = m1
  m2 = m2
  ann = ann
  bob = bob
  People <- Accounts
  Staff <- Managers
  Applicant = ann
  Nobody = Nobody
  Requests = {r1, r2, r3}
  Earlier <- Cases
  OnFile = {}
  Determinations <- Sound
SYMMETRY Symmetry
INVARIANTS TimelineTrue DutiesSeparated FailuresReviewed GuardedControls RowsComeFree
CHECK_DEADLOCK FALSE
