\* Three starts of either kind and two marks, in three minutes: after one
\* a run is stale, and after two another of its kind may start.
SPECIFICATION Spec
CONSTANTS
  Starts = {s1, s2, s3}
  Marks = {m1, m2}
  Nobody = Nobody
  RUN_INTERVAL_MINUTES = 2
  STALE_RUN_MINUTES = 0
  LastMinute = 2
SYMMETRY Symmetry
INVARIANTS OncePerHour
PROPERTIES OneBaseline CompletedStays
CHECK_DEADLOCK FALSE
