\* Four entries, one of them refused, in batches of at most two.
SPECIFICATION FairSpec
CONSTANTS
  Entries = {e1, e2, e3, e4}
  Gone = {e4}
  AUDIT_BATCH_MAX = 2
INVARIANTS NothingDropped WrittenOnce PendingWrittenAtStop
PROPERTIES EntriesSettle
CHECK_DEADLOCK FALSE
