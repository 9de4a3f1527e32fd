\* Two questions of three people with one question an hour and one generated
\* answer a day; an hour and a day are one tick, and the clock has two values.
SPECIFICATION AssistantSpec
CONSTANTS
  ann = ann
  bob = bob
  cat = cat
  Exchanges = {e1, e2}
  People <- Everybody
  Staff <- CaseManagers
  Nobody = Nobody
  ConfiguredMode = "ai"
  HOURLY_LIMIT = 1
  DailyLimit = 1
  HourTicks = 1
  DayTicks = 1
  LastTick = 1
SYMMETRY Symmetry
INVARIANTS LimitsKept WithheldUnseen ReviewsHold
PROPERTIES KeepsPromise
CHECK_DEADLOCK FALSE
