\* One window of a minute and two minutes; two views, a page of figures and the timer.
SPECIFICATION HealthFairSpec
CONSTANTS
  Windows = {hour}
  SLO_WINDOWS <- OneMinute
  MIN_REQUESTS = 1
  Views = {timer, page}
  TimerView = timer
  Pages = {figures}
  LastMinute = 1
  Budgets <- SomeBudgets
INVARIANTS MinutesComplete AlertsOnce
PROPERTIES AlertsFollow
CHECK_DEADLOCK FALSE
