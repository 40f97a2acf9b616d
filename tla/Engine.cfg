SPECIFICATION PartsSpec
CONSTANTS
  Keys = {k1}
  Interval = 2
  Threshold = 6
  Sec = 2
  MaxNow = 12
  MaxSeen = 4
INVARIANTS OnlyObservedTimeCounts OpenReachedThreshold SchedulesKept ResolvedIsLast
PROPERTIES ReopenedRaisesAtOnce AlertsMatchStates
\* The bounds end every behaviour about the schedules.
CHECK_DEADLOCK FALSE
