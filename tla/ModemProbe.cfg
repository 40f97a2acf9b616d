SPECIFICATION Spec
CONSTANTS
  Week = 2
  ReplyWithin = 2
  MaxSilence = 5
  IncompleteTimeout = 1
  Total = 2
  MaxCopies = 2
  PartsUntil = 3
  MaxSends = 2
  MaxStops = 1
  MaxNow = 7
INVARIANTS NothingSwallowed NoFalseAlarm ReturnResolves OneProbePerSlot
\* The clock's bound ends every behaviour.
CHECK_DEADLOCK FALSE
