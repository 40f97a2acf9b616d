SPECIFICATION Spec
CONSTANTS
  Keys = {k1}
  Actors = {"tick"}
  Modes = {"tlg"}
  MaxQueue = 2
  MaxMsgs = 3
  MaxHangs = 1
  MaxEvents = 3
  MaxRestarts = 1
  MaxFlushes = 0
INVARIANTS NothingLost OpenProblemAccounted MarksKept
