SPECIFICATION Spec
CONSTANTS
  Keys = {k1}
  Actors = {"tick"}
  Modes = {"tlg"}
  MaxQueue = 2
  MaxMsgs = 2
  MaxHangs = 1
  MaxEvents = 3
  MaxRestarts = 0
  MaxFlushes = 1
INVARIANT NothingSentTwice
