SPECIFICATION Spec
CONSTANTS
  Keys = {k1}
  Actors = {"tick"}
  Modes = {"sms", "tlg-or-sms"}
  MaxQueue = 2
  MaxMsgs = 3
  MaxHangs = 0
  MaxEvents = 3
  MaxRestarts = 1
  MaxFlushes = 1
INVARIANT OpenProblemAccounted
