SPECIFICATION Spec
CONSTANTS
  Keys = {k1}
  Actors = {"tick", "push"}
  Modes = {"tlg-or-sms"}
  MaxQueue = 1
  MaxMsgs = 3
  MaxHangs = 1
  MaxEvents = 3
  MaxRestarts = 0
  MaxFlushes = 1
INVARIANTS NothingSilent ProblemSMSOnce ResolvedFollowsBySMS
