SPECIFICATION Spec
CONSTANTS
  Services = {s1, s2}
  Protected = {s2}
  Modes = {"act", "report"}
  DangerFor = 1
  RecoveryWindow = 1
  RepeatWindow = 4
  Restarted = {s1}
  OutcomeBuffer = 2
  MaxNow = 7
INVARIANTS ActionsSpaced RepeatIsStopped ToldAndKept
PROPERTY StopEnds

\* The guard stops for good; StopEnds says that it is never stuck before.
CHECK_DEADLOCK FALSE
