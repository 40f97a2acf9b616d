SPECIFICATION Spec
CONSTANTS
  Others = {p1}
  Ticker = tick
  MaxCalls = 4
  MaxTicks = 2
INVARIANTS OneSendAtATime AbandonedIffHanging NoLostWakeup ExpiredNeverStarts
PROPERTY BoundedCallReturns
