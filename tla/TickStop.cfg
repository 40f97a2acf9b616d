SPECIFICATION Spec
CONSTANTS
  Network = net
  Others = {k1}
  MaxPending = 2
  MaxRecs = 4
  MaxStarts = 2
INVARIANT NoResultUnseen
