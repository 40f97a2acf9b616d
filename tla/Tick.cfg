SPECIFICATION PartsSpec
CONSTANTS
  Network = net
  Others = {k1}
  MaxPending = 2
  MaxRecs = 3
  MaxStarts = 2
INVARIANTS StoredIsAnnounced RecordedOnce KeptUntilShown
PROPERTIES RecoveryNoticed EventuallyShown
