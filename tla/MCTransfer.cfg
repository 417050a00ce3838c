SPECIFICATION FairSpec
CONSTANTS
  Jobs = {j1, j2}
  Kept = {j2}
  Procs = {w1, w2}
  Urls = {u1, u2}
  Size = 2
  MaxAttempts = 2
  MaxLimit = 1
  MaxFaults = 1
  MaxMoves = 1
INVARIANTS
  TransferTypeOK
  PublishedWhole
  PartHasOneSource
PROPERTIES
  FailureEarned
  DownloadEnds
CHECK_DEADLOCK FALSE
