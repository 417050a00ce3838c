SPECIFICATION FairSpec
CONSTANTS
  Jobs = {j1}
  MaxTasks = 2
  Windows = {1, 3}
  MaxChecks = 1
  MaxLogs = 2
  MaxFaults = 1
  MaxClicks = 1
INVARIANTS
  BillingTypeOK
  RevisionsExplain
  AmountIsItsLogs
  FirstChargeKept
  PendingIsWatched
PROPERTIES
  Booked
CHECK_DEADLOCK FALSE
