SPECIFICATION FairSpec
CONSTANTS
  NumJobs = 4
  LimitOfUser = 1
  LimitOfKey = 1
  Users <- MCUsers
  Keys <- MCKeys
  OwnerOf <- MCOwnerOf
  KeyOf <- MCKeyOf
  UserLimit <- MCUserLimit
  KeyLimit <- MCKeyLimit
  MaxRunning = 2
  WindowFactor = 1
  MinWindow = 2
  MaxSubmit = 1
  MaxReturns = 1
  MaxFaults = 1
CHECK_DEADLOCK FALSE
INVARIANTS
  SchedulerInv
  WithinLimits
PROPERTIES
  QueueMoves
