SPECIFICATION PipelineSpec
CONSTANTS
  Jobs = {j1, j2}
  Plans = {}
  Assignments = {}
  PlanOf <- MCPlanOf
  MaxGrant = 2
  MaxAmount = 0
  MaxTasks = 1
  MaxSubmit = 1
  MaxDownloads = 1
  MaxFaults = 1
  MaxClicks = 2
  LateAnswers = FALSE
SYMMETRY JobSymmetry
CONSTRAINTS OthersWait AllQueuedFirst ClicksOrFaults
INVARIANTS
  PipelineTypeOK
  FailedIsRefunded
  
  CompletedHasItsVideo
PROPERTIES
  
  OnlyDeletesMisrelease
CHECK_DEADLOCK FALSE
