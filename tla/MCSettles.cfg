SPECIFICATION FairPipelineSpec
CONSTANTS
  Jobs = {j1}
  Plans = {}
  Assignments = {}
  PlanOf <- MCPlanOf
  MaxGrant = 1
  MaxAmount = 0
  MaxTasks = 2
  MaxSubmit = 2
  MaxDownloads = 1
  MaxFaults = 2
  MaxClicks = 0
  LateAnswers = FALSE
INVARIANTS
  UnitFollowsJob
PROPERTIES
  Settles
CHECK_DEADLOCK FALSE
