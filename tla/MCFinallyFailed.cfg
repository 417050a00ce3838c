SPECIFICATION PipelineSpec
CONSTANTS
  Jobs = {j1}
  Plans = {}
  Assignments = {}
  PlanOf <- MCPlanOf
  MaxGrant = 1
  MaxAmount = 0
  MaxTasks = 1
  MaxSubmit = 1
  MaxDownloads = 1
  MaxFaults = 1
  MaxClicks = 0
  LateAnswers = FALSE
INVARIANTS
  FinallyFailedRefunded
CHECK_DEADLOCK FALSE
