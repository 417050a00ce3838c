SPECIFICATION Spec
CONSTANTS
  Reqs = {r1, r2}
  Batches = {b1}
  NumPrompts = 2
  MaxJobs = 3
  DailyLimit = 2
  Units = 2
  MaxLate = 0
  MaxClicks = 1
SYMMETRY RequestSymmetry
CHECK_DEADLOCK FALSE
INVARIANTS
  BatchesTypeOK
  OneJobPerPrompt
  RegenSeesTruth
