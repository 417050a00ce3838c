SPECIFICATION Spec
CONSTANTS
  Reqs = {r1, r2}
  Batches = {b1}
  NumPrompts = 1
  MaxJobs = 3
  DailyLimit = 0
  Units = 2
  MaxLate = 1
  MaxClicks = 1
SYMMETRY RequestSymmetry
CHECK_DEADLOCK FALSE
INVARIANTS
  RegenSeesTruth
PROPERTIES
  ReplacedIsFinal
