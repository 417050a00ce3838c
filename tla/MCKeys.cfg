SPECIFICATION Spec
CONSTANTS
  Keys = {k1, k2}
  Jobs = {j1, j2}
  Threshold = 1
  DailyLimit = 0
  MaxTokens = 2
  MaxClicks = 4
  MaxFailures = 2
SYMMETRY KeySymmetry
INVARIANTS
  UsedKeyStays
CHECK_DEADLOCK FALSE
