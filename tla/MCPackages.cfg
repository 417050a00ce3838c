SPECIFICATION QuotaSpec
CONSTANTS
  Jobs = {j1, j2}
  Plans = {p1}
  Assignments = {a1}
  PlanOf <- MCPlanOf
  MaxGrant = 1
  MaxAmount = 1
SYMMETRY JobSymmetry
INVARIANTS
  QuotaTypeOK
  PackageHoldsCovered
  WalletCovers
  LedgersMatch
PROPERTIES
  PromiseSpec
