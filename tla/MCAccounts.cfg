SPECIFICATION Spec
CONSTANTS
  Users = {root, u1}
  Founder = root
  Reqs = {r1, r2}
  Asks = {q1, q2}
  MaxLives = 2
  MaxPasswords = 2
  MaxPending = 2
  MaxForms = 8
SYMMETRY RequestSymmetry
INVARIANTS
  SessionsKnowPassword
  ReviewedOnce
CHECK_DEADLOCK FALSE
