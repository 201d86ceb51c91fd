CONSTANTS
  Request = {r1, r2}
  Handler = {h1, h2}
  Window = 1
  Retention = 3
  Slack = 1
  MaxTime = 5
  NoRequest = NoRequest
SPECIFICATION Spec
SYMMETRY MCSymmetry
INVARIANTS
  AcceptedAtMostOnce
  IInv
CHECK_DEADLOCK FALSE
