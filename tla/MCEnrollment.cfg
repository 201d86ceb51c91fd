CONSTANTS
  User = {alice, bob}
  Other = {other}
  Key = {k1, k2}
  Call = {p, q, r}
SPECIFICATION Spec
SYMMETRY CallSymmetry
INVARIANTS
  IInv
  SpentTokenEnrollsNobody
  ConfirmedMeansEnrolled
  SpentMeansEnrolled
  HalfEnrolledIsFinal
CHECK_DEADLOCK FALSE
