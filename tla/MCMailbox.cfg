CONSTANTS
  p1 = p1
  p2 = p2
  l1 = l1
  l2 = l2
  d1 = d1
  d2 = d2
  Post = {p1, p2}
  Fetch = {f1, f2, f3}
  Peer = Peer
  LogicalId = {l1, l2}
  Device = {d1, d2}
  Registered = {d1, d2}
  Lid <- MCLid
  Devices <- MCDevices
  Caller <- MCCaller
SPECIFICATION Spec
SYMMETRY MCSymmetry
INVARIANTS
  ConfirmedMeansOwnRows
  HandedOutOnce
  MissedOnlyInTheGap
  IInv
CHECK_DEADLOCK FALSE
