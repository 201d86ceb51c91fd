CONSTANTS
  e1 = e1
  e2 = e2
  l1 = l1
  l2 = l2
  alice = alice
  alice2 = alice2
  Alice = Alice
  bob = bob
  carol = carol
  d1 = d1
  d2 = d2
  Entry = {e1, e2}
  NoEntry = NoEntry
  Task = {t1, t2}
  LogicalId = {l1, l2}
  Lid <- SameLid
  Undecodable = {}
  MaxAttempts = 2
  BatchLimit = 1
  Address = {alice}
  Name = {Alice, bob}
  NameOf <- MCNameOf
  Device = {d1, d2}
  Registered = {d1, d2}
  InitialUsers = {bob}
  From <- FromOne
  To <- ToBob
  Devices <- BothDevices
  MaxFaults = 1
SPECIFICATION Spec
SYMMETRY TaskSymmetry
INVARIANTS
  TypeOK
  OkMeansStored
  ReferencesHold
  InboxIInv
  DeliveredImpliesStored
PROPERTY ImplementsContract
CHECK_DEADLOCK FALSE
