CONSTANTS
  e1 = e1
  e2 = e2
  l1 = l1
  l2 = l2
  alice = alice
  alice2 = alice2
  Alice = Alice
  bob = bob
  carol = carol
  d1 = d1
  d2 = d2
  Entry = {e1, e2}
  NoEntry = NoEntry
  Task = {t1, t2}
  LogicalId = {l1, l2}
  Lid <- OwnLid
  Undecodable = {}
  MaxAttempts = 4
  BatchLimit = 2
  Address = {alice, alice2}
  Name = {Alice, bob, carol}
  NameOf <- MCNameOf
  Device = {d1, d2}
  Registered = {d1, d2}
  InitialUsers = {bob}
  From <- FromTwo
  To <- ToBob
  Devices <- MixedDevices
  MaxFaults = 0
SPECIFICATION Spec
SYMMETRY TaskSymmetry
INVARIANT NamesakesLoseNothing
CHECK_DEADLOCK FALSE
