CONSTANTS
  e1 = e1
  e2 = e2
  l1 = l1
  l2 = l2
  alice = alice
  alice2 = alice2
  Alice = Alice
  bob = bob
  carol = carol
  d1 = d1
  d2 = d2
  Entry = {e2}
  NoEntry = NoEntry
  Task = {t1}
  LogicalId = {l1, l2}
  Lid <- OwnLid
  Undecodable = {}
  MaxAttempts = 3
  BatchLimit = 1
  Address = {alice}
  Name = {Alice, bob, carol}
  NameOf <- MCNameOf
  Device = {d1, d2}
  Registered = {d1, d2}
  InitialUsers = {bob}
  From <- FromOne
  To <- ToBobAndCarol
  Devices <- DeviceEach
  MaxFaults = 1
SPECIFICATION RefusalsSpec
INVARIANT SomeRefusalIsFinal
CHECK_DEADLOCK FALSE
