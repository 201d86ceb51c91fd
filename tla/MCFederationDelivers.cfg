CONSTANTS
  e1 = e1
  e2 = e2
  l1 = l1
  l2 = l2
  alice = alice
  alice2 = alice2
  Alice = Alice
  bob = bob
  carol = carol
  d1 = d1
  d2 = d2
  Entry = {e1}
  NoEntry = NoEntry
  Task = {t1, t2}
  LogicalId = {l1, l2}
  Lid <- OwnLid
  Undecodable = {}
  MaxAttempts = 5
  BatchLimit = 2
  Address = {alice}
  Name = {Alice, bob}
  NameOf <- MCNameOf
  Device = {d1, d2}
  Registered = {d1}
  InitialUsers = {bob}
  From <- FromOne
  To <- ToBob
  Devices <- DeviceEach
  MaxFaults = 1
SPECIFICATION FairSpec
INVARIANTS
  PendingHasTriesLeft
  AbandonedOnlyAfterMaxFailures
  CountsAreEarned
  FewFaultsLoseNothing
  IInv
PROPERTIES
  EventuallyDelivered
  EventuallySettled
CHECK_DEADLOCK FALSE
