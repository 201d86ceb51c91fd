CONSTANTS
  a = a
  b = b
  c1 = c1
  User = {a, b}
  Client = {c1}
  UserOf <- MCUserOf
  Capacity = 2
  MaxRows = 5
SPECIFICATION FairSpec
INVARIANTS
  NothingElseIsLost
  OwnEventsInOrder
  IInv
PROPERTY EventuallyFetched
CHECK_DEADLOCK FALSE
