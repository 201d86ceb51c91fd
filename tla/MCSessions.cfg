CONSTANTS
  c1 = c1
  c2 = c2
  c3 = c3
  q1 = q1
  q2 = q2
  a = a
  b1 = b1
  b2 = b2
  c = c
  nodev = nodev
  alice = alice
  bob = bob
  carol = carol
  Create = {c1, c2, c3}
  Remote = {c3}
  Confirm = {q1, q2}
  Device = {a, b1, b2, c, nodev}
  Registered = {a, b1, b2, c}
  User = {alice, bob, carol}
  UserOf <- MCUserOf
  Sender <- MCSender
  Recipients <- MCRecipients
  Target <- MCTarget
  Confirmer <- MCConfirmer
  Body <- MCBody
  PoolSize = 2
SPECIFICATION FairSpec
INVARIANTS
  AcceptedMeansOffered
  NoHandshakeLost
  SessionHasItsChat
  IInv
PROPERTY EventuallyAnswered
CHECK_DEADLOCK FALSE
