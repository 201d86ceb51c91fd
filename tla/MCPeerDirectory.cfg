CONSTANTS
  send = send
  fetchKeys = fetchKeys
  inbound = inbound
  worker = worker
  Handler = {send, fetchKeys, inbound, worker}
  Kind <- MCKind
  MaxKeys = 2
  UrlPrefix = "/api"
  Torn = Torn
SPECIFICATION Spec
INVARIANTS
  BlockedIsShunned
  FreshAfterMiss
  OneRegistration
  BlankOnlyByClients
  SignaturesVerify
  IInv
CHECK_DEADLOCK FALSE
