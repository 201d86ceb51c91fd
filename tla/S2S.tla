--------------------------------- MODULE S2S ---------------------------------
(***************************************************************************)
(* What the two halves of server-to-server delivery share: the forwarded   *)
(* messages and the slots for the calls that carry them.  An entry is one  *)
(* row of federation_outbox, hence one S2sMessagePayload; slot t is one    *)
(* delivery task of the sender and the handler its call starts at the peer.*)
(***************************************************************************)
CONSTANTS
  Entry,      \* the rows of federation_outbox the run can create
  NoEntry,    \* the entry of an idle slot
  Task,       \* slots for delivery tasks (bounds those in flight)
  LogicalId,  \* values of logical_msg_id, chosen by clients
  Lid         \* Lid[e]: the logical_msg_id of entry e

ASSUME S2SAssumption ==
  /\ NoEntry \notin Entry
  /\ Lid \in [Entry -> LogicalId]

(* What a call can come back with: a 200, a 404, a 401, and anything else. *)
Answers == {"ok", "notfound", "unauthorized", "error"}
=============================================================================
