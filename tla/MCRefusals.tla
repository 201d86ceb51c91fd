----------------------------- MODULE MCRefusals ------------------------------
(* MCFederation.tla with a record of the peer's refusals: the message goes  *)
(* to a user the peer does not have, and once a call may be answered 401.   *)
EXTENDS MCFederation

VARIABLES
  refused,  \* <<entry, answer>> of every call that was answered 404 or 401
  again     \* those answers after which the entry was sent again

Refusals == {"notfound", "unauthorized"}

RefusalsInit == Init /\ refused = {} /\ again = {}

TurnedDown(t) == Answered(t) /\ serve[t].reply \in Refusals
Sends(t, e) == task[t].entry = e /\ task[t].pc = "send" /\ task'[t].pc = "wait"

RefusalsNext ==
  /\ Next
  /\ refused' = refused \cup
       {<<task[t].entry, serve[t].reply>> : t \in {u \in Task : TurnedDown(u)}}
  /\ again' = again \cup
       {r[2] : r \in {x \in refused : \E t \in Task : Sends(t, x[1])}}

RefusalsSpec == RefusalsInit /\ [][RefusalsNext]_<<vars, refused, again>>

(* docs/API.md on a 404 for the recipient: "outbox entry marked `failed`    *)
(* immediately; no retry", and on a 401: "sender logs and does not retry    *)
(* same payload".  At least one of the two holds: no behaviour retries both *)
(* after the one and after the other.                                       *)
SomeRefusalIsFinal == ~(Refusals \subseteq again)
=============================================================================
