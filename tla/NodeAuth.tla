------------------------------ MODULE NodeAuth ------------------------------
(***************************************************************************)
(* Node authentication of incoming S2S requests from one peer, and the     *)
(* nonce table that keeps a request from being taken twice.  A signed      *)
(* request can arrive late and more than once (a proxy or a retransmission *)
(* repeats it); its nonce is forgotten after Retention by the purge of the *)
(* outbox worker.  Nothing but the distance between the three time limits  *)
(* keeps a copy that arrives after the purge from being accepted again.    *)
(*                                                                         *)
(* Signatures are valid: what a request with a wrong one gets is Refuse.   *)
(***************************************************************************)
EXTENDS Naturals

CONSTANTS
  Request,    \* signed requests, told apart by their nonce
  Handler,    \* slots for requests being authenticated
  Window,     \* tolerated distance of X-Timestamp: 60 s
  Retention,  \* age at which a nonce is purged: 5 minutes
  Slack,      \* longest time from the timestamp check to the nonce claim
  MaxTime,    \* bound on the clock
  NoRequest

(* Between check and claim lie one registry call (10 s timeout) and up to  *)
(* three waits for a pooled connection (30 s each): 300 >= 2 * 60 + 100.   *)
ASSUME NodeAuthAssumption ==
  /\ Window \in Nat /\ Retention \in Nat /\ Slack \in Nat /\ MaxTime \in Nat
  /\ Retention >= 2 * Window + Slack
  /\ NoRequest \notin Request

VARIABLES
  now,      \* the server's clock, in the application and in the database
  signed,   \* requests the peer has signed
  stamp,    \* their timestamps
  peer,     \* the peer's row in federation_nodes
  used,     \* used_node_nonces: nonces and used_at
  handler,  \* requests being authenticated
  accepted  \* history: times each request was let through (2 means more)

vars == <<now, signed, stamp, peer, used, handler, accepted>>

Idle == [pc |-> "idle", request |-> NoRequest, since |-> 0]

TypeOK ==
  /\ now \in 0..MaxTime
  /\ signed \subseteq Request
  /\ stamp \in [Request -> 0..MaxTime]
  /\ peer \in {"unknown", "known", "blocked"}
  /\ used \subseteq [nonce : Request, at : 0..MaxTime]
  /\ handler \in [Handler -> [pc : {"idle", "lookup", "registry", "claim"},
                              request : Request \cup {NoRequest}, since : 0..MaxTime]]
  /\ \A h \in Handler : handler[h].pc # "idle" => handler[h].request \in signed
  /\ accepted \in [Request -> 0..2]

Init ==
  /\ now = 0
  /\ signed = {}
  /\ stamp = [r \in Request |-> 0]
  /\ peer = "unknown"
  /\ used = {}
  /\ handler = [h \in Handler |-> Idle]
  /\ accepted = [r \in Request |-> 0]

Goto(h, pc) == handler' = [handler EXCEPT ![h].pc = pc]
Done(h) == handler' = [handler EXCEPT ![h] = Idle]

-----------------------------------------------------------------------------
(* Faulty variants: none of the operations uses them, each in the place of *)
(* one makes a property fail.                                              *)

(* The difference of the clocks without its absolute value.                *)
CheckTimestampOneSided(h, r) ==
  /\ handler[h].pc = "idle"
  /\ r \in signed
  /\ now <= stamp[r] + Window
  /\ handler' = [handler EXCEPT ![h] = [pc |-> "lookup", request |-> r, since |-> now]]
  /\ UNCHANGED <<now, signed, stamp, peer, used, accepted>>

(* Nonces kept no longer than the clocks may differ.                       *)
PurgeAfterWindow ==
  /\ \E u \in used : u.at + Window < now
  /\ used' = {u \in used : u.at + Window >= now}
  /\ UNCHANGED <<now, signed, stamp, peer, handler, accepted>>

-----------------------------------------------------------------------------
(* The peer signs with its own clock, which may be anywhere off this one.  *)
Sign(r) ==
  /\ r \notin signed
  /\ signed' = signed \cup {r}
  /\ \E ts \in 0..MaxTime : stamp' = [stamp EXCEPT ![r] = ts]
  /\ UNCHANGED <<now, peer, used, handler, accepted>>

(* A copy of r arrives and passes the timestamp check.                     *)
CheckTimestamp(h, r) ==
  /\ handler[h].pc = "idle"
  /\ r \in signed
  /\ now <= stamp[r] + Window
  /\ stamp[r] <= now + Window
  /\ handler' = [handler EXCEPT ![h] = [pc |-> "lookup", request |-> r, since |-> now]]
  /\ UNCHANGED <<now, signed, stamp, peer, used, accepted>>

(* resolve_peer: the cached row, whatever its age, or the registry.        *)
LookupPeer(h) ==
  /\ handler[h].pc = "lookup"
  /\ \/ peer = "known" /\ Goto(h, "claim")
     \/ peer = "unknown" /\ Goto(h, "registry")
     \/ peer = "blocked" /\ Done(h)
  /\ UNCHANGED <<now, signed, stamp, peer, used, accepted>>

(* The upsert after the registry's answer keeps is_blocked and returns it. *)
CachePeer(h) ==
  /\ handler[h].pc = "registry"
  /\ IF peer = "blocked"
     THEN Done(h) /\ UNCHANGED peer
     ELSE Goto(h, "claim") /\ peer' = "known"
  /\ UNCHANGED <<now, signed, stamp, used, accepted>>

(* Registry or database trouble, a bad signature, a dropped connection.    *)
Refuse(h) ==
  /\ handler[h].pc # "idle"
  /\ Done(h)
  /\ UNCHANGED <<now, signed, stamp, peer, used, accepted>>

ClaimNonce(h) ==
  /\ handler[h].pc = "claim"
  /\ LET r == handler[h].request
     IN IF \E u \in used : u.nonce = r
        THEN UNCHANGED <<used, accepted>>
        ELSE /\ used' = used \cup {[nonce |-> r, at |-> now]}
             /\ accepted' = [accepted EXCEPT ![r] = IF @ < 2 THEN @ + 1 ELSE @]
  /\ Done(h)
  /\ UNCHANGED <<now, signed, stamp, peer>>

PurgeExpiredNonces ==
  /\ \E u \in used : u.at + Retention < now
  /\ used' = {u \in used : u.at + Retention >= now}
  /\ UNCHANGED <<now, signed, stamp, peer, handler, accepted>>

(* No code sets is_blocked: operators do, in the database.                 *)
SetBlocked ==
  /\ \/ peer = "known" /\ peer' = "blocked"
     \/ peer = "blocked" /\ peer' = "known"
  /\ UNCHANGED <<now, signed, stamp, used, handler, accepted>>

Tick ==
  /\ now < MaxTime
  /\ \A h \in Handler : handler[h].pc # "idle" => now < handler[h].since + Slack
  /\ now' = now + 1
  /\ UNCHANGED <<signed, stamp, peer, used, handler, accepted>>

Next ==
  \/ \E r \in Request : Sign(r)
  \/ \E h \in Handler, r \in Request : CheckTimestamp(h, r)
  \/ \E h \in Handler : LookupPeer(h) \/ CachePeer(h) \/ Refuse(h) \/ ClaimNonce(h)
  \/ PurgeExpiredNonces
  \/ SetBlocked
  \/ Tick

Spec == Init /\ [][Next]_vars

-----------------------------------------------------------------------------
(* A signed request is let through at most once, however many copies of it *)
(* are on their way at the same time, however late they come, and although *)
(* its nonce is purged in the end.                                         *)
AcceptedAtMostOnce == \A r \in Request : accepted[r] <= 1

(* What makes it so: a nonce is gone from the table only when every copy   *)
(* of its request is too old, including those already past the check.      *)
AcceptedInv ==
  \A r \in Request : accepted[r] > 0 =>
    /\ r \in signed
    /\ \/ \E u \in used : u.nonce = r /\ stamp[r] <= u.at + Window
       \/ now > stamp[r] + Window + Slack

HandlerInv ==
  \A h \in Handler : handler[h].pc # "idle" =>
    /\ handler[h].since <= now
    /\ now <= handler[h].since + Slack
    /\ handler[h].since <= stamp[handler[h].request] + Window
    /\ stamp[handler[h].request] <= handler[h].since + Window

(* The inductive invariant of NodeAuthProofs.tla.                          *)
IInv == TypeOK /\ AcceptedAtMostOnce /\ AcceptedInv /\ HandlerInv
=============================================================================
