---------------------------- MODULE PeerDirectory ----------------------------
(***************************************************************************)
(* What a node knows of one peer: its row in federation_nodes, filled from *)
(* the central registry on first contact and never refreshed afterwards.   *)
(* Four handlers use the row, each in its own way: POST /messages and      *)
(* POST /sessions (resolve_node), the key proxy (federated_keys), inbound  *)
(* authentication (resolve_peer) and the outbox worker.  The other side is *)
(* the peer itself: it makes a key pair at its first start, keeps it in a  *)
(* file and registers it at every start.                                   *)
(*                                                                         *)
(* A registration is known by the number of the key pair it was made with; *)
(* 0 is an empty string in a column, or no registration.                   *)
(***************************************************************************)
EXTENDS Naturals

CONSTANTS
  Handler,
  Kind,       \* Kind[h]: which of the four handlers h is
  MaxKeys,    \* bound on the key pairs the peer makes
  UrlPrefix,  \* path of both nodes' NODE_API_URL, which their proxies strip
  Torn        \* content of a key file that was created but not written

ASSUME PeerDirectoryAssumption ==
  /\ Kind \in [Handler -> {"send", "keys", "inbound", "worker"}]
  /\ MaxKeys \in Nat
  /\ Torn \notin Nat

VARIABLES
  peer,      \* the peer's process and the key pair it holds
  file,      \* its key file: 0 when there is none
  keys,      \* key pairs made so far
  registry,  \* the registration the registry has
  row,       \* the row in federation_nodes
  handler,   \* handlers that need the row
  lost,      \* history: a written key file was lost
  omitted    \* history: resolve_node or federated_keys took an incomplete answer

vars == <<peer, file, keys, registry, row, handler, lost, omitted>>

Number == 0..MaxKeys

Idle == [pc |-> "idle", get |-> FALSE, url |-> 0, key |-> 0, signed |-> 0,
         began |-> 0, asked |-> FALSE, shunned |-> FALSE]

(* get, signed: the request at hand is a GET, made with that key; began:   *)
(* the registration there was at the miss; shunned: the peer is blocked,   *)
(* since before h's last statement.                                        *)
HandlerState ==
  [pc : {"idle", "lookup", "registry", "upsert", "used", "badsig"},
   get : BOOLEAN, url : Number, key : Number, signed : Number, began : Number,
   asked : BOOLEAN, shunned : BOOLEAN]

TypeOK ==
  /\ peer \in [state : {"down", "write", "register", "up"}, key : Number]
  /\ file \in Number \cup {Torn}
  /\ keys \in Number
  /\ registry \in Number
  /\ row \in [cached : BOOLEAN, blocked : BOOLEAN, url : Number, key : Number]
  /\ handler \in [Handler -> HandlerState]
  /\ lost \in BOOLEAN
  /\ omitted \in BOOLEAN

Init ==
  /\ peer = [state |-> "down", key |-> 0]
  /\ file = 0
  /\ keys = 0
  /\ registry = 0
  /\ row = [cached |-> FALSE, blocked |-> FALSE, url |-> 0, key |-> 0]
  /\ handler = [h \in Handler |-> Idle]
  /\ lost = FALSE
  /\ omitted = FALSE

(* A key fetch, the one GET between nodes: ours, or one of the peer's.     *)
IsFetch(h, s) == Kind[h] = "keys" \/ s.get

(* The path that is signed, less the one the receiving router is given:    *)
(* signed_get signs the path of the whole URL, signed_post the one within  *)
(* the API, whichever node does it.                                        *)
SignedPrefix(h) == IF IsFetch(h, handler[h]) THEN UrlPrefix ELSE ""

(* A request is answered with an error, or the worker records a failure.   *)
End(h) == handler' = [handler EXCEPT ![h] = Idle]

(* An empty key cannot be decoded, an empty URL cannot be called.          *)
Usable(h, url, key) == IF Kind[h] = "inbound" THEN key # 0 ELSE url # 0
Verifies(h, key) ==
  SignedPrefix(h) = "" /\ (Kind[h] = "inbound" => key = handler[h].signed)

(* The handler goes on with the given columns.                             *)
GoOn(h, url, key) ==
  IF Usable(h, url, key)
  THEN handler' = [handler EXCEPT ![h].pc = IF Verifies(h, key) THEN "used" ELSE "badsig"]
  ELSE End(h)

UnchangedPeer == UNCHANGED <<peer, file, keys, registry, lost>>
UnchangedNode == UNCHANGED <<row, handler, omitted>>

-----------------------------------------------------------------------------
(* Faulty variants: nothing uses them, see README.                         *)

(* The upsert also resets the flag.                                        *)
UpsertUnblocks(h) ==
  /\ handler[h].pc = "upsert"
  /\ row' = [cached |-> TRUE, blocked |-> FALSE, url |-> handler[h].url, key |-> handler[h].key]
  /\ GoOn(h, handler[h].url, handler[h].key)
  /\ UNCHANGED omitted
  /\ UnchangedPeer

(* The upsert is an insert that leaves an existing row, which is used.     *)
UpsertDoesNothing(h) ==
  /\ handler[h].pc = "upsert"
  /\ row' = IF row.cached THEN row
            ELSE [row EXCEPT !.cached = TRUE, !.url = handler[h].url, !.key = handler[h].key]
  /\ IF row.blocked \/ ~Usable(h, row'.url, row'.key)
     THEN End(h)
     ELSE handler' = [handler EXCEPT ![h] =
            [@ EXCEPT !.pc = "used", !.url = row'.url, !.key = row'.key]]
  /\ UNCHANGED omitted
  /\ UnchangedPeer

(* A column that the answer lacks keeps its value.                         *)
UpsertKeepsOld(h) ==
  /\ handler[h].pc = "upsert"
  /\ row' = [row EXCEPT !.cached = TRUE,
                        !.url = IF handler[h].url = 0 THEN @ ELSE handler[h].url,
                        !.key = IF handler[h].key = 0 THEN @ ELSE handler[h].key]
  /\ IF row.blocked /\ Kind[h] # "send" THEN End(h)
                                        ELSE GoOn(h, row'.url, row'.key)
  /\ UNCHANGED omitted
  /\ UnchangedPeer

(* resolve_peer defaults a missing field, as the other two do.             *)
AskRegistryLeniently(h) ==
  /\ handler[h].pc = "registry"
  /\ registry # 0
  /\ \E url, key \in {0, registry} :
       /\ handler' = [handler EXCEPT ![h] = [@ EXCEPT !.pc = "upsert", !.asked = TRUE,
                                                      !.url = url, !.key = key]]
       /\ omitted' = (omitted \/ (Kind[h] # "inbound" /\ 0 \in {url, key}))
  /\ UNCHANGED row
  /\ UnchangedPeer

(* The key pair is announced before it is saved.                           *)
WriteKeysLate ==
  /\ peer.state = "write"
  /\ peer' = [peer EXCEPT !.state = "register"]
  /\ UNCHANGED <<file, keys, registry, lost>>
  /\ UnchangedNode

-----------------------------------------------------------------------------
(* The peer.  load_or_generate finds the file or creates it; a file it     *)
(* cannot parse ends the process, each time it is started.                 *)
LoadOrGenerate ==
  /\ peer.state = "down"
  /\ \/ /\ file \in Number \ {0}
        /\ peer' = [state |-> "register", key |-> file]
        /\ UNCHANGED <<file, keys>>
     \/ /\ file = 0
        /\ keys < MaxKeys
        /\ keys' = keys + 1
        /\ file' = Torn
        /\ peer' = [state |-> "write", key |-> keys + 1]
  /\ UNCHANGED <<registry, lost>>
  /\ UnchangedNode

WriteKeys ==
  /\ peer.state = "write"
  /\ file' = peer.key
  /\ peer' = [peer EXCEPT !.state = "register"]
  /\ UNCHANGED <<keys, registry, lost>>
  /\ UnchangedNode

(* The status of the last answer is not looked at: a node whose            *)
(* registration is turned down serves all the same.                        *)
Register ==
  /\ peer.state = "register"
  /\ peer' = [peer EXCEPT !.state = "up"]
  /\ registry' \in {registry, peer.key}
  /\ UNCHANGED <<file, keys, lost>>
  /\ UnchangedNode

(* A crash, a stop, or an error before the server runs.                    *)
NodeStops ==
  /\ peer.state # "down"
  /\ peer' = [state |-> "down", key |-> 0]
  /\ UNCHANGED <<file, keys, registry, lost>>
  /\ UnchangedNode

(* The volume with the key file is gone, or someone removes a torn file.   *)
LoseKeys ==
  /\ peer.state = "down"
  /\ file # 0
  /\ file' = 0
  /\ lost' = (lost \/ file # Torn)
  /\ UNCHANGED <<peer, keys, registry>>
  /\ UnchangedNode

-----------------------------------------------------------------------------
(* A request signed by the peer arrives: a POST or a key fetch.            *)
Arrive(h) ==
  /\ Kind[h] = "inbound"
  /\ handler[h].pc = "idle"
  /\ peer.state = "up"
  /\ \E get \in BOOLEAN :
       handler' = [handler EXCEPT ![h] =
         [Idle EXCEPT !.pc = "lookup", !.get = get, !.signed = peer.key]]
  /\ UNCHANGED <<row, omitted>>
  /\ UnchangedPeer

Looks(h) == handler[h].pc = IF Kind[h] = "inbound" THEN "lookup" ELSE "idle"

(* The row as it is, whatever its age.  Only the worker takes it blocked.  *)
LookupHit(h) ==
  /\ Looks(h)
  /\ row.cached
  /\ IF row.blocked /\ Kind[h] # "worker" THEN End(h) ELSE GoOn(h, row.url, row.key)
  /\ UNCHANGED <<row, omitted>>
  /\ UnchangedPeer

(* resolve_node takes a failed lookup for a miss.                          *)
LookupMiss(h) ==
  /\ Looks(h)
  /\ \/ Kind[h] = "send"
     \/ Kind[h] \in {"keys", "inbound"} /\ ~row.cached
  /\ handler' = [handler EXCEPT ![h] =
       [@ EXCEPT !.pc = "registry", !.began = registry, !.shunned = row.blocked]]
  /\ UNCHANGED <<row, omitted>>
  /\ UnchangedPeer

(* The answer may lack a field: resolve_peer refuses it, the others take   *)
(* it for an empty string.                                                 *)
AskRegistry(h) ==
  /\ handler[h].pc = "registry"
  /\ registry # 0
  /\ \E url, key \in {0, registry} :
       IF 0 \in {url, key} /\ Kind[h] = "inbound"
       THEN End(h) /\ UNCHANGED omitted
       ELSE /\ handler' = [handler EXCEPT ![h] = [@ EXCEPT !.pc = "upsert", !.asked = TRUE,
                                                           !.url = url, !.key = key]]
            /\ omitted' = (omitted \/ 0 \in {url, key})
  /\ UNCHANGED row
  /\ UnchangedPeer

(* Both columns are replaced, is_blocked is kept and returned.  After it   *)
(* resolve_node does not look at the flag.                                 *)
UpsertNode(h) ==
  /\ handler[h].pc = "upsert"
  /\ row' = [row EXCEPT !.cached = TRUE, !.url = handler[h].url, !.key = handler[h].key]
  /\ IF row.blocked /\ Kind[h] # "send" THEN End(h)
                                        ELSE GoOn(h, handler[h].url, handler[h].key)
  /\ UNCHANGED omitted
  /\ UnchangedPeer

(* A failed statement, no row for the worker, an unknown peer, a malformed *)
(* answer or none.                                                         *)
Refuse(h) ==
  /\ handler[h].pc \in {"lookup", "registry", "upsert"}
  /\ End(h)
  /\ UNCHANGED <<row, omitted>>
  /\ UnchangedPeer

Finish(h) ==
  /\ handler[h].pc \in {"used", "badsig"}
  /\ End(h)
  /\ UNCHANGED <<row, omitted>>
  /\ UnchangedPeer

(* Operators set the flag in the database; no code does.                   *)
Block ==
  /\ row.cached /\ ~row.blocked
  /\ row' = [row EXCEPT !.blocked = TRUE]
  /\ handler' = [h \in Handler |->
                   IF handler[h].pc \in {"lookup", "registry", "upsert"}
                   THEN [handler[h] EXCEPT !.shunned = TRUE] ELSE handler[h]]
  /\ UNCHANGED omitted
  /\ UnchangedPeer

Unblock ==
  /\ row.blocked
  /\ row' = [row EXCEPT !.blocked = FALSE]
  /\ handler' = [h \in Handler |-> [handler[h] EXCEPT !.shunned = FALSE]]
  /\ UNCHANGED omitted
  /\ UnchangedPeer

-----------------------------------------------------------------------------
Next ==
  \/ LoadOrGenerate \/ WriteKeys \/ Register \/ NodeStops \/ LoseKeys
  \/ \E h \in Handler : \/ Arrive(h) \/ LookupHit(h) \/ LookupMiss(h) \/ AskRegistry(h)
                        \/ UpsertNode(h) \/ Refuse(h) \/ Finish(h)
  \/ Block \/ Unblock

Spec == Init /\ [][Next]_vars

-----------------------------------------------------------------------------
(* A block holds against every handler that has yet to read or write the   *)
(* row, also when refreshes of the row by other handlers cross it.  Two    *)
(* exceptions are in the code: the worker does not look at the flag, and   *)
(* resolve_node not once it has asked the registry.                        *)
BlockedIsShunned ==
  \A h \in Handler : handler[h].pc \in {"used", "badsig"} /\ handler[h].shunned =>
    \/ Kind[h] = "worker"
    \/ Kind[h] = "send" /\ handler[h].asked

(* A handler that asked the registry goes on with a registration at least  *)
(* as new as the one there was at its miss, whatever older answers others  *)
(* still carry to the row.  From the cache it may be of any age.           *)
FreshAfterMiss ==
  \A h \in Handler : handler[h].pc \in {"used", "badsig"} /\ handler[h].asked =>
    /\ handler[h].url = 0 \/ handler[h].url >= handler[h].began
    /\ handler[h].key = 0 \/ handler[h].key >= handler[h].began

(* The row never joins the URL of one registration with the key of         *)
(* another, also when answers with a missing field have passed over it.    *)
OneRegistration == row.url # 0 /\ row.key # 0 => row.url = row.key

(* A column is left empty only by a client's request that was given an     *)
(* incomplete answer, never by inbound authentication.                     *)
BlankOnlyByClients ==
  row.cached /\ ~omitted => row.url # 0 /\ row.key # 0

(* A cached key need not be refreshed as long as key files are not lost: a *)
(* call is turned down for its signature only after that, however often    *)
(* the peer crashed while it made, saved or registered its keys.  Key      *)
(* fetches are apart: where NODE_API_URL has a path, as its default has,   *)
(* none of either node's is let through, although the comment of url_path  *)
(* says that both sides sign the same string.                              *)
SignaturesVerify ==
  \A h \in Handler :
    LET barred == IsFetch(h, handler[h]) /\ UrlPrefix # "" IN
    /\ handler[h].pc = "badsig" => lost \/ barred
    /\ handler[h].pc = "used" => ~barred

(* The newest key pair is the one in use, and no registration is newer.    *)
PeerInv ==
  /\ registry <= keys
  /\ file \in Number /\ file # 0 => file = keys
  /\ peer.state # "down" => peer.key = keys /\ keys # 0
  /\ peer.state \in {"register", "up"} => file = keys

(* What a handler carries between its statements.                          *)
HandlerInv(h) ==
  LET s == handler[h]
  IN /\ s.shunned => row.blocked
     /\ Kind[h] = "inbound" /\ s.pc # "idle" => s.signed # 0
     /\ s.pc = "badsig" => lost \/ (IsFetch(h, s) /\ UrlPrefix # "")
     /\ s.pc = "used" => ~(IsFetch(h, s) /\ UrlPrefix # "")
     /\ s.pc = "registry" => s.began <= registry
     /\ s.pc = "upsert" => s.asked /\ (omitted \/ (s.url # 0 /\ s.key # 0))
     /\ s.asked => /\ s.pc \in {"upsert", "used", "badsig"}
                   /\ s.url = 0 \/ s.url >= s.began
                   /\ s.key = 0 \/ s.key >= s.began
                   /\ s.url = 0 \/ s.key = 0 \/ s.url = s.key

(* Until a file is lost, every key that ever left the peer is in its file. *)
Announced == {registry, row.key} \cup {handler[h].key : h \in Handler}
                                 \cup {handler[h].signed : h \in Handler}
AnnouncedInv == ~lost => \A k \in Announced \ {0} : k = keys /\ file = keys

(* The inductive invariant of PeerDirectoryProofs.tla.                     *)
IInv == /\ TypeOK /\ PeerInv /\ AnnouncedInv
        /\ row.blocked => row.cached
        /\ BlockedIsShunned /\ OneRegistration /\ BlankOnlyByClients
        /\ \A h \in Handler : HandlerInv(h)
=============================================================================
