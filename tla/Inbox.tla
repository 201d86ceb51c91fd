-------------------------------- MODULE Inbox --------------------------------
(***************************************************************************)
(* The receiving half: POST /s2s/messages of the recipient's node.  Each   *)
(* database statement is a step of its own, an upsert two, because nothing *)
(* spans them in a transaction.                                            *)
(* Handlers run concurrently, a handler can stop between any two           *)
(* statements (its connection is gone, the process dies), and what it      *)
(* wrote until then stays.  Each sender address writes from one device.    *)
(***************************************************************************)
EXTENDS S2S, Naturals, Sequences

CONSTANTS
  Address,        \* federated addresses "name@node" of remote senders
  Name,           \* usernames on this node
  NameOf,         \* the part of an address before the @
  Device,         \* ids of recipient devices
  Registered,     \* those that exist in this node's devices table
  InitialUsers,   \* local users present from the start
  From, To,       \* sender address and recipient username of an entry
  Devices         \* payloads of an entry: its recipient devices, in order

ASSUME InboxAssumption ==
  /\ NameOf \in [Address -> Name]
  /\ Registered \subseteq Device
  /\ InitialUsers \subseteq Name
  /\ From \in [Entry -> Address]
  /\ To \in [Entry -> Name]
  /\ Devices \in [Entry -> Seq(Device)]

VARIABLES
  local,    \* users with home_node_id NULL: their usernames
  shadow,   \* users with a home node: their federated addresses
  sender,   \* addresses whose device has its shadow row
  chats,    \* direct chats <<address, username>>
  stored,   \* rows of messages: logical id, device, and whose message it is
  serve     \* the handlers: serve[t] answers the call of task t

inboxVars == <<local, shadow, sender, chats, stored, serve>>

Message == [lid : LogicalId, device : Device, from : Address, to : Name]
IdleHandler == [pc |-> "idle", entry |-> NoEntry, next |-> 1, reply |-> "error"]

HandlerState == [pc : {"idle", "resolve", "user", "newuser", "device", "newdevice",
                       "find", "create", "store", "done"},
                 entry : Entry \cup {NoEntry}, next : Nat, reply : Answers]

InboxTypeOK ==
  /\ local \subseteq Name
  /\ shadow \subseteq Address
  /\ sender \subseteq Address
  /\ chats \subseteq Address \X Name
  /\ stored \subseteq Message
  /\ serve \in [Task -> HandlerState]
  /\ \A t \in Task : /\ serve[t].pc # "idle" => serve[t].entry \in Entry
                     /\ serve[t].pc # "idle" =>
                          serve[t].next \in 1..(Len(Devices[serve[t].entry]) + 1)

InboxInit ==
  /\ local = InitialUsers
  /\ shadow = {}
  /\ sender = {}
  /\ chats = {}
  /\ stored = {}
  /\ serve = [t \in Task |-> IdleHandler]

Step(t, pc) == serve' = [serve EXCEPT ![t].pc = pc]
Reply(t, r) == serve' = [serve EXCEPT ![t] = [@ EXCEPT !.pc = "done", !.reply = r]]

UsernameTaken(n) == n \in local \/ \E a \in shadow : NameOf[a] = n
Pair(e) == <<From[e], To[e]>>

-----------------------------------------------------------------------------
(* Faulty variants, as in Outbox.tla.                                      *)

(* The loop starts before its first payload.                               *)
ArriveEarly(t, e) ==
  /\ serve[t].pc = "idle"
  /\ serve' = [serve EXCEPT ![t] = [pc |-> "resolve", entry |-> e, next |-> 0,
                                    reply |-> "error"]]
  /\ UNCHANGED <<local, shadow, sender, chats, stored>>

(* INSERT without ON CONFLICT: a known sender is an error.                 *)
UpsertNoShadowUser(t) ==
  /\ serve[t].pc = "user"
  /\ Step(t, "newuser")
  /\ UNCHANGED <<local, shadow, sender, chats, stored>>

(* A known sender is taken to have its device row already.                 *)
UpsertShadowUserOnly(t) ==
  /\ serve[t].pc = "user"
  /\ Step(t, IF From[serve[t].entry] \in shadow THEN "find" ELSE "newuser")
  /\ UNCHANGED <<local, shadow, sender, chats, stored>>

(* The chat is taken to exist.                                             *)
FindChatAlways(t) ==
  /\ serve[t].pc = "find"
  /\ Step(t, "store")
  /\ UNCHANGED <<local, shadow, sender, chats, stored>>

(* The first duplicate answers "already_received" for the whole message.   *)
StorePayloadUntilKnown(t) ==
  /\ serve[t].pc = "store"
  /\ serve[t].next <= Len(Devices[serve[t].entry])
  /\ LET e == serve[t].entry
         d == Devices[e][serve[t].next]
         known == \E m \in stored : m.lid = Lid[e] /\ m.device = d
     IN IF known
        THEN Reply(t, "ok") /\ UNCHANGED stored
        ELSE /\ d \in Registered
             /\ stored' = stored \cup {[lid |-> Lid[e], device |-> d,
                                        from |-> From[e], to |-> To[e]]}
             /\ serve' = [serve EXCEPT ![t].next = @ + 1]
  /\ UNCHANGED <<local, shadow, sender, chats>>

(* The loop ends one payload early.                                        *)
AcknowledgeEarly(t) ==
  /\ serve[t].pc = "store"
  /\ serve[t].next >= Len(Devices[serve[t].entry])
  /\ Reply(t, "ok")
  /\ UNCHANGED <<local, shadow, sender, chats, stored>>

-----------------------------------------------------------------------------
(* The call has passed node authentication (NodeAuth.tla) ...              *)
Arrive(t, e) ==
  /\ serve[t].pc = "idle"
  /\ serve' = [serve EXCEPT ![t] = [pc |-> "resolve", entry |-> e, next |-> 1,
                                    reply |-> "error"]]
  /\ UNCHANGED <<local, shadow, sender, chats, stored>>

(* ... or has not: clocks apart, signature, nonce or node not known (401). *)
(* A blocked node (403) or a registry that is down (503) is to the sender  *)
(* what a call lost on its way is.                                         *)
Reject(t, e) ==
  /\ serve[t].pc = "idle"
  /\ serve' = [serve EXCEPT ![t] = [pc |-> "done", entry |-> e, next |-> 1,
                                    reply |-> "unauthorized"]]
  /\ UNCHANGED <<local, shadow, sender, chats, stored>>

Resolve(t) ==
  /\ serve[t].pc = "resolve"
  /\ IF To[serve[t].entry] \in local THEN Step(t, "user") ELSE Reply(t, "notfound")
  /\ UNCHANGED <<local, shadow, sender, chats, stored>>

(* INSERT ... ON CONFLICT is one statement and two steps.  It looks for a  *)
(* row under the key it names; finding none, it inserts into every unique  *)
(* index, and a conflict in one it does not name is an error.  The upsert  *)
(* of users names federated_address and meets username UNIQUE: a namesake, *)
(* or the same sender, whom another handler inserted in between.           *)
UpsertShadowUser(t) ==
  /\ serve[t].pc = "user"
  /\ Step(t, IF From[serve[t].entry] \in shadow THEN "device" ELSE "newuser")
  /\ UNCHANGED <<local, shadow, sender, chats, stored>>

InsertShadowUser(t) ==
  /\ serve[t].pc = "newuser"
  /\ LET a == From[serve[t].entry]
     IN IF UsernameTaken(NameOf[a])
        THEN Reply(t, "error") /\ UNCHANGED shadow
        ELSE Step(t, "device") /\ shadow' = shadow \cup {a}
  /\ UNCHANGED <<local, sender, chats, stored>>

(* That of devices names the id and meets UNIQUE (user_id,                 *)
(* identity_pubkey), which the same device violates as well.               *)
UpsertShadowDevice(t) ==
  /\ serve[t].pc = "device"
  /\ Step(t, IF From[serve[t].entry] \in sender THEN "find" ELSE "newdevice")
  /\ UNCHANGED <<local, shadow, sender, chats, stored>>

InsertShadowDevice(t) ==
  /\ serve[t].pc = "newdevice"
  /\ LET a == From[serve[t].entry]
     IN IF a \in sender
        THEN Reply(t, "error") /\ UNCHANGED sender
        ELSE Step(t, "find") /\ sender' = sender \cup {a}
  /\ UNCHANGED <<local, shadow, chats, stored>>

(* get_or_create_direct_chat reads first and inserts later; of two         *)
(* handlers that both found nothing, the unique index fails the second.    *)
FindChat(t) ==
  /\ serve[t].pc = "find"
  /\ Step(t, IF Pair(serve[t].entry) \in chats THEN "store" ELSE "create")
  /\ UNCHANGED <<local, shadow, sender, chats, stored>>

CreateChat(t) ==
  /\ serve[t].pc = "create"
  /\ IF Pair(serve[t].entry) \in chats
     THEN Reply(t, "error") /\ UNCHANGED chats
     ELSE Step(t, "store") /\ chats' = chats \cup {Pair(serve[t].entry)}
  /\ UNCHANGED <<local, shadow, sender, stored>>

(* One payload of the fan-out: an unregistered device violates the foreign *)
(* key, a pair (logical id, device) already there is skipped.              *)
StorePayload(t) ==
  /\ serve[t].pc = "store"
  /\ serve[t].next <= Len(Devices[serve[t].entry])
  /\ LET e == serve[t].entry
         d == Devices[e][serve[t].next]
         known == \E m \in stored : m.lid = Lid[e] /\ m.device = d
     IN IF d \in Registered
        THEN /\ stored' = IF known THEN stored
                          ELSE stored \cup {[lid |-> Lid[e], device |-> d,
                                             from |-> From[e], to |-> To[e]]}
             /\ serve' = [serve EXCEPT ![t].next = @ + 1]
        ELSE Reply(t, "error") /\ UNCHANGED stored
  /\ UNCHANGED <<local, shadow, sender, chats>>

Acknowledge(t) ==
  /\ serve[t].pc = "store"
  /\ serve[t].next > Len(Devices[serve[t].entry])
  /\ Reply(t, "ok")
  /\ UNCHANGED <<local, shadow, sender, chats, stored>>

(* A statement fails: the handler answers 500 where it stands.             *)
DbError(t) ==
  /\ serve[t].pc \notin {"idle", "done"}
  /\ Reply(t, "error")
  /\ UNCHANGED <<local, shadow, sender, chats, stored>>

(* The handler ends: answered, dropped with its connection, or killed.     *)
HandlerEnds(t) ==
  /\ serve[t].pc # "idle"
  /\ serve' = [serve EXCEPT ![t] = IdleHandler]
  /\ UNCHANGED <<local, shadow, sender, chats, stored>>

(* POST /users of this node: local and shadow users share one namespace.   *)
CreateUser(n) ==
  /\ ~UsernameTaken(n)
  /\ local' = local \cup {n}
  /\ UNCHANGED <<shadow, sender, chats, stored, serve>>

HandlerStep(t) ==
  \/ Resolve(t) \/ UpsertShadowUser(t) \/ InsertShadowUser(t)
  \/ UpsertShadowDevice(t) \/ InsertShadowDevice(t)
  \/ FindChat(t) \/ CreateChat(t) \/ StorePayload(t) \/ Acknowledge(t)

InboxNext ==
  \/ \E t \in Task, e \in Entry : Arrive(t, e) \/ Reject(t, e)
  \/ \E t \in Task : HandlerStep(t) \/ DbError(t) \/ HandlerEnds(t)
  \/ \E n \in Name : CreateUser(n)

InboxSpec == InboxInit /\ [][InboxNext]_inboxVars

-----------------------------------------------------------------------------
HasRow(l, d) == \E m \in stored : m.lid = l /\ m.device = d

(* A 200 promises the whole fan-out: whatever other handlers of the same   *)
(* or another message did meanwhile, and whichever payloads an earlier     *)
(* attempt had left behind, each device of the message has a row under its *)
(* logical id.                                                             *)
OkMeansStored ==
  \A t \in Task : serve[t].pc = "done" /\ serve[t].reply = "ok" =>
    \A i \in DOMAIN Devices[serve[t].entry] :
      HasRow(Lid[serve[t].entry], Devices[serve[t].entry][i])

(* The inserts need no deferred constraint: each row found its recipient,  *)
(* sender, sending device and chat in place, although four statements      *)
(* before it made them and any of them may have been another handler's.    *)
ReferencesHold ==
  \A m \in stored :
    /\ m.device \in Registered
    /\ m.to \in local
    /\ m.from \in shadow \cap sender
    /\ <<m.from, m.to>> \in chats

(* Why they hold.  Past each of its first four statements a handler relies *)
(* on what they made sure of; in its loop, on the payloads before next     *)
(* having their rows; and nothing takes that away again.                   *)
HandlerInv(t) ==
  LET e == serve[t].entry
      pc == serve[t].pc
  IN /\ pc \in {"user", "newuser", "device", "newdevice", "find", "create", "store"}
          => To[e] \in local
     /\ pc \in {"device", "newdevice", "find", "create", "store"} => From[e] \in shadow
     /\ pc \in {"find", "create", "store"} => From[e] \in sender
     /\ pc = "store" => Pair(e) \in chats
     /\ pc \notin {"idle", "store", "done"} => serve[t].next = 1
     /\ pc = "store" =>
          \A i \in DOMAIN Devices[e] : i < serve[t].next => HasRow(Lid[e], Devices[e][i])
     /\ pc = "done" /\ serve[t].reply = "ok" =>
          \A i \in DOMAIN Devices[e] : HasRow(Lid[e], Devices[e][i])

(* A row was written for some entry with its logical id.                   *)
Provenance ==
  \A m \in stored : \E e \in Entry :
    m.lid = Lid[e] /\ m.from = From[e] /\ m.to = To[e]

(* The inductive invariant of HalvesProofs.tla.                            *)
InboxIInv == /\ InboxTypeOK /\ ReferencesHold /\ Provenance
             /\ \A t \in Task : HandlerInv(t)
=============================================================================
