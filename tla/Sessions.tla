------------------------------ MODULE Sessions -------------------------------
(***************************************************************************)
(* Handshakes on the recipient's node.  POST /sessions of a local client   *)
(* opens a transaction and then inserts each pending session on another    *)
(* connection of the same pool; a remote client's call comes in as         *)
(* POST /s2s/sessions, relayed once by its own node.  A recipient device   *)
(* confirms a pending session in up to five statements without a           *)
(* transaction: the row is looked up and then not used, the chat and the   *)
(* session are those of the two devices in the body.  A statement takes a  *)
(* connection for the step it is; only a transaction keeps one.  Nothing   *)
(* deletes users, devices, chats or sessions.                              *)
(***************************************************************************)
EXTENDS Naturals, Sequences, FiniteSets

CONSTANTS
  Create,       \* calls of POST /sessions
  Remote,       \* those made on another node
  Confirm,      \* calls of POST /sessions/confirm
  Device, Registered, User,
  UserOf,       \* the owner of a device
  Sender,       \* Sender[c]: the device that makes call c
  Recipients,   \* Recipients[c]: the devices of its sessions_init, in order
  Target,       \* Target[q]: the pending session that call q names
  Confirmer,    \* Confirmer[q]: the device that makes call q
  Body,         \* Body[q]: the sender's and the receiver's device it names
  PoolSize      \* connections of the pool

(* The j-th row that call c inserts; a row's id is new each time.          *)
Row == UNION {{c} \X (1..Len(Recipients[c])) : c \in Create}

ASSUME SessionsAssumption ==
  /\ Remote \subseteq Create
  /\ Registered \subseteq Device
  /\ UserOf \in [Device -> User]
  /\ Sender \in [Create -> Device]
  /\ Recipients \in [Create -> Seq(Device)]
  /\ Target \in [Confirm -> Row]
  /\ Confirmer \in [Confirm -> Device]
  /\ Body \in [Confirm -> Device \X Device]
  /\ PoolSize \in Nat \ {0}

VARIABLES
  pending,    \* rows of pending_sessions
  sessions,   \* rows of sessions: <<sender device, receiver device>>
  chats,      \* direct chats, as sets of two users
  create,     \* the handlers of POST /sessions and POST /s2s/sessions
  relay,      \* the remote client's node, for each remote call
  confirm     \* the handlers of POST /sessions/confirm

vars == <<pending, sessions, chats, create, relay, confirm>>

Reply == {"ok", "error"}
CreateState == [pc : {"idle", "begin", "user", "device", "insert", "done"},
                next : Nat, reply : Reply]
ConfirmState == [pc : {"idle", "find", "findchat", "chat", "session", "delete", "done"},
                 reply : Reply]

TypeOK ==
  /\ pending \in [Row -> {"none", "pending", "deleted"}]
  /\ sessions \subseteq Device \X Device
  /\ chats \subseteq SUBSET User
  /\ create \in [Create -> CreateState]
  /\ \A c \in Create : create[c].next \in 1..(Len(Recipients[c]) + 1)
  /\ relay \in [Remote -> {"idle", "waiting", "accepted", "refused"}]
  /\ confirm \in [Confirm -> ConfirmState]

Init ==
  /\ pending = [x \in Row |-> "none"]
  /\ sessions = {}
  /\ chats = {}
  /\ create = [c \in Create |-> [pc |-> "idle", next |-> 1, reply |-> "error"]]
  /\ relay = [c \in Remote |-> "idle"]
  /\ confirm = [q \in Confirm |-> [pc |-> "idle", reply |-> "error"]]

(* The two devices of a pending session, and of a session their users.     *)
Pair(x) == <<Sender[x[1]], Recipients[x[1]][x[2]]>>
Users(p) == {UserOf[p[1]], UserOf[p[2]]}

(* A transaction holds its connection from BEGIN to its end.               *)
HoldsConnection(c) == c \notin Remote /\ create[c].pc = "insert"
ConnectionFree == Cardinality({c \in Create : HoldsConnection(c)}) < PoolSize

StepCreate(c, pc) == create' = [create EXCEPT ![c].pc = pc]
FinishCreate(c, r) ==
  create' = [create EXCEPT ![c] = [@ EXCEPT !.pc = "done", !.reply = r]]
StepConfirm(q, pc) == confirm' = [confirm EXCEPT ![q].pc = pc]
FinishConfirm(q, r) == confirm' = [confirm EXCEPT ![q] = [pc |-> "done", reply |-> r]]

-----------------------------------------------------------------------------
(* Faulty variants, as in Outbox.tla.                                      *)

(* A failed insert is logged and the loop goes on.                         *)
InsertPendingCarriesOn(c) ==
  /\ create[c].pc = "insert"
  /\ create[c].next <= Len(Recipients[c])
  /\ ConnectionFree
  /\ create' = [create EXCEPT ![c].next = @ + 1]
  /\ pending' = IF Recipients[c][create[c].next] \in Registered
                THEN [pending EXCEPT ![<<c, create[c].next>>] = "pending"]
                ELSE pending
  /\ UNCHANGED <<sessions, chats, relay, confirm>>

(* The chat is taken to exist.                                             *)
FindChatAlways(q) ==
  /\ confirm[q].pc = "findchat"
  /\ ConnectionFree
  /\ StepConfirm(q, "session")
  /\ UNCHANGED <<pending, sessions, chats, create, relay>>

(* The result of the upsert is dropped.                                    *)
UpsertSessionDropped(q) ==
  /\ confirm[q].pc = "session"
  /\ ConnectionFree
  /\ StepConfirm(q, "delete")
  /\ sessions' \in {sessions, sessions \cup {Body[q]}}
  /\ UNCHANGED <<pending, chats, create, relay>>

(* A wait for a connection has no limit.                                   *)
NoTimeoutForCreate(c) == FALSE

-----------------------------------------------------------------------------
(* POST /sessions for a local recipient, authenticated and not to oneself. *)
Arrive(c) ==
  /\ c \notin Remote
  /\ create[c].pc = "idle"
  /\ StepCreate(c, "begin")
  /\ UNCHANGED <<pending, sessions, chats, relay, confirm>>

BeginTransaction(c) ==
  /\ create[c].pc = "begin"
  /\ ConnectionFree
  /\ StepCreate(c, "insert")
  /\ UNCHANGED <<pending, sessions, chats, relay, confirm>>

(* handle_federated_session: one call, without an outbox; or the peer      *)
(* cannot be resolved or reached, or turns the call down.                  *)
Forward(c) ==
  /\ relay[c] = "idle"
  /\ create[c].pc = "idle"
  /\ \/ relay' = [relay EXCEPT ![c] = "waiting"] /\ StepCreate(c, "user")
     \/ relay' = [relay EXCEPT ![c] = "refused"] /\ UNCHANGED create
  /\ UNCHANGED <<pending, sessions, chats, confirm>>

RelayAnswered(c) ==
  /\ relay[c] = "waiting"
  /\ create[c].pc = "done"
  /\ relay' = [relay EXCEPT ![c] = IF create[c].reply = "ok" THEN "accepted" ELSE "refused"]
  /\ UNCHANGED <<pending, sessions, chats, create, confirm>>

(* The sender's HTTP client gives up after 10 s; this node goes on.        *)
RelayTimesOut(c) ==
  /\ relay[c] = "waiting"
  /\ relay' = [relay EXCEPT ![c] = "refused"]
  /\ UNCHANGED <<pending, sessions, chats, create, confirm>>

(* receive_session first makes the sender's shadow rows, each in two       *)
(* statements (Inbox.tla); a lost race for one is a CreateFails.           *)
UpsertSender(c) ==
  /\ ConnectionFree
  /\ \/ create[c].pc = "user" /\ StepCreate(c, "device")
     \/ create[c].pc = "device" /\ StepCreate(c, "insert")
  /\ UNCHANGED <<pending, sessions, chats, relay, confirm>>

(* One turn of the loop, the same in both handlers.  The row is there at   *)
(* once: the pool is passed, not the transaction.                          *)
InsertPending(c) ==
  /\ create[c].pc = "insert"
  /\ create[c].next <= Len(Recipients[c])
  /\ ConnectionFree
  /\ IF Recipients[c][create[c].next] \in Registered
     THEN /\ pending' = [pending EXCEPT ![<<c, create[c].next>>] = "pending"]
          /\ create' = [create EXCEPT ![c].next = @ + 1]
     ELSE FinishCreate(c, "error") /\ UNCHANGED pending
  /\ UNCHANGED <<sessions, chats, relay, confirm>>

(* COMMIT, on the connection the call has, and 201; remotely just 200.     *)
Commit(c) ==
  /\ create[c].pc = "insert"
  /\ create[c].next > Len(Recipients[c])
  /\ FinishCreate(c, "ok")
  /\ UNCHANGED <<pending, sessions, chats, relay, confirm>>

WaitsToCreate(c) ==
  \/ create[c].pc \in {"begin", "user", "device"}
  \/ create[c].pc = "insert" /\ create[c].next <= Len(Recipients[c])

(* No connection within the pool's acquire timeout: an error.              *)
CreateTimesOut(c) ==
  /\ WaitsToCreate(c)
  /\ ~ConnectionFree
  /\ FinishCreate(c, "error")
  /\ UNCHANGED <<pending, sessions, chats, relay, confirm>>

(* A statement fails, or the handler is dropped; a transaction that is     *)
(* open is rolled back.                                                    *)
CreateFails(c) ==
  /\ create[c].pc \notin {"idle", "done"}
  /\ FinishCreate(c, "error")
  /\ UNCHANGED <<pending, sessions, chats, relay, confirm>>

-----------------------------------------------------------------------------
(* POST /sessions/confirm, with the id of a pending session there has been *)
(* and any two devices.                                                    *)
BeginConfirm(q) ==
  /\ confirm[q].pc = "idle"
  /\ pending[Target[q]] # "none"
  /\ StepConfirm(q, "find")
  /\ UNCHANGED <<pending, sessions, chats, create, relay>>

(* Only the device it was sent to finds it.  What is found is not used.    *)
Owns(q) == Confirmer[q] = Pair(Target[q])[2]

FindPending(q) ==
  /\ confirm[q].pc = "find"
  /\ ConnectionFree
  /\ IF pending[Target[q]] = "pending" /\ Owns(q) THEN StepConfirm(q, "findchat")
                                                  ELSE FinishConfirm(q, "error")
  /\ UNCHANGED <<pending, sessions, chats, create, relay>>

(* get_or_create_chat_id reads, then inserts: uniq_direct_chat fails the   *)
(* insert of whoever comes second, chats_direct_shape that of one user or  *)
(* of a device that is not there.                                          *)
Known(q) == {Body[q][1], Body[q][2]} \subseteq Registered

FindChat(q) ==
  /\ confirm[q].pc = "findchat"
  /\ ConnectionFree
  /\ StepConfirm(q, IF Known(q) /\ Users(Body[q]) \in chats THEN "session" ELSE "chat")
  /\ UNCHANGED <<pending, sessions, chats, create, relay>>

CreateChat(q) ==
  /\ confirm[q].pc = "chat"
  /\ ConnectionFree
  /\ IF ~Known(q) \/ Users(Body[q]) \in chats \/ Cardinality(Users(Body[q])) = 1
     THEN FinishConfirm(q, "error") /\ UNCHANGED chats
     ELSE chats' = chats \cup {Users(Body[q])} /\ StepConfirm(q, "session")
  /\ UNCHANGED <<pending, sessions, create, relay>>

UpsertSession(q) ==
  /\ confirm[q].pc = "session"
  /\ ConnectionFree
  /\ sessions' = sessions \cup {Body[q]}
  /\ StepConfirm(q, "delete")
  /\ UNCHANGED <<pending, chats, create, relay>>

(* The row may be gone already, by another confirmation: still a 201.      *)
DeletePending(q) ==
  /\ confirm[q].pc = "delete"
  /\ ConnectionFree
  /\ pending' = [pending EXCEPT ![Target[q]] = "deleted"]
  /\ FinishConfirm(q, "ok")
  /\ UNCHANGED <<sessions, chats, create, relay>>

ConfirmTimesOut(q) ==
  /\ confirm[q].pc \notin {"idle", "done"}
  /\ ~ConnectionFree
  /\ FinishConfirm(q, "error")
  /\ UNCHANGED <<pending, sessions, chats, create, relay>>

ConfirmFails(q) ==
  /\ confirm[q].pc \notin {"idle", "done"}
  /\ FinishConfirm(q, "error")
  /\ UNCHANGED <<pending, sessions, chats, create, relay>>

(* A forwarded message makes the chat of its two users (Inbox.tla).        *)
ChatByInbox(u, v) ==
  /\ u # v
  /\ {u, v} \notin chats
  /\ chats' = chats \cup {{u, v}}
  /\ UNCHANGED <<pending, sessions, create, relay, confirm>>

-----------------------------------------------------------------------------
CreateStep(c) == \/ BeginTransaction(c) \/ UpsertSender(c) \/ InsertPending(c)
                 \/ Commit(c) \/ CreateTimesOut(c)
ConfirmStep(q) == \/ FindPending(q) \/ FindChat(q) \/ CreateChat(q)
                  \/ UpsertSession(q) \/ DeletePending(q) \/ ConfirmTimesOut(q)

Next ==
  \/ \E c \in Create : Arrive(c) \/ CreateStep(c) \/ CreateFails(c)
  \/ \E c \in Remote : Forward(c) \/ RelayAnswered(c) \/ RelayTimesOut(c)
  \/ \E q \in Confirm : BeginConfirm(q) \/ ConfirmStep(q) \/ ConfirmFails(q)
  \/ \E u, v \in User : ChatByInbox(u, v)

Spec == Init /\ [][Next]_vars

(* tokio runs every handler, the pool serves or refuses every wait.        *)
Fairness == /\ \A c \in Create : WF_vars(CreateStep(c))
            /\ \A q \in Confirm : WF_vars(ConfirmStep(q))

FairSpec == Spec /\ Fairness

-----------------------------------------------------------------------------
AllInserted(c) == \A i \in 1..Len(Recipients[c]) : pending[<<c, i>>] # "none"

(* What the initiating client is told: a 201, or a 202 from its own node   *)
(* across both hops, means that every device it named was offered the      *)
(* handshake, whichever of them confirmed it meanwhile.                    *)
AcceptedMeansOffered ==
  /\ \A c \in Create : create[c].pc = "done" /\ create[c].reply = "ok" => AllInserted(c)
  /\ \A c \in Remote : relay[c] = "accepted" => AllInserted(c)

(* A handshake is not lost half-confirmed: its pending row goes only when  *)
(* a confirmation by the device it was sent to has established the session *)
(* that its body names, so that one that failed anywhere, or lost the race *)
(* for the chat, can be repeated.  That session is the row's own only if   *)
(* the bodies name the row's two devices: the code compares neither.       *)
NoHandshakeLost ==
  \A x \in Row : pending[x] = "deleted" =>
    \E q \in Confirm : Target[q] = x /\ Owns(q) /\ Body[q] \in sessions

(* Every session's two users have their chat, whether its confirmation,    *)
(* another device's or a forwarded message created it.                     *)
SessionHasItsChat ==
  \A p \in sessions : Users(p) \in chats

(* Calls that hold a connection while each waits for another are let go by *)
(* the acquire timeout: every call is answered in the end, also when as    *)
(* many transactions are open as the pool has connections.                 *)
EventuallyAnswered ==
  /\ \A c \in Create : create[c].pc # "idle" ~> create[c].pc = "done"
  /\ \A q \in Confirm : confirm[q].pc # "idle" ~> confirm[q].pc = "done"

(* Why the safety properties hold: a loop has inserted what is before next *)
(* (its rows never become "none" again), and a confirmation has made sure  *)
(* of its chat before its session, and of its session before it deletes.   *)
CreateInv(c) ==
  /\ create[c].pc \in {"idle", "begin", "user", "device"} => create[c].next = 1
  /\ create[c].pc = "insert" =>
       \A i \in 1..Len(Recipients[c]) : i < create[c].next => pending[<<c, i>>] # "none"

ConfirmInv(q) ==
  /\ confirm[q].pc \in {"findchat", "chat", "session", "delete"} => Owns(q)
  /\ confirm[q].pc = "session" => Users(Body[q]) \in chats
  /\ confirm[q].pc = "delete" => Body[q] \in sessions

(* The inductive invariant of SessionsProofs.tla.                          *)
IInv == /\ TypeOK /\ AcceptedMeansOffered /\ NoHandshakeLost /\ SessionHasItsChat
        /\ \A c \in Create : CreateInv(c)
        /\ \A q \in Confirm : ConfirmInv(q)
=============================================================================
