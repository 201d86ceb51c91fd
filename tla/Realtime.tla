------------------------------ MODULE Realtime ------------------------------
(***************************************************************************)
(* Realtime events: a trigger notifies the users a new row concerns, one   *)
(* listener task forwards the notifications to a broadcast channel, and    *)
(* one task per WebSocket passes on those of its user.  An event only      *)
(* tells the client to fetch; what is lost on the way is not sent again.   *)
(* Three places lose: the listener while it is not connected, a socket     *)
(* before it subscribes, and the channel for a socket that lags.           *)
(***************************************************************************)
EXTENDS Naturals, Sequences

CONSTANTS
  User,
  Client,    \* devices, each with at most one socket
  UserOf,    \* UserOf[c]: the user a client's socket asks for
  Capacity,  \* of the broadcast channel
  MaxRows    \* bound on the notifications

ASSUME RealtimeAssumption ==
  /\ UserOf \in [Client -> User]
  /\ Capacity \in Nat \ {0}
  /\ MaxRows \in Nat

VARIABLES
  log,       \* the users notified, in the order their rows were committed
  listener,  \* its connection, and the notification it reads next
  sent,      \* notifications (their places in log) sent to the channel
  conn,      \* a client's socket and the task behind it
  client,    \* how much of the log it has fetched; whether a fetch is due
  excused    \* history: rows of a client's user no event will announce

vars == <<log, listener, sent, conn, client, excused>>

NoConn == [state |-> "none", pos |-> 0, wire |-> <<>>]

(* pos: how much of the channel the task has read; wire: events under way. *)
ConnState == [state : {"none", "upgraded", "open"}, pos : Nat, wire : Seq(Nat)]

TypeOK ==
  /\ log \in Seq(User)
  /\ Len(log) <= MaxRows
  /\ listener \in [state : {"starting", "listening", "lost", "dead"}, next : 1..MaxRows + 1]
  /\ listener.next <= Len(log) + 1
  /\ sent \in Seq(1..MaxRows)
  /\ conn \in [Client -> ConnState]
  /\ client \in [Client -> [seen : 0..MaxRows, due : BOOLEAN]]
  /\ excused \in [Client -> SUBSET (1..MaxRows)]

Init ==
  /\ log = <<>>
  /\ listener = [state |-> "starting", next |-> 1]
  /\ sent = <<>>
  /\ conn = [c \in Client |-> NoConn]
  /\ client = [c \in Client |-> [seen |-> 0, due |-> FALSE]]
  /\ excused = [c \in Client |-> {}]

(* Rows that concern c and that it has not fetched.                        *)
Unseen(c) == {n \in client[c].seen + 1..Len(log) : log[n] = UserOf[c]}

-----------------------------------------------------------------------------
(* Faulty variants: nothing uses them, see README.                         *)

(* A lag ends the reading of what the channel still has.                   *)
LagToTail(c) ==
  /\ conn[c].state = "open"
  /\ Len(sent) - conn[c].pos > Capacity
  /\ conn' = [conn EXCEPT ![c].pos = Len(sent)]
  /\ excused' = [excused EXCEPT ![c] = @ \cup
       (Unseen(c) \cap {sent[i] : i \in conn[c].pos + 1..Len(sent) - Capacity})]
  /\ UNCHANGED <<log, listener, sent, client>>

(* The task gives up at the first event of another user.                   *)
DispatchStuck(c) ==
  /\ conn[c].state = "open"
  /\ conn[c].pos < Len(sent)
  /\ Len(sent) - conn[c].pos <= Capacity
  /\ log[sent[conn[c].pos + 1]] = UserOf[c]
  /\ conn' = [conn EXCEPT ![c].pos = @ + 1, ![c].wire = Append(@, sent[conn[c].pos + 1])]
  /\ UNCHANGED <<log, listener, sent, client, excused>>

(* LISTEN also brings what was notified earlier.                           *)
ListenFromTheStart ==
  /\ listener' = [state |-> "listening", next |-> 1]
  /\ UNCHANGED <<log, sent, conn, client, excused>>

(* Of several notifications that are waiting, the last one stands for all. *)
ForwardLast ==
  /\ listener.state = "listening"
  /\ listener.next <= Len(log)
  /\ sent' = Append(sent, Len(log))
  /\ listener' = [listener EXCEPT !.next = Len(log) + 1]
  /\ UNCHANGED <<log, conn, client, excused>>

-----------------------------------------------------------------------------
(* A commit: a message, a device or a pending session notifies one user, a *)
(* session both of its users, and identical notifications are one.         *)
Notify(users) ==
  /\ Len(log) + Len(users) <= MaxRows
  /\ log' = log \o users
  /\ UNCHANGED <<listener, sent, conn, client, excused>>

Notified == {<<u>> : u \in User} \cup {<<u[1], u[2]>> : u \in {v \in User \X User : v[1] # v[2]}}

(* LISTEN takes effect at the end of the log: what nobody read is lost.    *)
Listen ==
  /\ listener' = [state |-> "listening", next |-> Len(log) + 1]
  /\ excused' = [c \in Client |-> excused[c] \cup {n \in Unseen(c) : n >= listener.next}]
  /\ UNCHANGED <<log, sent, conn, client>>

ListenerStarts == listener.state = "starting" /\ Listen

(* An error at the start ends the task; the server runs on without it.     *)
ListenerDies ==
  /\ listener.state = "starting"
  /\ listener' = [listener EXCEPT !.state = "dead"]
  /\ UNCHANGED <<log, sent, conn, client, excused>>

ConnectionLost ==
  /\ listener.state = "listening"
  /\ listener' = [listener EXCEPT !.state = "lost"]
  /\ UNCHANGED <<log, sent, conn, client, excused>>

(* recv reconnects by itself, however often it takes.                      *)
Reconnect == listener.state = "lost" /\ Listen

Forward ==
  /\ listener.state = "listening"
  /\ listener.next <= Len(log)
  /\ sent' = Append(sent, listener.next)
  /\ listener' = [listener EXCEPT !.next = @ + 1]
  /\ UNCHANGED <<log, conn, client, excused>>

-----------------------------------------------------------------------------
(* The answer to the upgrade leaves before the task is set up.             *)
Upgrade(c) ==
  /\ conn[c].state = "none"
  /\ conn' = [conn EXCEPT ![c].state = "upgraded"]
  /\ UNCHANGED <<log, listener, sent, client, excused>>

Subscribe(c) ==
  /\ conn[c].state = "upgraded"
  /\ conn' = [conn EXCEPT ![c].state = "open", ![c].pos = Len(sent)]
  /\ excused' = [excused EXCEPT ![c] = {n \in Unseen(c) : n < listener.next}]
  /\ UNCHANGED <<log, listener, sent, client>>

(* The next event goes to the client if it is its user's.                  *)
Dispatch(c) ==
  /\ conn[c].state = "open"
  /\ conn[c].pos < Len(sent)
  /\ Len(sent) - conn[c].pos <= Capacity
  /\ LET n == sent[conn[c].pos + 1]
     IN conn' = [conn EXCEPT ![c].pos = @ + 1,
                             ![c].wire = IF log[n] = UserOf[c] THEN Append(@, n) ELSE @]
  /\ UNCHANGED <<log, listener, sent, client, excused>>

(* The oldest events are overwritten; the task is told, the client is not. *)
Lag(c) ==
  /\ conn[c].state = "open"
  /\ Len(sent) - conn[c].pos > Capacity
  /\ conn' = [conn EXCEPT ![c].pos = Len(sent) - Capacity]
  /\ excused' = [excused EXCEPT ![c] = @ \cup
       (Unseen(c) \cap {sent[i] : i \in conn[c].pos + 1..Len(sent) - Capacity})]
  /\ UNCHANGED <<log, listener, sent, client>>

(* Either side ends it: the client leaves or a write fails.  The task of a *)
(* client that left goes on, unnoticed, until one of its writes fails.     *)
Drop(c) ==
  /\ conn[c].state # "none"
  /\ conn' = [conn EXCEPT ![c] = NoConn]
  /\ UNCHANGED <<log, listener, sent, client, excused>>

(* The client, as docs/REALTIME.md has it: an event makes it fetch.        *)
Receive(c) ==
  /\ conn[c].wire # <<>>
  /\ conn' = [conn EXCEPT ![c].wire = Tail(@)]
  /\ client' = [client EXCEPT ![c].due = TRUE]
  /\ UNCHANGED <<log, listener, sent, excused>>

(* It may fetch at any other time, too.                                    *)
Fetch(c) ==
  /\ client[c].due \/ client[c].seen < Len(log)
  /\ client' = [client EXCEPT ![c] = [seen |-> Len(log), due |-> FALSE]]
  /\ excused' = [excused EXCEPT ![c] = {}]
  /\ UNCHANGED <<log, listener, sent, conn>>

Restart ==
  /\ listener' = [listener EXCEPT !.state = "starting"]
  /\ conn' = [c \in Client |-> NoConn]
  /\ UNCHANGED <<log, sent, client, excused>>

-----------------------------------------------------------------------------
Next ==
  \/ \E users \in Notified : Notify(users)
  \/ ListenerStarts \/ ListenerDies \/ ConnectionLost \/ Reconnect \/ Forward
  \/ \E c \in Client : \/ Upgrade(c) \/ Subscribe(c) \/ Dispatch(c) \/ Lag(c)
                       \/ Drop(c) \/ Receive(c) \/ Fetch(c)
  \/ Restart

Spec == Init /\ [][Next]_vars

(* The tasks of the runtime are scheduled, and a client that was told to   *)
(* fetch does so.  Nothing makes a client connect or a listener come back. *)
FairSpec ==
  /\ Spec
  /\ WF_vars(Forward)
  /\ \A c \in Client : /\ WF_vars(Dispatch(c) \/ Lag(c))
                       /\ WF_vars(Receive(c))
                       /\ WF_vars(client[c].due /\ Fetch(c))

-----------------------------------------------------------------------------
(* The announcement of row n still has a way to c: in the database, in the *)
(* channel, on the wire, or as a fetch that is due.                        *)
OnItsWay(c, n) ==
  \/ n >= listener.next
  \/ \E i \in conn[c].pos + 1..Len(sent) : sent[i] = n
  \/ \E i \in 1..Len(conn[c].wire) : conn[c].wire[i] = n
  \/ client[c].due

(* A subscribed client loses no event but those the three places lose:     *)
(* every row it has not fetched is on its way to it or accounted for.      *)
NothingElseIsLost ==
  \A c \in Client : conn[c].state = "open" =>
    \A n \in Unseen(c) : n \in excused[c] \/ OnItsWay(c, n)

Increasing(s) == \A i, j \in 1..Len(s) : i < j => s[i] < s[j]

(* A client is told only of rows that concern its user and that a fetch    *)
(* finds, of each at most once and in the order of their commits.          *)
OwnEventsInOrder ==
  \A c \in Client :
    /\ \A i \in 1..Len(conn[c].wire) :
         conn[c].wire[i] \in 1..Len(log) /\ log[conn[c].wire[i]] = UserOf[c]
    /\ Increasing(conn[c].wire)

(* While the listener listens and the socket stays open, a row is fetched  *)
(* in the end unless its event was lost before or is lost by lag.          *)
EventuallyFetched ==
  \A c \in Client : \A n \in 1..MaxRows :
    (conn[c].state = "open" /\ n \in Unseen(c) /\ n \notin excused[c])
      ~> \/ n \notin Unseen(c)
         \/ n \in excused[c]
         \/ conn[c].state # "open"
         \/ listener.state # "listening"

(* The channel has what the listener read, in order, and a task has passed *)
(* on nothing that is after its place in the channel.                      *)
SentInv ==
  /\ \A i \in 1..Len(sent) : sent[i] < listener.next
  /\ Increasing(sent)

TaskInv(c) ==
  /\ conn[c].pos <= Len(sent)
  /\ conn[c].state # "open" => conn[c].wire = <<>>
  /\ \A i \in 1..Len(conn[c].wire) :
       /\ conn[c].wire[i] < listener.next
       /\ \A j \in conn[c].pos + 1..Len(sent) : conn[c].wire[i] < sent[j]

(* The inductive invariant of RealtimeProofs.tla.                          *)
IInv == /\ TypeOK /\ NothingElseIsLost /\ OwnEventsInOrder
        /\ SentInv /\ \A c \in Client : TaskInv(c)
=============================================================================
