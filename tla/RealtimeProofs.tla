--------------------------- MODULE RealtimeProofs ---------------------------
(***************************************************************************)
(* The safety invariants of Realtime.tla for any number of clients and     *)
(* rows and any capacity of the channel.  A step either changes what all   *)
(* clients share (the log, the listener and the channel) or belongs to one *)
(* client; Fine says what a client's part is, given what is shared.        *)
(***************************************************************************)
EXTENDS Realtime, TLAPS

(* What a sequence holds is of its set; as a lemma, the set stays whole.   *)
LEMMA ElementOf ==
  ASSUME NEW S, NEW s \in Seq(S), NEW i \in 1..Len(s) PROVE s[i] \in S
OBVIOUS

Shared == /\ log \in Seq(User) /\ Len(log) <= MaxRows
          /\ listener \in [state : {"starting", "listening", "lost", "dead"},
                           next : 1..MaxRows + 1]
          /\ listener.next <= Len(log) + 1
          /\ sent \in Seq(1..MaxRows)
          /\ SentInv

(* Row n has a way to the client with connection k and fetches cl.         *)
Coming(n, k, cl, nx, snt) ==
  \/ n >= nx
  \/ \E i \in k.pos + 1..Len(snt) : snt[i] = n
  \/ \E i \in 1..Len(k.wire) : k.wire[i] = n
  \/ cl.due

(* The part of client c: connection k, fetches cl, excused rows ex.        *)
Fine(c, k, cl, ex, lg, nx, snt) ==
  /\ k \in ConnState /\ cl \in [seen : 0..MaxRows, due : BOOLEAN]
  /\ ex \in SUBSET (1..MaxRows)
  /\ k.pos <= Len(snt)
  /\ k.state # "open" => k.wire = <<>>
  /\ \A i \in 1..Len(k.wire) :
       /\ k.wire[i] \in 1..Len(lg) /\ lg[k.wire[i]] = UserOf[c]
       /\ k.wire[i] < nx
       /\ \A j \in k.pos + 1..Len(snt) : k.wire[i] < snt[j]
  /\ Increasing(k.wire)
  /\ k.state = "open" =>
       \A n \in cl.seen + 1..Len(lg) :
         lg[n] = UserOf[c] => n \in ex \/ Coming(n, k, cl, nx, snt)

Typed == /\ conn \in [Client -> ConnState]
         /\ client \in [Client -> [seen : 0..MaxRows, due : BOOLEAN]]
         /\ excused \in [Client -> SUBSET (1..MaxRows)]

Clients == /\ Typed
           /\ \A c \in Client :
                Fine(c, conn[c], client[c], excused[c], log, listener.next, sent)

(* The invariant is the two parts together.                                *)
LEMMA Parts == IInv <=> Shared /\ Clients
<1>1. ASSUME IInv PROVE Shared /\ Clients
  <2>1. Shared /\ Typed
    BY <1>1 DEF IInv, TypeOK, Shared, Typed
  <2>2. ASSUME NEW c \in Client
        PROVE  Fine(c, conn[c], client[c], excused[c], log, listener.next, sent)
    <3>1. /\ conn[c] \in ConnState /\ excused[c] \in SUBSET (1..MaxRows)
          /\ client[c] \in [seen : 0..MaxRows, due : BOOLEAN]
      BY <2>1 DEF Typed
    <3>2. conn[c].state = "open" =>
            \A n \in client[c].seen + 1..Len(log) :
              log[n] = UserOf[c] => n \in excused[c] \/ Coming(n, conn[c], client[c], listener.next, sent)
      BY <1>1 DEF IInv, NothingElseIsLost, Unseen, OnItsWay, Coming
    <3> QED
      BY <1>1, <3>1, <3>2 DEF IInv, TaskInv, OwnEventsInOrder, Fine
  <2> QED
    BY <2>1, <2>2 DEF Clients
<1>2. ASSUME Shared, Clients PROVE IInv
  <2>1. TypeOK /\ SentInv
    BY <1>2 DEF Shared, Clients, Typed, TypeOK
  <2>2. NothingElseIsLost
    BY <1>2 DEF Clients, Fine, NothingElseIsLost, Unseen, OnItsWay, Coming
  <2>3. OwnEventsInOrder /\ \A c \in Client : TaskInv(c)
    BY <1>2 DEF Clients, Fine, OwnEventsInOrder, TaskInv
  <2> QED
    BY <2>1, <2>2, <2>3 DEF IInv
<1> QED
  BY <1>1, <1>2

LEMMA InitIInv == Init => IInv
<1> SUFFICES ASSUME Init PROVE Shared /\ Clients
  BY Parts
<1>1. Shared
  BY RealtimeAssumption DEF Init, Shared, SentInv, Increasing
<1>2. NoConn \in ConnState
  BY DEF NoConn, ConnState
<1>3. Typed
  BY <1>2, RealtimeAssumption DEF Init, Typed
<1>4. ASSUME NEW c \in Client
      PROVE  Fine(c, conn[c], client[c], excused[c], log, listener.next, sent)
  <2>1. /\ conn[c] = NoConn /\ client[c] = [seen |-> 0, due |-> FALSE] /\ excused[c] = {}
        /\ sent = <<>>
    BY DEF Init
  <2> QED
    BY <1>2, <2>1, RealtimeAssumption DEF NoConn, Fine, Increasing
<1> QED
  BY <1>1, <1>3, <1>4 DEF Clients

-----------------------------------------------------------------------------
(* A step that leaves the clients' parts alone keeps them right.           *)
LEMMA SharedStep ==
  ASSUME IInv, Shared', Typed',
         \A c \in Client : Fine(c, conn'[c], client'[c], excused'[c], log', listener'.next, sent')
  PROVE  IInv'
<1>1. Clients'
  BY DEF Clients
<1> QED
  BY <1>1, Parts, PTL

(* A step of client c alone.                                               *)
LEMMA ClientStep ==
  ASSUME IInv, NEW c \in Client, NEW k, NEW cl, NEW ex,
         UNCHANGED <<log, listener, sent>>,
         conn' = [conn EXCEPT ![c] = k], client' = [client EXCEPT ![c] = cl],
         excused' = [excused EXCEPT ![c] = ex],
         Fine(c, k, cl, ex, log, listener.next, sent)
  PROVE  IInv'
<1>1. Shared /\ Clients
  BY Parts
<1>2. Shared'
  BY <1>1 DEF Shared, SentInv
<1>3. Typed'
  BY <1>1 DEF Clients, Typed, Fine
<1>4. ASSUME NEW d \in Client
      PROVE  Fine(d, conn'[d], client'[d], excused'[d], log, listener.next, sent)
  <2>1. CASE d = c
    BY <1>1, <2>1 DEF Clients, Typed
  <2>2. CASE d # c
    <3>1. conn'[d] = conn[d] /\ client'[d] = client[d] /\ excused'[d] = excused[d]
      BY <1>1, <2>2 DEF Clients, Typed
    <3> QED
      BY <1>1, <3>1 DEF Clients
  <2> QED
    BY <2>1, <2>2
<1> QED
  BY <1>2, <1>3, <1>4, SharedStep

(* The shared steps.                                                       *)
LEMMA NotifyStep == ASSUME IInv, NEW users \in Notified, Notify(users) PROVE IInv'
<1>1. Shared /\ Clients
  BY Parts
<1>2. users \in Seq(User)
  <2>1. CASE \E u \in User : users = <<u>>
    BY <2>1
  <2>2. CASE \E u, v \in User : users = <<u, v>>
    BY <2>2
  <2> QED
    BY <2>1, <2>2 DEF Notified
<1>3. /\ log' \in Seq(User) /\ Len(log) <= Len(log') /\ Len(log') <= MaxRows
      /\ \A n \in 1..Len(log) : log'[n] = log[n]
      /\ Len(log) \in Nat /\ Len(log') \in Nat
  BY <1>1, <1>2 DEF Shared, Notify
<1>4. Shared' /\ Typed'
  BY <1>1, <1>3, RealtimeAssumption DEF Shared, SentInv, Clients, Typed, Notify
<1>5. ASSUME NEW c \in Client
      PROVE  Fine(c, conn[c], client[c], excused[c], log', listener.next, sent)
  <2>1. Fine(c, conn[c], client[c], excused[c], log, listener.next, sent)
    BY <1>1 DEF Clients
  <2>2. \A i \in 1..Len(conn[c].wire) :
          conn[c].wire[i] \in 1..Len(log') /\ log'[conn[c].wire[i]] = UserOf[c]
    BY <1>3, <2>1 DEF Fine
  <2>3. ASSUME conn[c].state = "open", NEW n \in client[c].seen + 1..Len(log'), log'[n] = UserOf[c]
        PROVE  n \in excused[c] \/ Coming(n, conn[c], client[c], listener.next, sent)
    <3>1. client[c].seen \in Nat /\ listener.next \in Nat
      BY <1>1, <2>1, RealtimeAssumption DEF Fine, Shared
    <3>2. CASE n <= Len(log)
      BY <1>3, <2>1, <2>3, <3>1, <3>2 DEF Fine
    <3>3. CASE n > Len(log)
      BY <1>1, <1>3, <3>1, <3>3 DEF Shared, Coming
    <3> QED
      BY <1>3, <3>1, <3>2, <3>3
  <2> QED
    BY <2>1, <2>2, <2>3 DEF Fine
<1> QED
  BY <1>4, <1>5, SharedStep DEF Notify

LEMMA ListenStep == ASSUME IInv, Listen PROVE IInv'
<1>1. Shared /\ Clients
  BY Parts
<1>2. /\ listener' = [state |-> "listening", next |-> Len(log) + 1]
      /\ UNCHANGED <<log, sent, conn, client>>
      /\ Len(log) \in Nat /\ MaxRows \in Nat /\ Len(log) <= MaxRows
  BY <1>1, RealtimeAssumption DEF Listen, Shared
<1>3. Shared'
  BY <1>1, <1>2 DEF Shared, SentInv
<1>4. ASSUME NEW c \in Client
      PROVE  /\ excused'[c] \in SUBSET (1..MaxRows)
             /\ Fine(c, conn[c], client[c], excused'[c], log, Len(log) + 1, sent)
  <2>1. Fine(c, conn[c], client[c], excused[c], log, listener.next, sent)
    BY <1>1 DEF Clients
  <2>2. excused'[c] = excused[c] \cup {n \in Unseen(c) : n >= listener.next}
    BY DEF Listen
  <2>3. client[c].seen \in Nat /\ Unseen(c) \in SUBSET (1..MaxRows) /\ listener.next \in Nat
    BY <1>1, <1>2, <2>1 DEF Fine, Unseen, Shared
  <2>4. excused'[c] \in SUBSET (1..MaxRows)
    BY <2>1, <2>2, <2>3 DEF Fine
  <2>5. \A i \in 1..Len(conn[c].wire) : conn[c].wire[i] < Len(log) + 1
    BY <1>2, <2>1 DEF Fine
  <2>6. ASSUME conn[c].state = "open", NEW n \in client[c].seen + 1..Len(log), log[n] = UserOf[c]
        PROVE  n \in excused'[c] \/ Coming(n, conn[c], client[c], Len(log) + 1, sent)
    <3>1. n \in excused[c] \/ Coming(n, conn[c], client[c], listener.next, sent)
      BY <2>1, <2>6 DEF Fine
    <3>2. n >= listener.next => n \in excused'[c]
      BY <2>2, <2>6 DEF Unseen
    <3> QED
      BY <2>2, <3>1, <3>2 DEF Coming
  <2> QED
    BY <2>1, <2>4, <2>5, <2>6 DEF Fine
<1>5. Typed'
  BY <1>1, <1>2, <1>4 DEF Clients, Typed, Listen
<1> QED
  BY <1>2, <1>3, <1>4, <1>5, SharedStep

(* Only the listener's state changes.                                      *)
LEMMA ListenerStateStep ==
  ASSUME IInv, ListenerDies \/ ConnectionLost
  PROVE  IInv'
<1>1. Shared /\ Clients
  BY Parts
<1>2. listener'.next = listener.next /\ UNCHANGED <<log, sent, conn, client, excused>>
  BY <1>1 DEF Shared, ListenerDies, ConnectionLost
<1>3. Shared'
  BY <1>1, <1>2 DEF Shared, SentInv, ListenerDies, ConnectionLost
<1> QED
  BY <1>1, <1>2, <1>3, SharedStep DEF Clients, Typed

LEMMA ForwardStep == ASSUME IInv, Forward PROVE IInv'
<1>1. Shared /\ Clients
  BY Parts
<1>2. /\ sent' = Append(sent, listener.next) /\ listener' = [listener EXCEPT !.next = @ + 1]
      /\ listener.next <= Len(log) /\ UNCHANGED <<log, conn, client, excused>>
  BY DEF Forward
<1>3. /\ listener.next \in 1..MaxRows /\ listener'.next = listener.next + 1
      /\ listener.next \in Nat /\ Len(sent) \in Nat
  BY <1>1, <1>2, RealtimeAssumption DEF Shared
<1>4. /\ sent' \in Seq(1..MaxRows) /\ Len(sent') = Len(sent) + 1
      /\ \A i \in 1..Len(sent) : sent'[i] = sent[i]
      /\ sent'[Len(sent) + 1] = listener.next
  BY <1>1, <1>2, <1>3 DEF Shared
<1>5. SentInv'
  <2>1. ASSUME NEW i \in 1..Len(sent') PROVE sent'[i] < listener'.next
    <3>1. CASE i = Len(sent) + 1
      BY <1>3, <1>4, <3>1
    <3>2. CASE i # Len(sent) + 1
      <4>1. i \in 1..Len(sent)
        BY <1>3, <1>4, <3>2
      <4>2. sent[i] \in Nat /\ sent[i] < listener.next
        BY <1>1, <4>1, RealtimeAssumption DEF Shared, SentInv
      <4> QED
        BY <1>3, <1>4, <4>1, <4>2
    <3> QED
      BY <3>1, <3>2
  <2>2. ASSUME NEW i \in 1..Len(sent'), NEW j \in 1..Len(sent'), i < j
        PROVE  sent'[i] < sent'[j]
    <3>1. i \in 1..Len(sent) /\ sent'[i] = sent[i] /\ sent[i] < listener.next
      BY <1>1, <1>3, <1>4, <2>2 DEF Shared, SentInv
    <3>2. CASE j = Len(sent) + 1
      BY <1>4, <3>1, <3>2
    <3>3. CASE j # Len(sent) + 1
      <4>1. j \in 1..Len(sent) /\ sent'[j] = sent[j]
        BY <1>3, <1>4, <3>3
      <4>2. sent[i] < sent[j]
        BY <1>1, <2>2, <3>1, <4>1 DEF Shared, SentInv, Increasing
      <4> QED
        BY <3>1, <4>1, <4>2
    <3> QED
      BY <3>2, <3>3
  <2> QED
    BY <2>1, <2>2 DEF SentInv, Increasing
<1>6. Shared'
  <2>1. listener'.next \in 1..MaxRows + 1 /\ listener'.next <= Len(log) + 1
    BY <1>1, <1>2, <1>3, RealtimeAssumption DEF Shared
  <2>2. listener' \in [state : {"starting", "listening", "lost", "dead"}, next : 1..MaxRows + 1]
    BY <1>1, <1>2, <2>1 DEF Shared
  <2> QED
    BY <1>1, <1>2, <1>4, <1>5, <2>1, <2>2 DEF Shared
<1>7. ASSUME NEW c \in Client
      PROVE  Fine(c, conn[c], client[c], excused[c], log, listener'.next, sent')
  <2>1. Fine(c, conn[c], client[c], excused[c], log, listener.next, sent)
    BY <1>1 DEF Clients
  <2>2. conn[c].pos \in Nat /\ conn[c].pos <= Len(sent)
    BY <2>1 DEF Fine, ConnState
  <2>3. \A i \in 1..Len(conn[c].wire) :
          /\ conn[c].wire[i] < listener'.next
          /\ \A j \in conn[c].pos + 1..Len(sent') : conn[c].wire[i] < sent'[j]
    <3> SUFFICES ASSUME NEW i \in 1..Len(conn[c].wire)
                 PROVE  /\ conn[c].wire[i] < listener'.next
                        /\ \A j \in conn[c].pos + 1..Len(sent') : conn[c].wire[i] < sent'[j]
      OBVIOUS
    <3>1. conn[c].wire[i] \in Nat /\ conn[c].wire[i] < listener.next
      BY <1>1, <2>1 DEF Fine, Shared
    <3>2. \A j \in conn[c].pos + 1..Len(sent) : conn[c].wire[i] < sent[j]
      BY <2>1 DEF Fine
    <3>3. conn[c].wire[i] < listener'.next
      BY <1>3, <3>1
    <3>4. ASSUME NEW j \in conn[c].pos + 1..Len(sent') PROVE conn[c].wire[i] < sent'[j]
      <4>1. CASE j = Len(sent) + 1
        BY <1>4, <3>1, <4>1
      <4>2. CASE j # Len(sent) + 1
        <5>1. j \in conn[c].pos + 1..Len(sent) /\ j \in 1..Len(sent)
          BY <1>3, <1>4, <2>2, <4>2
        <5>2. conn[c].wire[i] < sent[j] /\ sent'[j] = sent[j]
          BY <1>4, <3>2, <5>1
        <5> QED
          BY <5>2
      <4> QED
        BY <4>1, <4>2
    <3> QED
      BY <3>3, <3>4
  <2>4. ASSUME NEW n \in Nat, Coming(n, conn[c], client[c], listener.next, sent)
        PROVE  Coming(n, conn[c], client[c], listener'.next, sent')
    <3>1. CASE n = listener.next
      BY <1>3, <1>4, <2>2, <3>1 DEF Coming
    <3>2. CASE n # listener.next
      BY <1>3, <1>4, <2>2, <2>4, <3>2 DEF Coming
    <3> QED
      BY <3>1, <3>2
  <2>5. \A n \in client[c].seen + 1..Len(log) : n \in Nat
    BY <1>1, <2>1 DEF Fine, Shared
  <2> QED
    BY <1>3, <1>4, <2>1, <2>2, <2>3, <2>4, <2>5 DEF Fine
<1>8. Typed'
  BY <1>1, <1>2 DEF Clients, Typed
<1> QED
  BY <1>2, <1>6, <1>7, <1>8, SharedStep

LEMMA RestartStep == ASSUME IInv, Restart PROVE IInv'
<1>1. Shared /\ Clients
  BY Parts
<1>2. /\ listener'.next = listener.next /\ UNCHANGED <<log, sent, client, excused>>
      /\ conn' = [c \in Client |-> NoConn]
  BY <1>1 DEF Shared, Restart
<1>3. Shared'
  BY <1>1, <1>2 DEF Shared, SentInv, Restart
<1>4. NoConn \in ConnState
  BY DEF NoConn, ConnState
<1>5. Typed'
  BY <1>1, <1>2, <1>4 DEF Clients, Typed
<1>6. ASSUME NEW c \in Client
      PROVE  Fine(c, NoConn, client[c], excused[c], log, listener.next, sent)
  BY <1>1, <1>4 DEF Clients, Shared, Fine, NoConn, Increasing
<1> QED
  BY <1>2, <1>3, <1>5, <1>6, SharedStep

-----------------------------------------------------------------------------
(* The clients' steps.                                                     *)
LEMMA ClientSteps ==
  ASSUME IInv, NEW c \in Client,
         \/ Upgrade(c) \/ Subscribe(c) \/ Dispatch(c) \/ Lag(c)
         \/ Drop(c) \/ Receive(c) \/ Fetch(c)
  PROVE  IInv'
<1> DEFINE k == conn[c]
           cl == client[c]
           ex == excused[c]
<1>1. /\ Shared /\ Clients /\ Fine(c, k, cl, ex, log, listener.next, sent)
      /\ conn = [conn EXCEPT ![c] = k] /\ client = [client EXCEPT ![c] = cl]
      /\ excused = [excused EXCEPT ![c] = ex]
  BY Parts DEF Clients, Typed
<1> HIDE DEF k, cl, ex
<1>2. /\ k \in ConnState /\ k.pos \in Nat /\ k.wire \in Seq(Nat) /\ k.pos <= Len(sent)
      /\ Len(sent) \in Nat /\ Len(log) \in Nat /\ MaxRows \in Nat /\ Capacity \in Nat
      /\ Len(log) <= MaxRows
      /\ listener.next \in Nat /\ cl.seen \in Nat
      /\ \A i \in 1..Len(sent) : sent[i] \in Nat /\ sent[i] < listener.next
      /\ Increasing(sent)
  <2>1. k \in ConnState /\ k.pos \in Nat /\ k.wire \in Seq(Nat) /\ k.pos <= Len(sent)
    BY <1>1 DEF Fine, ConnState
  <2>2. /\ Len(sent) \in Nat /\ Len(log) \in Nat /\ MaxRows \in Nat /\ Capacity \in Nat
        /\ Len(log) <= MaxRows
        /\ listener.next \in Nat
    BY <1>1, RealtimeAssumption DEF Shared
  <2>3. cl.seen \in Nat
    BY <1>1, <2>2 DEF Fine
  <2>4. \A i \in 1..Len(sent) : sent[i] \in Nat /\ sent[i] < listener.next
    BY <1>1, <2>2 DEF Shared, SentInv
  <2> QED
    BY <1>1, <2>1, <2>2, <2>3, <2>4 DEF Shared, SentInv
<1>3. CASE Upgrade(c)
  <2> DEFINE k2 == [k EXCEPT !.state = "upgraded"]
  <2>1. conn' = [conn EXCEPT ![c] = k2] /\ k.state = "none"
    BY <1>1, <1>3 DEF Upgrade, Clients, Typed, k, cl, ex
  <2>2. k2 \in ConnState /\ k2.state = "upgraded" /\ k2.pos = k.pos /\ k2.wire = k.wire
    BY <1>2 DEF ConnState
  <2> HIDE DEF k2
  <2>3. Fine(c, k2, cl, ex, log, listener.next, sent)
    BY <1>1, <2>1, <2>2 DEF Fine
  <2>4. /\ UNCHANGED <<log, listener, sent>>
        /\ client' = [client EXCEPT ![c] = cl] /\ excused' = [excused EXCEPT ![c] = ex]
    BY <1>1, <1>3 DEF Upgrade
  <2> QED
    BY <2>1, <2>3, <2>4, ClientStep, Zenon
<1>4. CASE Subscribe(c)
  <2> DEFINE k2 == [k EXCEPT !.state = "open", !.pos = Len(sent)]
             ex2 == {n \in Unseen(c) : n < listener.next}
  <2>1. conn' = [conn EXCEPT ![c] = k2] /\ k.state = "upgraded"
        /\ excused' = [excused EXCEPT ![c] = ex2]
    BY <1>1, <1>4 DEF Subscribe, Clients, Typed, k, cl, ex
  <2>2. k2 \in ConnState /\ k2.state = "open" /\ k2.pos = Len(sent) /\ k2.wire = <<>>
    <3>1. k.wire = <<>>
      BY <1>1, <2>1 DEF Fine
    <3> QED
      BY <1>2, <3>1 DEF ConnState
  <2> HIDE DEF k2
  <2>3. ex2 \in SUBSET (1..MaxRows)
    BY <1>2 DEF Unseen, cl
  <2>4. ASSUME NEW n \in cl.seen + 1..Len(log), log[n] = UserOf[c]
        PROVE  n \in ex2 \/ Coming(n, k2, cl, listener.next, sent)
    BY <1>2, <2>4 DEF Unseen, Coming, cl
  <2> HIDE DEF ex2
  <2>5. Fine(c, k2, cl, ex2, log, listener.next, sent)
    BY <1>1, <2>2, <2>3, <2>4 DEF Fine, Increasing
  <2>6. /\ UNCHANGED <<log, listener, sent>>
        /\ client' = [client EXCEPT ![c] = cl]
    BY <1>1, <1>4 DEF Subscribe
  <2> QED
    BY <2>1, <2>5, <2>6, ClientStep, Zenon
<1>5. CASE Lag(c)
  <2> DEFINE k2 == [k EXCEPT !.pos = Len(sent) - Capacity]
             gone == {sent[i] : i \in k.pos + 1..Len(sent) - Capacity}
             ex2 == ex \cup (Unseen(c) \cap gone)
  <2>1. conn' = [conn EXCEPT ![c] = k2] /\ k.state = "open" /\ Len(sent) - k.pos > Capacity
        /\ excused' = [excused EXCEPT ![c] = ex2]
    BY <1>1, <1>5 DEF Lag, Clients, Typed, k, cl, ex
  <2>2. /\ k2 \in ConnState /\ k2.state = "open" /\ k2.pos = Len(sent) - Capacity
        /\ k2.wire = k.wire /\ k2.pos \in Nat /\ k.pos <= k2.pos /\ k2.pos <= Len(sent)
    <3>1. /\ Len(sent) - Capacity \in Nat /\ k.pos <= Len(sent) - Capacity
          /\ Len(sent) - Capacity <= Len(sent)
      BY <1>2, <2>1
    <3> QED
      BY <1>2, <2>1, <3>1 DEF ConnState
  <2> HIDE DEF k2
  <2>3. ex2 \in SUBSET (1..MaxRows)
    <3>1. Unseen(c) \in SUBSET (1..MaxRows)
      BY <1>2 DEF Unseen, cl
    <3> QED
      BY <1>1, <3>1 DEF Fine
  <2>4. ASSUME NEW i \in 1..Len(k2.wire), NEW j \in k2.pos + 1..Len(sent)
        PROVE  k2.wire[i] < sent[j]
    <3>1. i \in 1..Len(k.wire) /\ j \in k.pos + 1..Len(sent)
      BY <1>2, <2>2, <2>4
    <3> QED
      BY <1>1, <2>2, <3>1 DEF Fine
  <2>5. ASSUME NEW n \in cl.seen + 1..Len(log), log[n] = UserOf[c]
        PROVE  n \in ex2 \/ Coming(n, k2, cl, listener.next, sent)
    <3>1. n \in ex \/ Coming(n, k, cl, listener.next, sent)
      BY <1>1, <2>1, <2>5 DEF Fine
    <3>2. CASE \E i \in k.pos + 1..Len(sent) : sent[i] = n
      <4>1. PICK i \in k.pos + 1..Len(sent) : sent[i] = n
        BY <3>2
      <4>2. CASE i <= Len(sent) - Capacity
        BY <1>2, <2>5, <4>1, <4>2 DEF Unseen, cl
      <4>3. CASE i > Len(sent) - Capacity
        BY <1>2, <2>2, <4>1, <4>3 DEF Coming
      <4> QED
        BY <1>2, <4>1, <4>2, <4>3
    <3> QED
      BY <2>2, <3>1, <3>2 DEF Coming
  <2> HIDE DEF ex2
  <2>6. Fine(c, k2, cl, ex2, log, listener.next, sent)
    BY <1>1, <2>2, <2>3, <2>4, <2>5 DEF Fine
  <2> QED
    <3>1. /\ UNCHANGED <<log, listener, sent>>
          /\ client' = [client EXCEPT ![c] = cl]
      BY <1>1, <1>5 DEF Lag
    <3> QED
      BY <2>1, <2>6, <3>1, ClientStep, Zenon
<1>6. CASE Dispatch(c)
  <2> DEFINE m == sent[k.pos + 1]
             k2 == [k EXCEPT !.pos = @ + 1,
                             !.wire = IF log[m] = UserOf[c] THEN Append(@, m) ELSE @]
  <2>1. conn' = [conn EXCEPT ![c] = k2] /\ k.state = "open" /\ k.pos < Len(sent)
    BY <1>1, <1>6 DEF Dispatch, Clients, Typed, k, cl, ex
  <2>2. m \in 1..Len(log) /\ m < listener.next /\ m \in Nat /\ k.pos + 1 \in 1..Len(sent)
    <3>1. k.pos + 1 \in 1..Len(sent)
      BY <1>2, <2>1
    <3>2. m \in 1..MaxRows
      <4>1. sent \in Seq(1..MaxRows)
        BY <1>1 DEF Shared
      <4> QED
        BY <3>1, <4>1, ElementOf
    <3>3. m < listener.next
      BY <1>1, <3>1 DEF Shared, SentInv
    <3>4. listener.next \in Nat /\ listener.next <= Len(log) + 1 /\ Len(log) \in Nat /\ m \in Nat
      BY <1>1, <3>2, RealtimeAssumption DEF Shared
    <3> HIDE DEF m
    <3> QED
      BY <3>1, <3>2, <3>3, <3>4, RealtimeAssumption
  <2>3. /\ \A j \in k.pos + 2..Len(sent) : m < sent[j]
        /\ \A i \in 1..Len(k.wire) : k.wire[i] < m
    <3>1. \A j \in k.pos + 2..Len(sent) : m < sent[j]
      <4> SUFFICES ASSUME NEW j \in k.pos + 2..Len(sent) PROVE m < sent[j]
        OBVIOUS
      <4>1. k.pos + 1 \in 1..Len(sent) /\ j \in 1..Len(sent) /\ k.pos + 1 < j
        <5>1. k.pos \in Nat /\ Len(sent) \in Nat /\ j \in k.pos + 2..Len(sent)
          BY <1>1, <1>2 DEF Shared
        <5> QED
          BY <2>1, <5>1
      <4> QED
        BY <1>2, <4>1 DEF Increasing, m
    <3>2. k.pos + 1 \in k.pos + 1..Len(sent)
      BY <1>2, <2>1
    <3>3. \A i \in 1..Len(k.wire) : k.wire[i] < m
      BY <1>1, <3>2 DEF Fine, m
    <3> QED
      BY <3>1, <3>3
  <2>6. /\ UNCHANGED <<log, listener, sent>>
        /\ client' = [client EXCEPT ![c] = cl] /\ excused' = [excused EXCEPT ![c] = ex]
    BY <1>1, <1>6 DEF Dispatch
  <2> HIDE DEF m
  <2>4. CASE log[m] = UserOf[c]
    <3>1. k2 = [k EXCEPT !.pos = k.pos + 1, !.wire = Append(k.wire, m)]
      BY <1>2, <2>4 DEF ConnState
    <3>2. /\ k2 \in ConnState /\ k2.state = "open" /\ k2.pos = k.pos + 1
          /\ k2.wire = Append(k.wire, m)
      <4>1. k.pos + 1 \in Nat /\ Append(k.wire, m) \in Seq(Nat)
        BY <1>2, <2>2
      <4> HIDE DEF k2
      <4> QED
        BY <1>2, <2>1, <3>1, <4>1 DEF ConnState
    <3>3. /\ Len(k2.wire) = Len(k.wire) + 1 /\ Len(k.wire) \in Nat
          /\ \A i \in 1..Len(k.wire) : k2.wire[i] = k.wire[i]
          /\ k2.wire[Len(k.wire) + 1] = m
      BY <1>2, <2>2, <3>2
    <3> HIDE DEF k2
    <3>4. \A i \in 1..Len(k2.wire) :
            /\ k2.wire[i] \in 1..Len(log) /\ log[k2.wire[i]] = UserOf[c]
            /\ k2.wire[i] < listener.next
            /\ \A j \in k2.pos + 1..Len(sent) : k2.wire[i] < sent[j]
      <4>1. ASSUME NEW i \in 1..Len(k.wire)
            PROVE  /\ k2.wire[i] \in 1..Len(log) /\ log[k2.wire[i]] = UserOf[c]
                   /\ k2.wire[i] < listener.next
                   /\ \A j \in k2.pos + 1..Len(sent) : k2.wire[i] < sent[j]
        BY <1>1, <1>2, <3>2, <3>3 DEF Fine
      <4>2. \A j \in k2.pos + 1..Len(sent) : m < sent[j]
        BY <1>2, <2>3, <3>2
      <4>3. ASSUME NEW i \in 1..Len(k2.wire), i \notin 1..Len(k.wire)
            PROVE  k2.wire[i] = m
        BY <3>3, <4>3
      <4> QED
        BY <2>2, <2>4, <4>1, <4>2, <4>3
    <3>5. Increasing(k2.wire)
      <4>1. ASSUME NEW i \in 1..Len(k2.wire), NEW j \in 1..Len(k2.wire), i < j
            PROVE  k2.wire[i] < k2.wire[j]
        <5>1. CASE j = Len(k.wire) + 1
          BY <2>3, <3>3, <4>1, <5>1
        <5>2. CASE j # Len(k.wire) + 1
          <6>1. i \in 1..Len(k.wire) /\ j \in 1..Len(k.wire)
            BY <3>3, <4>1, <5>2
          <6>2. k.wire[i] < k.wire[j]
            BY <1>1, <4>1, <6>1 DEF Fine, Increasing
          <6> QED
            BY <3>3, <6>1, <6>2
        <5> QED
          BY <5>1, <5>2
      <4> QED
        BY <4>1 DEF Increasing
    <3>6. ASSUME NEW n \in cl.seen + 1..Len(log), log[n] = UserOf[c]
          PROVE  n \in ex \/ Coming(n, k2, cl, listener.next, sent)
      <4>1. n \in ex \/ Coming(n, k, cl, listener.next, sent)
        BY <1>1, <2>1, <3>6 DEF Fine
      <4>2. CASE \E i \in k.pos + 1..Len(sent) : sent[i] = n
        <5>1. PICK i \in k.pos + 1..Len(sent) : sent[i] = n
          BY <4>2
        <5>2. CASE i = k.pos + 1
          <6>1. n = m /\ Len(k.wire) + 1 \in 1..Len(k2.wire)
            BY <3>3, <5>1, <5>2 DEF m
          <6> QED
            BY <3>3, <6>1 DEF Coming
        <5>3. CASE i # k.pos + 1
          <6>1. i \in k2.pos + 1..Len(sent)
            <7>1. k2.pos = k.pos + 1
              BY <3>2
            <7>2. k.pos \in Nat
              BY <1>2 DEF ConnState
            <7>3. i \in Nat /\ k.pos + 1 <= i /\ i <= Len(sent)
              BY <5>1, <7>2
            <7> QED
              BY <5>3, <7>1, <7>2, <7>3
          <6> QED
            BY <5>1, <6>1 DEF Coming
        <5> QED
          BY <5>2, <5>3
      <4>3. CASE \E i \in 1..Len(k.wire) : k.wire[i] = n
        BY <3>3, <4>3 DEF Coming
      <4> QED
        BY <4>1, <4>2, <4>3 DEF Coming
    <3>7. /\ cl \in [seen : 0..MaxRows, due : BOOLEAN] /\ ex \in SUBSET (1..MaxRows)
          /\ k2.pos <= Len(sent)
      BY <1>1, <1>2, <2>1, <3>2 DEF Fine
    <3>8. Fine(c, k2, cl, ex, log, listener.next, sent)
      BY <3>2, <3>4, <3>5, <3>6, <3>7 DEF Fine
    <3> QED
      BY <2>1, <2>6, <3>8, ClientStep, Zenon
  <2>5. CASE log[m] # UserOf[c]
    <3>1. k2 = [k EXCEPT !.pos = k.pos + 1]
      BY <1>2, <2>5 DEF ConnState
    <3>2. /\ k2 \in ConnState /\ k2.state = "open" /\ k2.pos = k.pos + 1 /\ k2.wire = k.wire
      <4>1. k.pos + 1 \in Nat
        BY <1>2
      <4> HIDE DEF k2
      <4> QED
        BY <1>2, <2>1, <3>1, <4>1 DEF ConnState
    <3> HIDE DEF k2
    <3>3. \A i \in 1..Len(k2.wire) : \A j \in k2.pos + 1..Len(sent) : k2.wire[i] < sent[j]
      BY <1>1, <1>2, <3>2 DEF Fine
    <3>4. ASSUME NEW n \in cl.seen + 1..Len(log), log[n] = UserOf[c]
          PROVE  n \in ex \/ Coming(n, k2, cl, listener.next, sent)
      <4>1. n \in ex \/ Coming(n, k, cl, listener.next, sent)
        BY <1>1, <2>1, <3>4 DEF Fine
      <4>2. CASE \E i \in k.pos + 1..Len(sent) : sent[i] = n
        <5>1. PICK i \in k.pos + 1..Len(sent) : sent[i] = n
          BY <4>2
        <5>2. i # k.pos + 1
          BY <2>5, <3>4, <5>1 DEF m
        <5> QED
          BY <1>2, <3>2, <5>1, <5>2 DEF Coming
      <4> QED
        BY <3>2, <4>1, <4>2 DEF Coming
    <3>5. Fine(c, k2, cl, ex, log, listener.next, sent)
      BY <1>1, <1>2, <2>1, <3>2, <3>3, <3>4 DEF Fine
    <3> QED
      BY <2>1, <2>6, <3>5, ClientStep, Zenon
  <2> QED
    BY <2>4, <2>5
<1>7. CASE Drop(c)
  <2>1. NoConn \in ConnState
    BY DEF NoConn, ConnState
  <2>2. Fine(c, NoConn, cl, ex, log, listener.next, sent)
    BY <1>1, <1>2, <2>1 DEF Fine, NoConn, Increasing
  <2> QED
    <3>1. /\ UNCHANGED <<log, listener, sent>> /\ conn' = [conn EXCEPT ![c] = NoConn]
          /\ client' = [client EXCEPT ![c] = cl] /\ excused' = [excused EXCEPT ![c] = ex]
      BY <1>1, <1>7 DEF Drop
    <3> QED
      BY <2>2, <3>1, ClientStep, Zenon
<1>8. CASE Receive(c)
  <2> DEFINE k2 == [k EXCEPT !.wire = Tail(k.wire)]
             cl2 == [cl EXCEPT !.due = TRUE]
  <2>1. /\ conn' = [conn EXCEPT ![c] = k2] /\ client' = [client EXCEPT ![c] = cl2]
        /\ k.wire # <<>>
    BY <1>1, <1>8 DEF Receive, Clients, Typed, k, cl, ex
  <2>2. /\ k2 \in ConnState /\ k2.state = k.state /\ k2.pos = k.pos /\ k2.wire = Tail(k.wire)
        /\ cl2 \in [seen : 0..MaxRows, due : BOOLEAN] /\ cl2.due
    <3>1. Tail(k.wire) \in Seq(Nat)
      BY <1>2, <2>1
    <3>2. k2 \in ConnState /\ k2.state = k.state /\ k2.pos = k.pos /\ k2.wire = Tail(k.wire)
      BY <1>2, <3>1 DEF ConnState
    <3>3. cl2 \in [seen : 0..MaxRows, due : BOOLEAN] /\ cl2.due
      BY <1>1 DEF Fine
    <3> QED
      BY <3>2, <3>3
  <2>3. /\ Len(k2.wire) = Len(k.wire) - 1 /\ Len(k.wire) \in Nat
        /\ \A i \in 1..Len(k2.wire) : k2.wire[i] = k.wire[i + 1]
    BY <1>2, <2>1, <2>2
  <2> HIDE DEF k2, cl2
  <2>4. \A i \in 1..Len(k2.wire) :
          /\ k2.wire[i] \in 1..Len(log) /\ log[k2.wire[i]] = UserOf[c]
          /\ k2.wire[i] < listener.next
          /\ \A j \in k2.pos + 1..Len(sent) : k2.wire[i] < sent[j]
    <3> SUFFICES ASSUME NEW i \in 1..Len(k2.wire)
                 PROVE  /\ k2.wire[i] \in 1..Len(log) /\ log[k2.wire[i]] = UserOf[c]
                        /\ k2.wire[i] < listener.next
                        /\ \A j \in k2.pos + 1..Len(sent) : k2.wire[i] < sent[j]
      OBVIOUS
    <3>1. i + 1 \in 1..Len(k.wire) /\ k2.wire[i] = k.wire[i + 1]
      BY <2>3
    <3> QED
      BY <1>1, <2>2, <3>1 DEF Fine
  <2>5. Increasing(k2.wire)
    <3>1. ASSUME NEW i \in 1..Len(k2.wire), NEW j \in 1..Len(k2.wire), i < j
          PROVE  k2.wire[i] < k2.wire[j]
      <4>1. /\ i + 1 \in 1..Len(k.wire) /\ j + 1 \in 1..Len(k.wire) /\ i + 1 < j + 1
            /\ k2.wire[i] = k.wire[i + 1] /\ k2.wire[j] = k.wire[j + 1]
        BY <2>3, <3>1
      <4> QED
        BY <1>1, <4>1 DEF Fine, Increasing
    <3> QED
      BY <3>1 DEF Increasing
  <2>6. k.state = "open"
    BY <1>1, <2>1 DEF Fine
  <2>7. Fine(c, k2, cl2, ex, log, listener.next, sent)
    BY <1>1, <2>2, <2>4, <2>5, <2>6 DEF Fine, Coming
  <2> QED
    <3>1. /\ UNCHANGED <<log, listener, sent>>
          /\ excused' = [excused EXCEPT ![c] = ex]
      BY <1>1, <1>8 DEF Receive
    <3> QED
      BY <2>1, <2>7, <3>1, ClientStep, Zenon
<1>9. CASE Fetch(c)
  <2> DEFINE cl2 == [seen |-> Len(log), due |-> FALSE]
  <2>1. client' = [client EXCEPT ![c] = cl2] /\ excused' = [excused EXCEPT ![c] = {}]
    BY <1>9 DEF Fetch
  <2>2. cl2 \in [seen : 0..MaxRows, due : BOOLEAN] /\ cl2.seen = Len(log)
    BY <1>2
  <2> HIDE DEF cl2
  <2>3. Fine(c, k, cl2, {}, log, listener.next, sent)
    BY <1>1, <1>2, <2>2 DEF Fine
  <2> QED
    <3>1. /\ UNCHANGED <<log, listener, sent>> /\ conn' = [conn EXCEPT ![c] = k]
      BY <1>1, <1>9 DEF Fetch
    <3> QED
      BY <2>1, <2>3, <3>1, ClientStep, Zenon
<1> QED
  BY <1>3, <1>4, <1>5, <1>6, <1>7, <1>8, <1>9

-----------------------------------------------------------------------------
(* The inductive invariant, for any number of clients, users and rows and  *)
(* any capacity of the channel.                                            *)
THEOREM RealtimeInvariant == Spec => []IInv
<1>1. IInv /\ [Next]_vars => IInv'
  <2> SUFFICES ASSUME IInv, [Next]_vars PROVE IInv'
    OBVIOUS
  <2>1. CASE \E users \in Notified : Notify(users)
    BY <2>1, NotifyStep
  <2>2. CASE ListenerStarts \/ Reconnect
    BY <2>2, ListenStep DEF ListenerStarts, Reconnect
  <2>3. CASE ListenerDies \/ ConnectionLost
    BY <2>3, ListenerStateStep
  <2>4. CASE Forward
    BY <2>4, ForwardStep
  <2>5. CASE \E c \in Client : \/ Upgrade(c) \/ Subscribe(c) \/ Dispatch(c) \/ Lag(c)
                               \/ Drop(c) \/ Receive(c) \/ Fetch(c)
    BY <2>5, ClientSteps
  <2>6. CASE Restart
    BY <2>6, RestartStep
  <2>7. CASE UNCHANGED vars
    <3>1. Shared' /\ Clients'
      BY <2>7, Parts DEF vars, Shared, SentInv, Clients, Typed
    <3> QED
      BY <3>1, Parts, PTL
  <2> QED
    BY <2>1, <2>2, <2>3, <2>4, <2>5, <2>6, <2>7 DEF Next
<1> QED
  BY <1>1, InitIInv, PTL DEF Spec

(* Every variable keeps its type.                                          *)
THEOREM TypeCorrect == Spec => []TypeOK
BY RealtimeInvariant, PTL DEF IInv

(* A subscribed client loses no event but those lost to the listener's     *)
(* gaps, before it subscribed, and to lag.                                 *)
THEOREM NoOtherLoss == Spec => []NothingElseIsLost
BY RealtimeInvariant, PTL DEF IInv

(* Events reach a client for its own user's rows alone, each at most once  *)
(* and in the order of the commits.                                        *)
THEOREM OwnAndOrdered == Spec => []OwnEventsInOrder
BY RealtimeInvariant, PTL DEF IInv
=============================================================================
