--------------------------- MODULE SessionsProofs ----------------------------
(***************************************************************************)
(* The safety invariants of Sessions.tla for any number of calls, devices  *)
(* and connections.  Everything a handler relies on only grows: chats and  *)
(* sessions keep what they have, and a pending session that was offered    *)
(* stays offered or is deleted.  A step moves one handler of one kind.     *)
(***************************************************************************)
EXTENDS Sessions, TLAPS

CreateSide == /\ create \in [Create -> CreateState]
              /\ \A c \in Create : create[c].next \in 1..(Len(Recipients[c]) + 1)
              /\ \A c \in Create : CreateInv(c)
              /\ \A c \in Create : create[c].pc = "done" /\ create[c].reply = "ok" =>
                                     AllInserted(c)
RelaySide == /\ relay \in [Remote -> {"idle", "waiting", "accepted", "refused"}]
             /\ \A c \in Remote : relay[c] = "accepted" => AllInserted(c)
ConfirmSide == /\ confirm \in [Confirm -> ConfirmState]
               /\ \A q \in Confirm : ConfirmInv(q)
TableSide == /\ pending \in [Row -> {"none", "pending", "deleted"}]
             /\ sessions \subseteq Device \X Device /\ chats \subseteq SUBSET User
             /\ NoHandshakeLost /\ SessionHasItsChat

(* The invariant is the four sides together.                               *)
LEMMA Sides == IInv <=> CreateSide /\ RelaySide /\ ConfirmSide /\ TableSide
BY DEF IInv, TypeOK, AcceptedMeansOffered, CreateSide, RelaySide, ConfirmSide, TableSide

LEMMA Together ==
  ASSUME CreateSide', RelaySide', ConfirmSide', TableSide'
  PROVE  IInv'
BY DEF IInv, TypeOK, AcceptedMeansOffered, CreateSide, RelaySide, ConfirmSide, TableSide

(* What a handler relies on stays.                                         *)
Grows == /\ sessions \subseteq sessions' /\ chats \subseteq chats'
         /\ \A x \in Row : pending[x] # "none" => pending'[x] # "none"

LEMMA RowOf ==
  ASSUME NEW c \in Create, NEW i \in 1..Len(Recipients[c])
  PROVE  <<c, i>> \in Row
BY DEF Row

(* The sides that a step does not move survive the tables' growth.         *)
LEMMA CreateSideStays ==
  ASSUME CreateSide, Grows, UNCHANGED create
  PROVE  CreateSide'
BY RowOf DEF CreateSide, CreateInv, AllInserted, Grows

LEMMA RelaySideStays ==
  ASSUME RelaySide, Grows, UNCHANGED relay, Remote \subseteq Create
  PROVE  RelaySide'
BY RowOf DEF RelaySide, AllInserted, Grows

LEMMA ConfirmSideStays ==
  ASSUME ConfirmSide, Grows, UNCHANGED confirm
  PROVE  ConfirmSide'
BY DEF ConfirmSide, ConfirmInv, Grows

(* The invariant holds at the start.                                       *)
LEMMA InitIInv == Init => IInv
<1> SUFFICES ASSUME Init PROVE CreateSide /\ RelaySide /\ ConfirmSide /\ TableSide
  BY Sides
<1>1. CreateSide
  BY SessionsAssumption DEF Init, CreateSide, CreateState, Reply, CreateInv
<1>2. RelaySide /\ ConfirmSide
  BY SessionsAssumption DEF Init, RelaySide, ConfirmSide, ConfirmState, Reply, ConfirmInv
<1>3. TableSide
  BY DEF Init, TableSide, NoHandshakeLost, SessionHasItsChat
<1> QED
  BY <1>1, <1>2, <1>3

(* The handler of c goes to h, for whose claims the rows are there.        *)
LEMMA CreateMoves ==
  ASSUME CreateSide, Grows, NEW c \in Create, NEW h \in CreateState,
         create' = [create EXCEPT ![c] = h],
         h.next \in 1..(Len(Recipients[c]) + 1),
         h.pc \in {"idle", "begin", "user", "device"} => h.next = 1,
         h.pc = "insert" =>
           \A i \in 1..Len(Recipients[c]) : i < h.next => pending'[<<c, i>>] # "none",
         h.pc = "done" /\ h.reply = "ok" =>
           \A i \in 1..Len(Recipients[c]) : pending'[<<c, i>>] # "none"
  PROVE  CreateSide'
<1>1. create'[c] = h /\ \A d \in Create \ {c} : create'[d] = create[d]
  BY DEF CreateSide
<1>2. create' \in [Create -> CreateState]
  BY DEF CreateSide
<1>3. ASSUME NEW d \in Create
      PROVE  /\ create'[d].next \in 1..(Len(Recipients[d]) + 1)
             /\ CreateInv(d)'
             /\ create'[d].pc = "done" /\ create'[d].reply = "ok" => AllInserted(d)'
  <2>1. CASE d = c
    BY <1>1, <2>1 DEF CreateInv, AllInserted
  <2>2. CASE d # c
    BY <1>1, <2>2, RowOf DEF CreateSide, CreateInv, AllInserted, Grows
  <2> QED
    BY <2>1, <2>2
<1> QED
  BY <1>2, <1>3 DEF CreateSide

(* Ending a call: a success needs its rows.                                *)
LEMMA CreateFinishes ==
  ASSUME CreateSide, Grows, NEW c \in Create, NEW r \in Reply, FinishCreate(c, r),
         r = "ok" => \A i \in 1..Len(Recipients[c]) : pending'[<<c, i>>] # "none"
  PROVE  CreateSide'
<1> DEFINE h == [create[c] EXCEPT !.pc = "done", !.reply = r]
<1>1. create[c] \in CreateState /\ create[c].next \in 1..(Len(Recipients[c]) + 1)
  BY DEF CreateSide
<1>2. h \in CreateState /\ h.pc = "done" /\ h.reply = r /\ h.next = create[c].next
  BY <1>1 DEF CreateState
<1>3. create' = [create EXCEPT ![c] = h]
  BY DEF FinishCreate
<1> HIDE DEF h
<1> QED
  BY <1>1, <1>2, <1>3, CreateMoves

(* Going on before the loop.                                               *)
LEMMA CreateGoesOn ==
  ASSUME CreateSide, Grows, NEW c \in Create, create[c].next = 1,
         NEW pc \in {"begin", "user", "device", "insert"}, StepCreate(c, pc)
  PROVE  CreateSide'
<1> DEFINE h == [create[c] EXCEPT !.pc = pc]
<1>1. create[c] \in CreateState /\ create[c].next \in 1..(Len(Recipients[c]) + 1)
  BY DEF CreateSide
<1>2. h \in CreateState /\ h.pc = pc /\ h.next = 1
  BY <1>1 DEF CreateState
<1>3. create' = [create EXCEPT ![c] = h]
  BY DEF StepCreate
<1>4. \A i \in 1..Len(Recipients[c]) : ~(i < 1)
  BY SessionsAssumption
<1> HIDE DEF h
<1> QED
  BY <1>1, <1>2, <1>3, <1>4, CreateMoves

(* The steps of the initiating side.                                       *)
LEMMA CreateSteps ==
  ASSUME IInv, NEW c \in Create, Arrive(c) \/ CreateStep(c) \/ CreateFails(c)
  PROVE  IInv'
<1>1. CreateSide /\ RelaySide /\ ConfirmSide /\ TableSide /\ Remote \subseteq Create
  BY Sides, SessionsAssumption
<1>2. /\ create[c] \in CreateState /\ create[c].next \in 1..(Len(Recipients[c]) + 1)
      /\ CreateInv(c) /\ Len(Recipients[c]) \in Nat
  BY <1>1, SessionsAssumption DEF CreateSide
<1>3. UNCHANGED <<sessions, chats, relay, confirm>>
  BY DEF Arrive, CreateStep, CreateFails, BeginTransaction, UpsertSender, InsertPending,
         Commit, CreateTimesOut
<1>4. ASSUME UNCHANGED pending, CreateSide' PROVE IInv'
  <2>1. Grows /\ TableSide'
    BY <1>1, <1>3, <1>4 DEF Grows, TableSide, NoHandshakeLost, SessionHasItsChat
  <2> QED
    BY <1>1, <1>3, <1>4, <2>1, RelaySideStays, ConfirmSideStays, Together
<1>5. CASE InsertPending(c) /\ Recipients[c][create[c].next] \in Registered
  <2> DEFINE x == <<c, create[c].next>>
             h == [create[c] EXCEPT !.next = @ + 1]
  <2>1. /\ create[c].pc = "insert" /\ create[c].next \in 1..Len(Recipients[c])
        /\ pending' = [pending EXCEPT ![x] = "pending"]
        /\ create' = [create EXCEPT ![c] = h]
    BY <1>2, <1>5 DEF InsertPending
  <2>2. x \in Row
    BY <2>1, RowOf
  <2>3. h \in CreateState /\ h.pc = "insert" /\ h.next = create[c].next + 1
        /\ h.next \in 1..(Len(Recipients[c]) + 1)
    BY <1>2, <2>1 DEF CreateState
  <2>4. pending'[x] = "pending" /\ \A y \in Row \ {x} : pending'[y] = pending[y]
    BY <1>1, <2>1, <2>2 DEF TableSide
  <2>5. Grows
    BY <1>3, <2>4 DEF Grows
  <2>6. TableSide'
    BY <1>1, <1>3, <2>1, <2>4 DEF TableSide, NoHandshakeLost, SessionHasItsChat
  <2>7. \A i \in 1..Len(Recipients[c]) : i < create[c].next + 1 => pending'[<<c, i>>] # "none"
    <3> SUFFICES ASSUME NEW i \in 1..Len(Recipients[c]), i < create[c].next + 1
                 PROVE  pending'[<<c, i>>] # "none"
      OBVIOUS
    <3>1. CASE i < create[c].next
      BY <1>2, <2>1, <2>5, <3>1, RowOf DEF CreateInv, Grows
    <3>2. CASE i = create[c].next
      BY <2>4, <3>2
    <3> QED
      BY <1>2, <3>1, <3>2
  <2>8. CreateSide'
    <3> HIDE DEF x, h
    <3> QED
      BY <1>1, <1>2, <2>1, <2>3, <2>5, <2>7, CreateMoves
  <2> QED
    BY <1>1, <1>3, <2>5, <2>6, <2>8, RelaySideStays, ConfirmSideStays, Together
<1>6. ASSUME UNCHANGED pending PROVE Grows
  BY <1>3, <1>6 DEF Grows
<1>7. ASSUME UNCHANGED pending, FinishCreate(c, "error") PROVE IInv'
  BY <1>1, <1>4, <1>6, <1>7, CreateFinishes DEF Reply
<1>8. CASE InsertPending(c) /\ Recipients[c][create[c].next] \notin Registered
  BY <1>7, <1>8 DEF InsertPending
<1>9. CASE CreateTimesOut(c) \/ CreateFails(c)
  BY <1>7, <1>9 DEF CreateTimesOut, CreateFails
<1>10. CASE Arrive(c) \/ BeginTransaction(c) \/ UpsertSender(c)
  <2>1. UNCHANGED pending /\ create[c].next = 1
    BY <1>2, <1>10 DEF Arrive, BeginTransaction, UpsertSender, CreateInv
  <2>2. \E pc \in {"begin", "user", "device", "insert"} : StepCreate(c, pc)
    BY <1>10 DEF Arrive, BeginTransaction, UpsertSender
  <2> QED
    BY <1>1, <1>4, <1>6, <2>1, <2>2, CreateGoesOn
<1>11. CASE Commit(c)
  <2>1. /\ FinishCreate(c, "ok") /\ UNCHANGED pending
        /\ create[c].pc = "insert" /\ create[c].next > Len(Recipients[c])
    BY <1>11 DEF Commit
  <2>2. \A i \in 1..Len(Recipients[c]) : pending'[<<c, i>>] # "none"
    BY <1>2, <2>1 DEF CreateInv
  <2> QED
    BY <1>1, <1>4, <1>6, <2>1, <2>2, CreateFinishes DEF Reply
<1> QED
  BY <1>5, <1>8, <1>9, <1>10, <1>11 DEF CreateStep

(* The remote client's node: it repeats what this node answered.           *)
LEMMA RelaySteps ==
  ASSUME IInv, NEW c \in Remote, Forward(c) \/ RelayAnswered(c) \/ RelayTimesOut(c)
  PROVE  IInv'
<1>1. CreateSide /\ RelaySide /\ ConfirmSide /\ TableSide /\ c \in Create
  BY Sides, SessionsAssumption
<1>2. UNCHANGED <<pending, sessions, chats, confirm>> /\ Grows
  BY DEF Forward, RelayAnswered, RelayTimesOut, Grows
<1>3. TableSide' /\ ConfirmSide'
  BY <1>1, <1>2, ConfirmSideStays DEF TableSide, NoHandshakeLost, SessionHasItsChat
<1>4. CreateSide'
  <2>1. CASE UNCHANGED create
    BY <1>1, <1>2, <2>1, CreateSideStays
  <2>2. CASE StepCreate(c, "user") /\ create[c].pc = "idle"
    BY <1>1, <1>2, <2>2, CreateGoesOn DEF CreateSide, CreateInv
  <2> QED
    BY <2>1, <2>2 DEF Forward, RelayAnswered, RelayTimesOut
<1>5. RelaySide'
  <2>1. ASSUME relay' = [relay EXCEPT ![c] = "accepted"], AllInserted(c) PROVE RelaySide'
    BY <1>1, <1>2, <2>1 DEF RelaySide, AllInserted
  <2>2. ASSUME NEW s \in {"waiting", "refused"}, relay' = [relay EXCEPT ![c] = s]
        PROVE  RelaySide'
    BY <1>1, <1>2, <2>2 DEF RelaySide, AllInserted
  <2>3. CASE RelayAnswered(c)
    BY <1>1, <2>1, <2>2, <2>3 DEF RelayAnswered, CreateSide
  <2>4. CASE Forward(c) \/ RelayTimesOut(c)
    BY <2>2, <2>4 DEF Forward, RelayTimesOut
  <2> QED
    BY <2>3, <2>4
<1> QED
  BY <1>3, <1>4, <1>5, Together

(* A step of a confirmation moves its handler to h and leaves the calls    *)
(* that create alone.                                                      *)
LEMMA ConfirmMoves ==
  ASSUME IInv, Grows, NEW q \in Confirm, NEW h \in ConfirmState,
         confirm' = [confirm EXCEPT ![q] = h],
         UNCHANGED <<create, relay>>, TableSide',
         h.pc \in {"findchat", "chat", "session", "delete"} => Owns(q),
         h.pc = "session" => Users(Body[q]) \in chats',
         h.pc = "delete" => Body[q] \in sessions'
  PROVE  IInv'
<1>1. CreateSide' /\ RelaySide'
  BY Sides, SessionsAssumption, CreateSideStays, RelaySideStays
<1>2. ConfirmSide
  BY Sides
<1>3. confirm'[q] = h /\ \A r \in Confirm \ {q} : confirm'[r] = confirm[r]
  BY <1>2 DEF ConfirmSide
<1>4. ASSUME NEW r \in Confirm PROVE ConfirmInv(r)'
  <2>1. CASE r = q
    BY <1>3, <2>1 DEF ConfirmInv
  <2>2. CASE r # q
    BY <1>2, <1>3, <2>2 DEF ConfirmSide, ConfirmInv, Grows
  <2> QED
    BY <2>1, <2>2
<1>5. ConfirmSide'
  BY <1>2, <1>4 DEF ConfirmSide
<1> QED
  BY <1>1, <1>5, Together

(* The steps of a confirmation.                                            *)
LEMMA ConfirmSteps ==
  ASSUME IInv, NEW q \in Confirm, BeginConfirm(q) \/ ConfirmStep(q) \/ ConfirmFails(q)
  PROVE  IInv'
<1> DEFINE x == Target[q]
<1>1. /\ TableSide /\ ConfirmInv(q) /\ confirm[q] \in ConfirmState
      /\ x \in Row /\ Body[q] \in Device \X Device /\ Users(Body[q]) \subseteq User
  BY Sides, SessionsAssumption DEF ConfirmSide, Users
<1>2. UNCHANGED <<create, relay>>
  BY DEF BeginConfirm, ConfirmStep, ConfirmFails, FindPending, FindChat, CreateChat,
         UpsertSession, DeletePending, ConfirmTimesOut
<1>3. ASSUME NEW pc \in {"find", "findchat", "chat", "session", "delete"},
             StepConfirm(q, pc), Grows, TableSide',
             pc \in {"findchat", "chat", "session", "delete"} => Owns(q),
             pc = "session" => Users(Body[q]) \in chats',
             pc = "delete" => Body[q] \in sessions'
      PROVE  IInv'
  <2> DEFINE h == [confirm[q] EXCEPT !.pc = pc]
  <2>1. h \in ConfirmState /\ h.pc = pc
    BY <1>1 DEF ConfirmState
  <2>2. confirm' = [confirm EXCEPT ![q] = h]
    BY <1>3 DEF StepConfirm
  <2> HIDE DEF h
  <2> QED
    BY <1>2, <1>3, <2>1, <2>2, ConfirmMoves
<1>4. ASSUME NEW r \in Reply, FinishConfirm(q, r), Grows, TableSide'
      PROVE  IInv'
  <2>1. [pc |-> "done", reply |-> r] \in ConfirmState
    BY DEF ConfirmState
  <2> QED
    BY <1>2, <1>4, <2>1, ConfirmMoves DEF FinishConfirm
<1>5. "ok" \in Reply /\ "error" \in Reply
  BY DEF Reply
<1>6. ASSUME UNCHANGED <<pending, sessions, chats>> PROVE Grows /\ TableSide'
  BY <1>1, <1>6 DEF Grows, TableSide, NoHandshakeLost, SessionHasItsChat
<1>7. CASE BeginConfirm(q)
  BY <1>3, <1>6, <1>7 DEF BeginConfirm
<1>8. CASE FindPending(q)
  BY <1>3, <1>4, <1>5, <1>6, <1>8 DEF FindPending
<1>9. CASE FindChat(q)
  <2>1. UNCHANGED <<pending, sessions, chats>> /\ Owns(q)
    BY <1>1, <1>9 DEF FindChat, ConfirmInv
  <2>2. CASE Known(q) /\ Users(Body[q]) \in chats
    BY <1>3, <1>6, <1>9, <2>1, <2>2 DEF FindChat
  <2>3. CASE ~(Known(q) /\ Users(Body[q]) \in chats)
    BY <1>3, <1>6, <1>9, <2>1, <2>3 DEF FindChat
  <2> QED
    BY <2>2, <2>3
<1>10. CASE CreateChat(q)
  <2>1. CASE FinishConfirm(q, "error") /\ UNCHANGED chats
    BY <1>4, <1>5, <1>6, <1>10, <2>1 DEF CreateChat
  <2>2. CASE chats' = chats \cup {Users(Body[q])} /\ StepConfirm(q, "session")
    <3>1. UNCHANGED <<pending, sessions>> /\ Owns(q)
      BY <1>1, <1>10 DEF CreateChat, ConfirmInv
    <3>2. SessionHasItsChat'
      BY <1>1, <2>2, <3>1 DEF TableSide, SessionHasItsChat
    <3>3. NoHandshakeLost'
      BY <1>1, <3>1 DEF TableSide, NoHandshakeLost
    <3>4. Grows /\ TableSide'
      BY <1>1, <2>2, <3>1, <3>2, <3>3 DEF Grows, TableSide
    <3> QED
      BY <1>3, <2>2, <3>1, <3>4
  <2> QED
    BY <1>10, <2>1, <2>2 DEF CreateChat
<1>11. CASE UpsertSession(q)
  <2>1. /\ sessions' = sessions \cup {Body[q]} /\ StepConfirm(q, "delete")
        /\ UNCHANGED <<pending, chats>> /\ Users(Body[q]) \in chats /\ Owns(q)
    BY <1>1, <1>11 DEF UpsertSession, ConfirmInv
  <2>2. SessionHasItsChat'
    BY <1>1, <2>1 DEF TableSide, SessionHasItsChat
  <2>3. Grows /\ TableSide'
    BY <1>1, <2>1, <2>2 DEF Grows, TableSide, NoHandshakeLost
  <2> QED
    BY <1>3, <2>1, <2>3
<1>12. CASE DeletePending(q)
  <2>1. /\ pending' = [pending EXCEPT ![x] = "deleted"] /\ FinishConfirm(q, "ok")
        /\ UNCHANGED <<sessions, chats>> /\ Body[q] \in sessions /\ Owns(q)
    BY <1>1, <1>12 DEF DeletePending, ConfirmInv
  <2>2. pending'[x] = "deleted" /\ \A y \in Row \ {x} : pending'[y] = pending[y]
    BY <1>1, <2>1 DEF TableSide
  <2>3. Grows /\ TableSide'
    BY <1>1, <2>1, <2>2 DEF Grows, TableSide, NoHandshakeLost, SessionHasItsChat
  <2> QED
    BY <1>4, <1>5, <2>1, <2>3
<1>13. CASE ConfirmTimesOut(q) \/ ConfirmFails(q)
  BY <1>4, <1>5, <1>6, <1>13 DEF ConfirmTimesOut, ConfirmFails
<1> QED
  BY <1>7, <1>8, <1>9, <1>10, <1>11, <1>12, <1>13 DEF ConfirmStep

(* A chat made by a forwarded message.                                     *)
LEMMA InboxStep ==
  ASSUME IInv, NEW u \in User, NEW v \in User, ChatByInbox(u, v)
  PROVE  IInv'
<1>1. /\ UNCHANGED <<pending, sessions, create, relay, confirm>>
      /\ chats' = chats \cup {{u, v}}
  BY DEF ChatByInbox
<1>2. Grows /\ TableSide'
  BY <1>1, Sides DEF Grows, TableSide, NoHandshakeLost, SessionHasItsChat
<1> QED
  BY <1>1, <1>2, Sides, Together, SessionsAssumption, CreateSideStays,
     RelaySideStays, ConfirmSideStays

(* IInv is inductive.                                                      *)
LEMMA NextIInv == IInv /\ [Next]_vars => IInv'
<1> SUFFICES ASSUME IInv, [Next]_vars PROVE IInv'
  OBVIOUS
<1>1. CASE Next
  BY <1>1, CreateSteps, RelaySteps, ConfirmSteps, InboxStep DEF Next
<1>2. CASE UNCHANGED vars
  <2>1. Grows /\ TableSide'
    BY <1>2, Sides DEF vars, Grows, TableSide, NoHandshakeLost, SessionHasItsChat
  <2> QED
    BY <1>2, <2>1, Sides, Together, SessionsAssumption, CreateSideStays,
       RelaySideStays, ConfirmSideStays DEF vars
<1> QED
  BY <1>1, <1>2

(* The inductive invariant of the handshakes: what each handler has done   *)
(* before its next statement is still in the tables.                       *)
THEOREM SpecIInv == Spec => []IInv
BY InitIInv, NextIInv, PTL DEF Spec

(* Type correctness of the handshakes.                                     *)
THEOREM TypeCorrect == Spec => []TypeOK
<1>1. IInv => TypeOK
  BY DEF IInv
<1> QED
  BY SpecIInv, <1>1, PTL

(* A 201, and a 202 across two nodes, mean that every device was offered   *)
(* the handshake.                                                          *)
THEOREM AcceptedIsOffered == Spec => []AcceptedMeansOffered
<1>1. IInv => AcceptedMeansOffered
  BY DEF IInv
<1> QED
  BY SpecIInv, <1>1, PTL

(* A pending session is deleted only by a confirmation of its own device   *)
(* that established the session its body names.                            *)
THEOREM HandshakesSurvive == Spec => []NoHandshakeLost
<1>1. IInv => NoHandshakeLost
  BY DEF IInv
<1> QED
  BY SpecIInv, <1>1, PTL

(* Where a device names the row's two devices in every confirmation, as    *)
(* the code takes for granted, a pending session goes only when its own    *)
(* session is established.                                                 *)
THEOREM OwnSessionIsEstablished ==
  ASSUME \A q \in Confirm : Owns(q) => Body[q] = Pair(Target[q])
  PROVE  Spec => [](\A x \in Row : pending[x] = "deleted" => Pair(x) \in sessions)
<1>1. NoHandshakeLost => \A x \in Row : pending[x] = "deleted" => Pair(x) \in sessions
  BY DEF NoHandshakeLost
<1> QED
  BY HandshakesSurvive, <1>1, PTL

(* The two users of a session have their chat.                             *)
THEOREM SessionsHaveChats == Spec => []SessionHasItsChat
<1>1. IInv => SessionHasItsChat
  BY DEF IInv
<1> QED
  BY SpecIInv, <1>1, PTL
=============================================================================
