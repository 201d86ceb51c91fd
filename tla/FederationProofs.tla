--------------------------- MODULE FederationProofs ---------------------------
(***************************************************************************)
(* What the two nodes guarantee together, for any number of messages,      *)
(* tasks, faults and tries: each node does what its own module says, a row *)
(* marked delivered is stored at the peer, and both implement              *)
(* DeliveryContract.tla.  The last two need clients that reuse a logical   *)
(* id only to resend a message: the peer skips a device that has a row     *)
(* under the id, whatever that row holds.                                  *)
(***************************************************************************)
EXTENDS Federation, HalvesProofs

(* A step of the two nodes is a step, or none, of each of them.            *)
LEMMA StepsProject ==
  OutboxTypeOK /\ InboxTypeOK /\ [Next]_vars =>
    [OutboxNext]_outboxVars /\ [InboxNext]_inboxVars
<1> DEFINE Both == [OutboxNext]_outboxVars /\ [InboxNext]_inboxVars
<1> SUFFICES ASSUME OutboxTypeOK, InboxTypeOK, [Next]_vars PROVE Both
  OBVIOUS
<1>1. ASSUME NEW e \in Entry, NEW t \in Task, Accept(e, t) PROVE Both
  BY <1>1 DEF Accept, OutboxNext
<1>2. CASE Poll \/ SenderRestarts
  BY <1>2 DEF Poll, SenderRestarts, OutboxNext
<1>3. ASSUME NEW e \in Entry, Elapse(e) PROVE Both
  BY <1>3 DEF Elapse, OutboxNext
<1>4. ASSUME NEW t \in Task, StartTask(t) \/ Settle(t) \/ SenderDbFails(t) \/ CallLost(t)
      PROVE  Both
  BY <1>4 DEF StartTask, Settle, SenderDbFails, CallLost, OutboxNext, TaskStep
<1>5. ASSUME NEW t \in Task, Call(t) \/ CallRejected(t) PROVE Both
  <2>1. task[t].entry \in Entry /\ Send(t)
    BY <1>5 DEF Call, CallRejected, Send, OutboxTypeOK
  <2> QED
    BY <1>5, <2>1 DEF Call, CallRejected, OutboxNext, TaskStep, InboxNext
<1>6. ASSUME NEW t \in Task, Answered(t) PROVE Both
  <2>1. serve[t].reply \in Answers
    BY DEF InboxTypeOK, HandlerState
  <2> QED
    BY <1>6, <2>1 DEF Answered, OutboxNext, TaskStep, InboxNext
<1>7. ASSUME NEW t \in Task, HungUp(t) \/ TimesOut(t) PROVE Both
  BY <1>7 DEF HungUp, TimesOut, Answers, OutboxNext, TaskStep
<1>8. ASSUME NEW t \in Task, Serve(t) \/ PeerDbFails(t) \/ CutOff(t) \/ DropOrphan(t)
      PROVE  Both
  BY <1>8 DEF Serve, PeerDbFails, CutOff, DropOrphan, InboxNext
<1>9. ASSUME NEW n \in Name, SignUp(n) PROVE Both
  BY <1>9 DEF SignUp, InboxNext
<1>10. ASSUME NEW l \in LogicalId, AckArrives(l) PROVE Both
  BY <1>10 DEF AckArrives, OutboxNext
<1>11. CASE UNCHANGED vars
  BY <1>11 DEF vars, outboxVars, inboxVars
<1> QED
  BY <1>1, <1>2, <1>3, <1>4, <1>5, <1>6, <1>7, <1>8, <1>9, <1>10, <1>11
     DEF Next, Progress

(* Both inductive invariants hold of the two nodes together.               *)
LEMMA PartsInv == Spec => [](OutboxIInv /\ InboxIInv)
<1>1. Init => OutboxIInv /\ InboxIInv
  BY OutboxInitIInv, InboxInitIInv DEF Init
<1>2. OutboxIInv /\ [OutboxNext]_outboxVars => OutboxIInv'
  BY OutboxTypeStep, CountsStep, TriesStep DEF OutboxIInv
<1>3. InboxIInv /\ [InboxNext]_inboxVars => InboxIInv'
  BY InboxTypeStep, HandlerInvStep, RowsStep DEF InboxIInv
<1>4. OutboxIInv /\ InboxIInv /\ [Next]_vars => OutboxIInv' /\ InboxIInv'
  BY <1>2, <1>3, StepsProject DEF OutboxIInv, InboxIInv
<1> QED
  BY <1>1, <1>4, PTL DEF Spec

(* The sender behaves as Outbox.tla says and the peer as Inbox.tla says:   *)
(* what is proved of each holds of the two together.                       *)
THEOREM NodesKeepTheirSpecs == Spec => OutboxSpec /\ InboxSpec
<1>1. Init => OutboxInit /\ InboxInit
  BY DEF Init
<1>2. OutboxIInv /\ InboxIInv /\ [Next]_vars
        => [OutboxNext]_outboxVars /\ [InboxNext]_inboxVars
  BY StepsProject DEF OutboxIInv, InboxIInv
<1> QED
  BY <1>1, <1>2, PartsInv, PTL DEF Spec, OutboxSpec, InboxSpec

-----------------------------------------------------------------------------
(* An accepted message stays accepted: no row goes back to none.           *)
LEMMA AcceptedStays ==
  OutboxTypeOK /\ [OutboxNext]_outboxVars =>
    \A e \in Entry : row[e].status # "none" => row'[e].status # "none"
<1> DEFINE Goal == \A e \in Entry : row[e].status # "none" => row'[e].status # "none"
<1> SUFFICES ASSUME OutboxTypeOK, [OutboxNext]_outboxVars PROVE Goal
  OBVIOUS
<1> USE DEF OutboxTypeOK, RowState
<1>1. ASSUME NEW e \in Entry, NEW t \in Task, Enqueue(e, t) PROVE Goal
  BY <1>1 DEF Enqueue
<1>2. ASSUME NEW e \in Entry, BackoffElapses(e) PROVE Goal
  BY <1>2 DEF BackoffElapses
<1>3. ASSUME NEW l \in LogicalId, ReceiveAck(l) PROVE Goal
  BY <1>3 DEF ReceiveAck
<1>4. ASSUME NEW t \in Task, MarkDelivered(t) PROVE Goal
  BY <1>4 DEF MarkDelivered
<1>5. ASSUME NEW t \in Task, RecordFailure(t) PROVE Goal
  BY <1>5 DEF RecordFailure
<1>6. CASE row' = row
  BY <1>6
<1> QED
  BY <1>1, <1>2, <1>3, <1>4, <1>5, <1>6
     DEF OutboxNext, TaskStep, Fetch, Restart, Spawn, Lookup, LookupMisses, Send,
         Answer, LoseWrite, outboxVars

(* A message the peer has in full it keeps.                                *)
LEMMA StoredStays ==
  ASSUME InboxIInv, [InboxNext]_inboxVars, NEW e \in Entry, Stored(e)
  PROVE  Stored(e)'
BY TablesGrow DEF Stored, Grows

(* If a logical id stands for one message, the rows a 200 vouches for are  *)
(* this message's own.                                                     *)
LEMMA OkIsStored ==
  ASSUME OneMessagePerLogicalId, InboxIInv, NEW t \in Task,
         serve[t].pc = "done", serve[t].reply = "ok"
  PROVE  Stored(serve[t].entry)
<1> DEFINE e == serve[t].entry
<1>1. e \in Entry /\ HandlerInv(t)
  BY DEF InboxIInv, InboxTypeOK
<1>2. ASSUME NEW i \in DOMAIN Devices[e]
      PROVE  [lid |-> Lid[e], device |-> Devices[e][i], from |-> From[e], to |-> To[e]]
               \in stored
  <2>1. PICK m \in stored : m.lid = Lid[e] /\ m.device = Devices[e][i]
    BY <1>2 DEF HandlerInv, HasRow, InboxIInv
  <2>2. PICK f \in Entry : m.lid = Lid[f] /\ m.from = From[f] /\ m.to = To[f]
    BY DEF InboxIInv, Provenance
  <2>3. From[f] = From[e] /\ To[f] = To[e]
    <3>1. Lid[f] = Lid[e] /\ e \in Entry /\ f \in Entry
      BY <1>1, <2>1, <2>2
    <3> QED
      BY <3>1 DEF OneMessagePerLogicalId
  <2>4. m = [lid |-> m.lid, device |-> m.device, from |-> m.from, to |-> m.to]
    BY DEF InboxIInv, InboxTypeOK, Message
  <2> QED
    BY <2>1, <2>2, <2>3, <2>4
<1> QED
  BY <1>2 DEF Stored

(* What every step leaves as it was or only extends.                       *)
LEMMA Background ==
  ASSUME OutboxIInv, InboxIInv, [Next]_vars
  PROVE  /\ \A e \in Entry : row[e].status # "none" => row'[e].status # "none"
         /\ \A e \in Entry : Stored(e) => Stored(e)'
         /\ Grows
<1>1. [OutboxNext]_outboxVars /\ [InboxNext]_inboxVars
  BY StepsProject DEF OutboxIInv, InboxIInv
<1> QED
  BY <1>1, AcceptedStays, StoredStays, TablesGrow DEF OutboxIInv

-----------------------------------------------------------------------------
(* What the steps of a slot do to its task and its handler.                *)
LEMMA StartMoves ==
  ASSUME OutboxIInv, NEW t \in Task, StartTask(t)
  PROVE  /\ \E b \in batch : task'[t] = [pc |-> "lookup", entry |-> b.entry,
                                         count |-> b.attempts + 1, worker |-> TRUE]
         /\ serve[t].pc = "idle" /\ UNCHANGED <<row, serve, chats, faults>>
         /\ batch' \subseteq batch
BY DEF StartTask, Spawn, Free, OutboxIInv, OutboxTypeOK, inboxVars

LEMMA SettleMoves ==
  ASSUME OutboxIInv, NEW t \in Task, Settle(t) \/ SenderDbFails(t)
  PROVE  /\ UNCHANGED <<serve, chats, batch>>
         /\ \/ task'[t] = IdleTask
            \/ /\ task[t].pc = "lookup" /\ task'[t].pc \in {"send", "fail"}
               /\ task'[t].entry = task[t].entry
<1> USE DEF OutboxIInv, OutboxTypeOK, TaskState
<1>1. UNCHANGED <<serve, chats>>
  BY DEF Settle, SenderDbFails, inboxVars
<1>2. CASE Lookup(t)
  BY <1>1, <1>2 DEF Lookup
<1>3. CASE LookupMisses(t)
  BY <1>1, <1>3 DEF LookupMisses, Goto, Exit
<1>4. CASE MarkDelivered(t) \/ RecordFailure(t) \/ LoseWrite(t)
  BY <1>1, <1>4 DEF MarkDelivered, RecordFailure, LoseWrite, Exit
<1> QED
  BY <1>2, <1>3, <1>4 DEF Settle, SenderDbFails

LEMMA CallMoves ==
  ASSUME OutboxIInv, InboxIInv, NEW t \in Task, Call(t) \/ CallRejected(t) \/ CallLost(t)
  PROVE  /\ UNCHANGED <<row, batch, chats>>
         /\ task[t].pc = "send" /\ task[t].entry \in Entry
         /\ task'[t].pc = "wait" /\ task'[t].entry = task[t].entry
         /\ task'[t].count = task[t].count
         /\ \/ serve'[t] = serve[t]
            \/ serve'[t].pc \in {"resolve", "done"} /\ serve'[t].entry = task[t].entry
         /\ Call(t) => serve'[t].pc = "resolve"
<1>1. Send(t) /\ OutboxTypeOK /\ InboxTypeOK
  BY DEF Call, CallRejected, CallLost, OutboxIInv, InboxIInv
<1>2. /\ task'[t].pc = "wait" /\ task'[t].entry = task[t].entry
      /\ task'[t].count = task[t].count
  BY <1>1 DEF Send, Goto, OutboxTypeOK, TaskState
<1>3. task[t].pc = "send" /\ task[t].entry \in Entry /\ UNCHANGED <<row, batch>>
  BY <1>1 DEF Send, OutboxTypeOK
<1>4. UNCHANGED chats
  BY DEF Call, CallRejected, CallLost, Arrive, Reject, inboxVars
<1>5. CASE Call(t)
  BY <1>1, <1>2, <1>3, <1>4, <1>5 DEF Call, Arrive, InboxTypeOK
<1>6. CASE CallRejected(t)
  <2>1. serve'[t].pc = "done" /\ serve'[t].entry = task[t].entry /\ serve[t].pc = "idle"
    BY <1>1, <1>6 DEF CallRejected, Reject, InboxTypeOK
  <2>2. ~Call(t)
    BY <1>1, <2>1 DEF Call, Arrive, InboxTypeOK
  <2> QED
    BY <1>2, <1>3, <1>4, <2>1, <2>2
<1>7. CASE CallLost(t)
  <2>1. serve' = serve
    BY <1>7 DEF CallLost, inboxVars
  <2>2. ~Call(t)
    BY <1>1, <2>1 DEF Call, Arrive, InboxTypeOK
  <2> QED
    BY <1>2, <1>3, <1>4, <2>1, <2>2
<1> QED
  BY <1>5, <1>6, <1>7

LEMMA EndMoves ==
  ASSUME OutboxIInv, InboxIInv, NEW t \in Task, Answered(t) \/ HungUp(t) \/ TimesOut(t)
  PROVE  /\ UNCHANGED <<row, batch, chats>>
         /\ task[t].pc = "wait" /\ task[t].entry \in Entry
         /\ serve'[t] = IdleHandler \/ serve'[t] = serve[t]
         /\ \/ task'[t] = IdleTask
            \/ /\ task'[t].pc \in {"fail", "mark"} /\ task'[t].entry = task[t].entry
               /\ task'[t].count = task[t].count
         /\ task'[t].pc = "mark" => serve[t].pc = "done" /\ serve[t].reply = "ok"
<1>1. OutboxTypeOK /\ InboxTypeOK
  BY DEF OutboxIInv, InboxIInv
<1>2. PICK a \in Answers : Answer(t, a) /\ (a = "ok" => Answered(t) /\ a = serve[t].reply)
  BY <1>1 DEF Answered, HungUp, TimesOut, Answers, InboxTypeOK, HandlerState
<1>3. /\ UNCHANGED <<row, batch>> /\ task[t].pc = "wait" /\ task[t].entry \in Entry
      /\ \/ task'[t] = IdleTask
         \/ /\ task'[t].pc \in {"fail", "mark"} /\ task'[t].entry = task[t].entry
            /\ task'[t].count = task[t].count
      /\ task'[t].pc = "mark" => a = "ok"
  <2>1. UNCHANGED <<row, batch>> /\ task[t].pc = "wait" /\ task[t].entry \in Entry
    BY <1>1, <1>2 DEF Answer, OutboxTypeOK
  <2>2. CASE Goto(t, "mark") /\ a = "ok"
    BY <1>1, <2>1, <2>2 DEF Goto, OutboxTypeOK, TaskState
  <2>3. CASE Goto(t, "fail")
    BY <1>1, <2>1, <2>3 DEF Goto, OutboxTypeOK, TaskState
  <2>4. CASE Exit(t)
    BY <1>1, <2>1, <2>4 DEF Exit, OutboxTypeOK, IdleTask
  <2> QED
    BY <1>2, <2>2, <2>3, <2>4 DEF Answer
<1>4. UNCHANGED chats /\ (serve'[t] = IdleHandler \/ serve'[t] = serve[t])
  BY <1>1 DEF Answered, HungUp, TimesOut, HandlerEnds, InboxTypeOK, inboxVars
<1> QED
  BY <1>2, <1>3, <1>4 DEF Answered

LEMMA PeerMoves ==
  ASSUME InboxIInv, NEW t \in Task, Serve(t) \/ PeerDbFails(t) \/ CutOff(t) \/ DropOrphan(t)
  PROVE  /\ UNCHANGED <<task, row, batch>> /\ serve[t].pc # "idle"
         /\ serve'[t].pc = "idle" \/ serve'[t].entry = serve[t].entry
<1>1. InboxTypeOK
  BY DEF InboxIInv
<1>2. UNCHANGED <<task, row, batch>>
  BY DEF Serve, PeerDbFails, CutOff, DropOrphan, outboxVars
<1>3. serve[t].pc # "idle"
  BY DEF Serve, PeerDbFails, CutOff, DropOrphan, HandlerEnds, DbError, HandlerStep,
         Resolve, UpsertShadowUser, InsertShadowUser, UpsertShadowDevice,
         InsertShadowDevice, FindChat, CreateChat, StorePayload, Acknowledge
<1>4. CASE HandlerStep(t) \/ DbError(t)
  BY <1>1, <1>2, <1>3, <1>4, HandlerStepMoves DEF Moves
<1>5. CASE HandlerEnds(t)
  BY <1>1, <1>2, <1>3, <1>5 DEF HandlerEnds, IdleHandler, InboxTypeOK
<1> QED
  BY <1>4, <1>5 DEF Serve, PeerDbFails, CutOff, DropOrphan

(* Which steps touch which slot.                                           *)
LEMMA OtherSlots ==
  ASSUME OutboxIInv, InboxIInv, NEW t \in Task,
         \/ Progress(t) \/ SenderDbFails(t) \/ CallRejected(t) \/ CallLost(t)
         \/ TimesOut(t) \/ PeerDbFails(t) \/ CutOff(t)
         \/ \E e \in Entry : Accept(e, t)
  PROVE  \A u \in Task \ {t} : task'[u] = task[u] /\ serve'[u] = serve[u]
<1>0. OutboxTypeOK /\ InboxTypeOK
  BY DEF OutboxIInv, InboxIInv
<1>1. \A u \in Task \ {t} : task'[u] = task[u]
  BY <1>0 DEF Progress, StartTask, Settle, Call, Answered, HungUp, Serve, DropOrphan,
     SenderDbFails, CallRejected, CallLost, TimesOut, PeerDbFails, CutOff, Accept,
     Enqueue, Spawn, Lookup, LookupMisses, MarkDelivered, RecordFailure, LoseWrite,
     Send, Answer, Goto, Exit, OutboxTypeOK, outboxVars
<1>2. ASSUME HandlerStep(t) \/ DbError(t) PROVE \A u \in Task \ {t} : serve'[u] = serve[u]
  BY <1>0, <1>2, HandlerStepMoves DEF Moves
<1>3. ASSUME serve' = serve PROVE \A u \in Task \ {t} : serve'[u] = serve[u]
  BY <1>3
<1>4. ASSUME NEW e, Arrive(t, e) \/ Reject(t, e) \/ HandlerEnds(t)
      PROVE  \A u \in Task \ {t} : serve'[u] = serve[u]
  BY <1>0, <1>4 DEF Arrive, Reject, HandlerEnds, InboxTypeOK
<1> QED
  BY <1>1, <1>2, <1>3, <1>4
     DEF Progress, StartTask, Settle, Call, Answered, HungUp, Serve, DropOrphan,
         SenderDbFails, CallRejected, CallLost, TimesOut, PeerDbFails, CutOff, Accept,
         inboxVars

-----------------------------------------------------------------------------
(* A new call finds its slot free, and a handler a task waits for has that *)
(* task's message, whoever may use the logical id.                         *)
LEMMA CallStep ==
  ASSUME OutboxIInv, InboxIInv, CallInv, [Next]_vars PROVE CallInv'
<1> DEFINE InStep(u) == /\ task[u].pc \in {"lookup", "send"} => serve[u].pc = "idle"
                        /\ task[u].pc = "wait" /\ serve[u].pc # "idle"
                             => serve[u].entry = task[u].entry
<1>1. \A u \in Task : InStep(u)
  BY DEF CallInv
<1>2. SUFFICES \A u \in Task : InStep(u)'
  BY DEF CallInv
<1> HIDE DEF InStep
<1>3. ASSUME NEW u \in Task, task'[u] = task[u], serve'[u] = serve[u] PROVE InStep(u)'
  BY <1>1, <1>3 DEF InStep
<1>4. ASSUME NEW t \in Task, InStep(t)',
             \A u \in Task \ {t} : task'[u] = task[u] /\ serve'[u] = serve[u]
      PROVE  \A u \in Task : InStep(u)'
  BY <1>3, <1>4
<1>5. ASSUME NEW t \in Task, NEW e \in Entry, Accept(e, t) PROVE \A u \in Task : InStep(u)'
  <2>1. serve'[t].pc = "idle"
    BY <1>5 DEF Accept, Free, inboxVars
  <2>2. InStep(t)'
    BY <2>1 DEF InStep
  <2> QED
    BY <1>4, <1>5, <2>2, OtherSlots
<1>6. ASSUME NEW t \in Task,
             \/ Progress(t) \/ SenderDbFails(t) \/ CallRejected(t) \/ CallLost(t)
             \/ TimesOut(t) \/ PeerDbFails(t) \/ CutOff(t)
      PROVE  \A u \in Task : InStep(u)'
  <2> SUFFICES InStep(t)'
    BY <1>4, <1>6, OtherSlots
  <2>1. CASE StartTask(t)
    BY <2>1, StartMoves DEF InStep
  <2>2. CASE Settle(t) \/ SenderDbFails(t)
    BY <1>1, <2>2, SettleMoves DEF InStep, IdleTask
  <2>3. CASE Call(t) \/ CallRejected(t) \/ CallLost(t)
    <3>1. task'[t].pc = "wait" /\ task'[t].entry = task[t].entry
      BY <2>3, CallMoves
    <3>2. serve'[t].pc = "idle" \/ serve'[t].entry = task[t].entry
      BY <1>1, <2>3, CallMoves DEF InStep
    <3> QED
      BY <3>1, <3>2 DEF InStep
  <2>4. CASE Answered(t) \/ HungUp(t) \/ TimesOut(t)
    <3>1. task'[t].pc \in {"idle", "fail", "mark"}
      BY <2>4, EndMoves DEF IdleTask
    <3> QED
      BY <3>1 DEF InStep
  <2>5. CASE Serve(t) \/ PeerDbFails(t) \/ CutOff(t) \/ DropOrphan(t)
    BY <1>1, <2>5, PeerMoves DEF InStep
  <2> QED
    BY <1>6, <2>1, <2>2, <2>3, <2>4, <2>5 DEF Progress
<1>7. CASE SenderRestarts
  <2>1. \A u \in Task : task'[u] = IdleTask
    BY <1>7 DEF SenderRestarts, Restart
  <2> QED
    BY <2>1 DEF InStep, IdleTask
<1>8. ASSUME UNCHANGED <<task, serve>> PROVE \A u \in Task : InStep(u)'
  BY <1>3, <1>8
<1> QED
  BY <1>5, <1>6, <1>7, <1>8
     DEF Next, Poll, Fetch, Elapse, BackoffElapses, SignUp, CreateUser, AckArrives,
         ReceiveAck, vars, outboxVars, inboxVars

LEMMA CallInductive == Spec => []CallInv
<1>1. Init => CallInv
  BY DEF Init, OutboxInit, InboxInit, IdleTask, IdleHandler, CallInv
<1>2. OutboxIInv /\ InboxIInv /\ CallInv /\ [Next]_vars => CallInv'
  BY CallStep
<1> QED
  BY <1>1, <1>2, PartsInv, PTL DEF Spec

-----------------------------------------------------------------------------
(* A slot whose task and handler stay keeps its invariant.                 *)
LEMMA SlotKeeps ==
  ASSUME OutboxIInv, InboxIInv, [Next]_vars, NEW u \in Task, SlotInv(u),
         task'[u] = task[u], serve'[u] = serve[u]
  PROVE  SlotInv(u)'
<1>1. /\ task[u].pc # "idle" => task[u].entry \in Entry
      /\ serve[u].pc # "idle" => serve[u].entry \in Entry
  BY DEF OutboxIInv, OutboxTypeOK, InboxIInv, InboxTypeOK
<1>2. task[u].pc = "mark" => Stored(task[u].entry)'
  <2> SUFFICES ASSUME task[u].pc = "mark" PROVE Stored(task[u].entry)'
    OBVIOUS
  <2>1. PICK e \in Entry : e = task[u].entry
    BY <1>1
  <2>2. Stored(e)'
    BY <2>1, Background DEF SlotInv
  <2>3. task'[u].entry = e
    BY <2>1
  <2> QED
    BY <2>2, <2>3
<1> QED
  BY <1>1, <1>2, Background DEF SlotInv

(* The steps of a task that lead to no call and to no mark.                *)
LEMMA SlotStepSender ==
  ASSUME OutboxIInv, InboxIInv, LinkInv, [Next]_vars, NEW t \in Task,
         StartTask(t) \/ Settle(t) \/ SenderDbFails(t)
  PROVE  SlotInv(t)'
<1>0. SlotInv(t) /\ OutboxTypeOK /\ InboxTypeOK
  BY DEF LinkInv, OutboxIInv, InboxIInv
<1>1. CASE StartTask(t)
  <2>1. PICK b \in batch : task'[t] = [pc |-> "lookup", entry |-> b.entry,
                                       count |-> b.attempts + 1, worker |-> TRUE]
    BY <1>1, StartMoves
  <2>2. serve'[t].pc = "idle" /\ row'[b.entry].status # "none"
    BY <1>1, StartMoves DEF LinkInv
  <2> QED
    BY <2>1, <2>2 DEF SlotInv
<1>2. CASE Settle(t) \/ SenderDbFails(t)
  <2>1. /\ task[t].pc # "idle" => task[t].entry \in Entry
        /\ serve[t].pc # "idle" => serve[t].entry \in Entry
    BY <1>0 DEF OutboxTypeOK, InboxTypeOK
  <2> QED
    BY <1>0, <1>2, <2>1, SettleMoves, Background DEF SlotInv, IdleTask
<1> QED
  BY <1>1, <1>2

(* The beginning and the end of a call: a handler starts with the task's   *)
(* message, and a task marks it only on that handler's 200.                *)
LEMMA SlotStepCall ==
  ASSUME OneMessagePerLogicalId, OutboxIInv, InboxIInv, CallInv, LinkInv, [Next]_vars,
         NEW t \in Task,
         \/ Call(t) \/ CallRejected(t) \/ CallLost(t)
         \/ Answered(t) \/ HungUp(t) \/ TimesOut(t)
  PROVE  SlotInv(t)'
<1>0. SlotInv(t) /\ OutboxTypeOK /\ InboxTypeOK
  BY DEF LinkInv, OutboxIInv, InboxIInv
<1>e. PICK e \in Entry : e = task[t].entry /\ row[e].status # "none"
  BY <1>0, CallMoves, EndMoves DEF SlotInv
<1>r. row'[e].status # "none" /\ (Stored(e) => Stored(e)')
  BY <1>e, Background
<1>1. CASE Call(t) \/ CallRejected(t) \/ CallLost(t)
  <2>1. task'[t].pc = "wait" /\ task'[t].entry = e
    BY <1>1, <1>e, CallMoves
  <2>2. serve'[t].pc = "idle" \/ serve'[t].entry = e
    BY <1>1, <1>e, CallMoves DEF CallInv
  <2> QED
    BY <1>r, <2>1, <2>2 DEF SlotInv
<1>2. CASE Answered(t) \/ HungUp(t) \/ TimesOut(t)
  <2>1. task[t].pc = "wait" /\ (serve[t].pc # "idle" => serve[t].entry = e)
    BY <1>2, <1>e, EndMoves DEF CallInv
  <2>2. task'[t].pc = "mark" => Stored(e)'
    <3>1. task'[t].pc = "mark" => serve[t].pc = "done" /\ serve[t].reply = "ok"
      BY <1>2, EndMoves
    <3> QED
      BY <1>r, <2>1, <3>1, OkIsStored
  <2>3. task'[t].pc # "idle" => task'[t].entry = e
    BY <1>2, <1>e, EndMoves DEF IdleTask
  <2>4. serve'[t].pc # "idle" => serve'[t].entry = e
    BY <1>2, <2>1, EndMoves DEF IdleHandler
  <2> QED
    BY <1>r, <2>2, <2>3, <2>4 DEF SlotInv
<1> QED
  BY <1>1, <1>2

(* Steps of the peer: its handler keeps its message, or ends.              *)
LEMMA SlotStepPeer ==
  ASSUME OutboxIInv, InboxIInv, LinkInv, [Next]_vars, NEW t \in Task,
         Serve(t) \/ PeerDbFails(t) \/ CutOff(t) \/ DropOrphan(t)
  PROVE  SlotInv(t)'
<1>0. SlotInv(t) /\ OutboxTypeOK /\ InboxTypeOK
  BY DEF LinkInv, OutboxIInv, InboxIInv
<1>1. task[t].pc = "mark" => Stored(task[t].entry)'
  <2> SUFFICES ASSUME task[t].pc = "mark" PROVE Stored(task[t].entry)'
    OBVIOUS
  <2>1. PICK e \in Entry : e = task[t].entry
    BY <1>0 DEF OutboxTypeOK
  <2>2. Stored(e)' /\ task'[t].entry = e
    BY <1>0, <2>1, PeerMoves, Background DEF SlotInv
  <2> QED
    BY <2>2
<1> QED
  BY <1>0, <1>1, PeerMoves DEF SlotInv

(* Every slot keeps its invariant in every step.                           *)
LEMMA SlotStep ==
  ASSUME OneMessagePerLogicalId, OutboxIInv, InboxIInv, CallInv, LinkInv, [Next]_vars
  PROVE  \A u \in Task : SlotInv(u)'
<1> DEFINE Goal == \A u \in Task : SlotInv(u)'
<1>1. ASSUME NEW t \in Task, SlotInv(t)',
             \A u \in Task \ {t} : task'[u] = task[u] /\ serve'[u] = serve[u]
      PROVE  Goal
  BY <1>1, SlotKeeps DEF LinkInv
<1>2. ASSUME NEW t \in Task, NEW e \in Entry, Accept(e, t) PROVE Goal
  <2>1. /\ task' # task => task'[t].pc = "send" /\ task'[t].entry = e
        /\ task[t].pc = "idle" /\ serve'[t].pc = "idle"
        /\ row'[e].status # "none"
    BY <1>2 DEF Accept, Enqueue, Free, inboxVars, OutboxIInv, OutboxTypeOK, RowState
  <2>2. SlotInv(t)'
    BY <2>1 DEF SlotInv
  <2> QED
    BY <1>1, <1>2, <2>2, OtherSlots
<1>3. ASSUME NEW t \in Task,
             \/ Progress(t) \/ SenderDbFails(t) \/ CallRejected(t) \/ CallLost(t)
             \/ TimesOut(t) \/ PeerDbFails(t) \/ CutOff(t)
      PROVE  Goal
  <2>1. SlotInv(t)'
    BY <1>3, SlotStepSender, SlotStepCall, SlotStepPeer DEF Progress
  <2> QED
    BY <1>1, <1>3, <2>1, OtherSlots
<1>4. CASE SenderRestarts
  <2> SUFFICES ASSUME NEW u \in Task PROVE SlotInv(u)'
    OBVIOUS
  <2>1. task'[u] = IdleTask /\ serve'[u] = serve[u] /\ row' = row
    BY <1>4 DEF SenderRestarts, Restart, inboxVars
  <2> QED
    BY <2>1 DEF SlotInv, IdleTask, LinkInv
<1>5. ASSUME UNCHANGED <<task, serve>> PROVE Goal
  BY <1>5, SlotKeeps DEF LinkInv
<1> QED
  BY <1>2, <1>3, <1>4, <1>5
     DEF Next, Poll, Fetch, Elapse, BackoffElapses, SignUp, CreateUser, AckArrives,
         ReceiveAck, vars, outboxVars, inboxVars

(* What the worker has fetched is accepted.                                *)
LEMMA BatchStep ==
  ASSUME OutboxIInv, InboxIInv, LinkInv, [Next]_vars
  PROVE  \A b \in batch' : row'[b.entry].status # "none"
<1>1. [OutboxNext]_outboxVars /\ OutboxTypeOK
  BY StepsProject DEF OutboxIInv, InboxIInv
<1>2. \A b \in batch : row'[b.entry].status # "none"
  BY <1>1, Background DEF LinkInv, OutboxTypeOK
<1>3. CASE Fetch
  BY <1>1, <1>3 DEF Fetch, Due, OutboxTypeOK
<1>4. CASE batch' \subseteq batch
  BY <1>2, <1>4
<1> QED
  BY <1>1, <1>3, <1>4
     DEF OutboxNext, TaskStep, Enqueue, BackoffElapses, ReceiveAck, Spawn, Lookup,
         LookupMisses, Send, Answer, MarkDelivered, RecordFailure, LoseWrite, Restart,
         outboxVars

(* A row becomes delivered by a task that saw a 200, or by an              *)
(* acknowledgement of its logical id.                                      *)
LEMMA DeliveredStep ==
  ASSUME OneMessagePerLogicalId, OutboxIInv, InboxIInv, LinkInv, [Next]_vars
  PROVE  DeliveredImpliesStored'
<1> SUFFICES ASSUME NEW e \in Entry, row'[e].status = "delivered" PROVE Stored(e)'
  BY DEF DeliveredImpliesStored
<1>1. SUFFICES Stored(e)
  BY Background
<1>2. CASE row[e].status = "delivered"
  BY <1>2 DEF LinkInv, DeliveredImpliesStored
<1>3. ASSUME NEW l \in LogicalId, AckArrives(l), row[e].status # "delivered"
      PROVE  Stored(e)
  <2>1. Lid[e] = l
    BY <1>3 DEF AckArrives, ReceiveAck
  <2>2. PICK f \in Entry : Lid[f] = l /\ Stored(f)
    BY <1>3 DEF AckArrives
  <2> QED
    BY <2>1, <2>2 DEF OneMessagePerLogicalId, Stored
<1>4. ASSUME NEW t \in Task, MarkDelivered(t), row[e].status # "delivered"
      PROVE  Stored(e)
  <2>1. task[t].entry = e
    BY <1>4 DEF MarkDelivered, OutboxIInv, OutboxTypeOK
  <2> QED
    BY <1>4, <2>1 DEF MarkDelivered, LinkInv, SlotInv
<1>5. ASSUME \/ row' = row
             \/ \E f \in Entry : BackoffElapses(f) \/ \E t \in Task : Enqueue(f, t)
             \/ \E t \in Task : RecordFailure(t)
      PROVE  row[e].status = "delivered"
  <2> USE DEF OutboxIInv, OutboxTypeOK, RowState
  <2>1. ASSUME NEW f \in Entry, NEW t \in Task, Enqueue(f, t)
        PROVE row[e].status = "delivered"
    BY <2>1 DEF Enqueue
  <2>2. ASSUME NEW f \in Entry, BackoffElapses(f) PROVE row[e].status = "delivered"
    BY <2>2 DEF BackoffElapses
  <2>3. ASSUME NEW t \in Task, RecordFailure(t) PROVE row[e].status = "delivered"
    BY <2>3 DEF RecordFailure
  <2> QED
    BY <1>5, <2>1, <2>2, <2>3
<1> QED
  BY <1>2, <1>3, <1>4, <1>5
     DEF Next, Progress, Accept, Poll, Elapse, StartTask, Settle, Call, Answered, HungUp,
         Serve, DropOrphan, SenderDbFails, CallRejected, CallLost, TimesOut, PeerDbFails,
         CutOff, SenderRestarts, SignUp, Fetch, Restart, Spawn, Lookup, LookupMisses, Send,
         Answer, LoseWrite, vars, outboxVars

(* Type correctness of the two nodes and of the budget of faults.          *)
THEOREM TypeCorrect == Spec => []TypeOK
<1>1. Init => faults \in 0..MaxFaults
  BY FaultsAssumption DEF Init
<1>2. faults \in 0..MaxFaults /\ [Next]_vars => (faults \in 0..MaxFaults)'
  BY FaultsAssumption
     DEF Next, Progress, Accept, Poll, Elapse, StartTask, Settle, Call, Answered, HungUp,
         Serve, DropOrphan, SenderDbFails, CallRejected, CallLost, TimesOut, PeerDbFails,
         CutOff, SenderRestarts, SignUp, AckArrives, Fault, vars
<1>3. OutboxIInv /\ InboxIInv /\ faults \in 0..MaxFaults => TypeOK
  BY DEF OutboxIInv, InboxIInv, TypeOK
<1> QED
  BY <1>1, <1>2, <1>3, PartsInv, PTL DEF Spec

(* The slots stay in step, and the messages marked delivered are stored.   *)
THEOREM LinkInductive == ASSUME OneMessagePerLogicalId PROVE Spec => []LinkInv
<1>1. Init => LinkInv
  BY DEF Init, OutboxInit, InboxInit, IdleTask, IdleHandler, LinkInv, SlotInv,
         DeliveredImpliesStored
<1>2. OutboxIInv /\ InboxIInv /\ CallInv /\ LinkInv /\ [Next]_vars => LinkInv'
  BY SlotStep, BatchStep, DeliveredStep DEF LinkInv
<1> QED
  BY <1>1, <1>2, PartsInv, CallInductive, PTL DEF Spec

(* A row marked delivered is stored at the peer for each of its devices,   *)
(* through lost answers, timeouts, overlapping tries, resends, late        *)
(* acknowledgements and restarts of both nodes.                            *)
THEOREM DeliveredIsStored ==
  ASSUME OneMessagePerLogicalId PROVE Spec => []DeliveredImpliesStored
<1>1. LinkInv => DeliveredImpliesStored
  BY DEF LinkInv
<1> QED
  BY LinkInductive, <1>1, PTL

-----------------------------------------------------------------------------
(* A row that handlers of e race for is inserted.                          *)
Lands(e) == \/ From[e] \notin shadow /\ From[e] \in shadow'
            \/ From[e] \notin sender /\ From[e] \in sender'
            \/ Pair(e) \notin chats /\ Pair(e) \in chats'

(* The budget of a message never shrinks; a fault adds to it, and so does  *)
(* each of these rows.                                                     *)
LEMMA BudgetGrows ==
  ASSUME TypeOK, InboxIInv, [Next]_vars, NEW e \in Entry
  PROVE  /\ Budget(e) \in Nat /\ Budget(e)' \in Nat /\ Budget(e) <= Budget(e)'
         /\ faults' = faults + 1 => Budget(e) + 1 <= Budget(e)'
         /\ Lands(e) => Budget(e) + 1 <= Budget(e)'
<1>1. shadow \subseteq shadow' /\ sender \subseteq sender' /\ chats \subseteq chats'
  BY Background, StepsProject, TablesGrow DEF TypeOK, Grows
<1>2. faults \in Nat /\ (faults' = faults \/ faults' = faults + 1)
  BY FaultsAssumption
     DEF TypeOK, Next, Progress, Accept, Poll, Elapse, StartTask, Settle, Call, Answered,
         HungUp, Serve, DropOrphan, SenderDbFails, CallRejected, CallLost, TimesOut,
         PeerDbFails, CutOff, SenderRestarts, SignUp, AckArrives, Fault, vars
<1> DEFINE a == Once(From[e] \in shadow)
           b == Once(From[e] \in sender)
           c == Once(Pair(e) \in chats)
<1>3. Pair(e)' = Pair(e)
  BY DEF Pair
<1>4. /\ a \in {0, 1} /\ a' \in {0, 1} /\ a <= a'
      /\ From[e] \notin shadow /\ From[e] \in shadow' => a = 0 /\ a' = 1
  BY <1>1 DEF Once
<1>5. /\ b \in {0, 1} /\ b' \in {0, 1} /\ b <= b'
      /\ From[e] \notin sender /\ From[e] \in sender' => b = 0 /\ b' = 1
  BY <1>1 DEF Once
<1>6. /\ c \in {0, 1} /\ c' \in {0, 1} /\ c <= c'
      /\ Pair(e) \notin chats /\ Pair(e) \in chats' => c = 0 /\ c' = 1
  BY <1>1, <1>3 DEF Once
<1>7. Budget(e) = faults + a + b + c /\ Budget(e)' = faults' + a' + b' + c'
  BY DEF Budget
<1> HIDE DEF a, b, c
<1> QED
  BY <1>2, <1>4, <1>5, <1>6, <1>7 DEF Lands

(* A try that goes on, in a step that is paid for.                         *)
LEMMA TryKeepsPaid ==
  ASSUME TypeOK, InboxIInv, [Next]_vars, NEW e \in Entry, NEW t \in Task, TryPaid(e, t),
         task'[t].entry = e => task[t].entry = e /\ task'[t].count = task[t].count,
         \/ faults' = faults + 1
         \/ Lands(e)
         \/ t \in Doomed(e)' => t \in Doomed(e)
  PROVE  TryPaid(e, t)'
<1> SUFFICES ASSUME task'[t].entry = e
             PROVE  task'[t].count <= Budget(e)' + (IF t \in Doomed(e)' THEN 0 ELSE 1)
  BY DEF TryPaid
<1>1. /\ task'[t].count = task[t].count /\ task[t].count \in Nat
      /\ task[t].count <= Budget(e) + (IF t \in Doomed(e) THEN 0 ELSE 1)
  BY DEF TryPaid, TypeOK, OutboxTypeOK, TaskState
<1> QED
  BY <1>1, BudgetGrows

(* A slot that a step leaves alone.                                        *)
LEMMA IdleSlotKeepsPaid ==
  ASSUME TypeOK, InboxIInv, [Next]_vars, NEW e \in Entry, NEW u \in Task, TryPaid(e, u),
         task'[u] = task[u], serve'[u] = serve[u]
  PROVE  TryPaid(e, u)'
<1>1. u \in Doomed(e)' => u \in Doomed(e) \/ Lands(e)
  BY DEF Doomed, Late, Lands, Pair
<1> QED
  BY <1>1, TryKeepsPaid

(* A handler of a deliverable message fails only because it is late: its   *)
(* recipient is there, nobody else has the sender's name, and its devices  *)
(* are registered.                                                         *)
LEMMA HandlerSucceeds ==
  ASSUME InboxIInv, BudgetInv, NEW e \in Deliverable, NEW t \in Task, HandlerStep(t),
         serve[t].entry = e
  PROVE  \/ serve'[t].pc = "done" => serve'[t].reply = "ok"
         \/ Late(e, t)
<1> USE DEF InboxIInv, InboxTypeOK, HandlerState
<1>1. CASE Resolve(t)
  BY <1>1 DEF Resolve, Step, BudgetInv, Deliverable
<1>2. CASE InsertShadowUser(t)
  <2>1. UsernameTaken(NameOf[From[e]]) => From[e] \in shadow
    BY DEF UsernameTaken, BudgetInv, Deliverable
  <2> QED
    BY <1>2, <2>1 DEF InsertShadowUser, Step, Late
<1>3. CASE UpsertShadowUser(t) \/ UpsertShadowDevice(t) \/ FindChat(t)
  BY <1>3 DEF UpsertShadowUser, UpsertShadowDevice, FindChat, Step
<1>7. CASE InsertShadowDevice(t)
  BY <1>7 DEF InsertShadowDevice, Step, Late
<1>4. CASE CreateChat(t)
  <2>1. serve[t].pc = "create" /\ (Pair(e) \notin chats => Step(t, "store"))
    BY <1>4 DEF CreateChat
  <2>2. CASE Pair(e) \in chats
    BY <2>1, <2>2 DEF Late
  <2>3. CASE Pair(e) \notin chats
    <3>1. serve'[t].pc = "store"
      BY <2>1, <2>3 DEF Step
    <3> QED
      BY <3>1
  <2> QED
    BY <2>2, <2>3
<1>5. CASE StorePayload(t)
  <2>1. serve[t].next \in DOMAIN Devices[e]
    <3>1. /\ serve[t].next \in 1..(Len(Devices[e]) + 1)
          /\ serve[t].next <= Len(Devices[e])
      BY <1>5 DEF StorePayload
    <3>2. DOMAIN Devices[e] = 1..Len(Devices[e]) /\ Len(Devices[e]) \in Nat
      BY InboxAssumption DEF Deliverable
    <3> QED
      BY <3>1, <3>2
  <2>2. Devices[e][serve[t].next] \in Registered
    BY <2>1 DEF Deliverable
  <2> QED
    BY <1>5, <2>2 DEF StorePayload
<1>6. CASE Acknowledge(t)
  BY <1>6 DEF Acknowledge, Reply
<1> QED
  BY <1>1, <1>2, <1>3, <1>4, <1>5, <1>6, <1>7 DEF HandlerStep

(* A handler that is to insert a row has just not found it.                *)
LEMMA HandlerMissed ==
  ASSUME InboxIInv, NEW t \in Task, HandlerStep(t)
  PROVE  /\ serve[t].pc # "idle" /\ serve'[t].pc # "idle"
         /\ serve'[t].pc = "newuser" => From[serve[t].entry] \notin shadow
         /\ serve'[t].pc = "newdevice" => From[serve[t].entry] \notin sender
         /\ serve'[t].pc = "create" => Pair(serve[t].entry) \notin chats
<1> USE DEF InboxIInv, InboxTypeOK, HandlerState
<1>1. CASE UpsertShadowUser(t)
  BY <1>1 DEF UpsertShadowUser, Step
<1>2. CASE UpsertShadowDevice(t)
  BY <1>2 DEF UpsertShadowDevice, Step
<1>3. CASE FindChat(t)
  BY <1>3 DEF FindChat, Step
<1>4. ASSUME serve[t].pc # "idle", serve'[t].pc \in {"user", "device", "find", "store", "done"}
      PROVE  /\ serve[t].pc # "idle" /\ serve'[t].pc # "idle"
             /\ serve'[t].pc \notin {"newuser", "newdevice", "create"}
  BY <1>4
<1>5. ASSUME NEW pc \in {"user", "device", "find", "store"}, Step(t, pc) \/ Reply(t, "error")
             \/ Reply(t, "notfound") \/ Reply(t, "ok")
      PROVE  serve'[t].pc \in {"user", "device", "find", "store", "done"}
  BY <1>5 DEF Step, Reply
<1>6. CASE Resolve(t)
  BY <1>4, <1>5, <1>6 DEF Resolve
<1>7. CASE InsertShadowUser(t)
  BY <1>4, <1>5, <1>7 DEF InsertShadowUser
<1>8. CASE InsertShadowDevice(t)
  BY <1>4, <1>5, <1>8 DEF InsertShadowDevice
<1>9. CASE CreateChat(t)
  BY <1>4, <1>5, <1>9 DEF CreateChat
<1>10. CASE StorePayload(t)
  <2>1. /\ serve[t].pc = "store"
        /\ serve' = [serve EXCEPT ![t].next = @ + 1] \/ Reply(t, "error")
    BY <1>10 DEF StorePayload
  <2>2. serve'[t].pc \in {"store", "done"}
    BY <2>1 DEF Reply
  <2> QED
    BY <1>4, <2>1, <2>2
<1>11. CASE Acknowledge(t)
  BY <1>4, <1>5, <1>11 DEF Acknowledge
<1> QED
  BY <1>1, <1>2, <1>3, <1>6, <1>7, <1>8, <1>9, <1>10, <1>11 DEF HandlerStep

(* The try of a slot that makes a step is paid for.                        *)
LEMMA TryStep ==
  ASSUME TypeOK, OutboxIInv, InboxIInv, CallInv, BudgetInv, [Next]_vars,
         NEW e \in Deliverable, NEW t \in Task,
         \/ Progress(t) \/ SenderDbFails(t) \/ CallRejected(t) \/ CallLost(t)
         \/ TimesOut(t) \/ PeerDbFails(t) \/ CutOff(t)
         \/ \E f \in Entry : Accept(f, t)
  PROVE  TryPaid(e, t)'
<1>0. /\ e \in Entry /\ e \notin Undecodable /\ e # NoEntry
      /\ TryPaid(e, t) /\ RowPaid(e)
  BY S2SAssumption DEF BudgetInv, Deliverable
<1>1. ASSUME task'[t].entry # e PROVE TryPaid(e, t)'
  BY <1>1 DEF TryPaid
<1>2. ASSUME NEW f \in Entry, Accept(f, t) PROVE TryPaid(e, t)'
  <2>1. CASE task' = task
    <3>1. serve' = serve
      BY <1>2 DEF Accept, inboxVars
    <3> QED
      BY <1>0, <2>1, <3>1, IdleSlotKeepsPaid
  <2>2. CASE task' # task
    <3>1. task'[t].count = 0
      BY <1>2, <2>2 DEF Accept, Enqueue, OutboxIInv, OutboxTypeOK
    <3>2. Budget(e)' \in Nat
      BY <1>0, BudgetGrows
    <3> QED
      BY <3>1, <3>2 DEF TryPaid
  <2> QED
    BY <2>1, <2>2
<1>3. CASE StartTask(t)
  <2>1. PICK b \in batch : task'[t] = [pc |-> "lookup", entry |-> b.entry,
                                       count |-> b.attempts + 1, worker |-> TRUE]
    BY <1>3, StartMoves
  <2>2. SUFFICES ASSUME b.entry = e PROVE TryPaid(e, t)'
    BY <1>1, <2>1
  <2>3. b.attempts <= Budget(e) /\ b.attempts \in Nat
    BY <1>0, <2>2 DEF RowPaid, OutboxIInv, OutboxTypeOK
  <2>4. t \notin Doomed(e)'
    BY <2>1 DEF Doomed
  <2> QED
    BY <1>0, <2>1, <2>3, <2>4, BudgetGrows DEF TryPaid
<1>4. CASE Settle(t)
  <2>1. CASE Lookup(t)
    <3>1. SUFFICES ASSUME task'[t].entry = e PROVE TryPaid(e, t)'
      BY <1>1
    <3>2. /\ task[t].entry = e /\ task'[t].pc = "send"
          /\ task'[t].count = task[t].count
      BY <1>0, <2>1, <3>1 DEF Lookup, OutboxIInv, OutboxTypeOK, TaskState
    <3>3. t \notin Doomed(e)'
      BY <3>2 DEF Doomed
    <3> QED
      BY <1>0, <3>2, <3>3, TryKeepsPaid
  <2>2. CASE MarkDelivered(t) \/ RecordFailure(t)
    <3>1. task'[t].entry = NoEntry
      BY <2>2 DEF MarkDelivered, RecordFailure, Exit, IdleTask, OutboxIInv, OutboxTypeOK
    <3> QED
      BY <1>0, <1>1, <3>1
  <2> QED
    BY <1>4, <2>1, <2>2 DEF Settle
<1>5. CASE Call(t)
  <2>1. t \notin Doomed(e)'
    BY <1>5, CallMoves DEF Doomed, Late
  <2> QED
    BY <1>0, <1>5, <2>1, CallMoves, TryKeepsPaid
<1>6. CASE Answered(t) \/ HungUp(t)
  <2>1. SUFFICES ASSUME task'[t].entry = e PROVE TryPaid(e, t)'
    BY <1>1
  <2>2. task[t].entry = e /\ task[t].pc = "wait" /\ task'[t].count = task[t].count
    BY <1>0, <1>6, <2>1, EndMoves DEF IdleTask
  <2>3. CASE t \in Doomed(e)
    BY <1>0, <2>2, <2>3, TryKeepsPaid
  <2>4. CASE t \notin Doomed(e)
    <3>1. Answered(t) /\ serve[t].pc = "done" /\ serve[t].reply = "ok"
      BY <1>6, <2>2, <2>4 DEF Answered, HungUp, Doomed
    <3>2. task'[t].pc = "mark"
      BY <3>1 DEF Answered, Answer, Goto, OutboxIInv, OutboxTypeOK, TaskState
    <3>3. t \notin Doomed(e)'
      BY <3>2 DEF Doomed
    <3> QED
      BY <1>0, <2>2, <3>3, TryKeepsPaid
  <2> QED
    BY <2>3, <2>4
<1>7. CASE Serve(t)
  <2>1. task' = task /\ HandlerStep(t)
    BY <1>7 DEF Serve, outboxVars
  <2>2. SUFFICES ASSUME t \in Doomed(e)', t \notin Doomed(e), ~Lands(e)
                 PROVE  FALSE
    BY <1>0, <2>1, TryKeepsPaid
  <2>3. /\ task[t].entry = e /\ task[t].pc = "wait"
        /\ \/ serve'[t].pc = "idle"
           \/ serve'[t].pc = "done" /\ serve'[t].reply # "ok"
           \/ serve'[t].pc = "newuser" /\ From[e] \in shadow
           \/ serve'[t].pc = "newdevice" /\ From[e] \in sender
           \/ serve'[t].pc = "create" /\ Pair(e) \in chats
    BY <2>1, <2>2 DEF Doomed, Late, Lands, Pair
  <2>4. serve[t].entry = e /\ serve'[t].pc = "done" /\ serve'[t].reply # "ok"
    BY <2>1, <2>3, HandlerMissed DEF CallInv
  <2>5. Late(e, t)
    BY <2>1, <2>4, HandlerSucceeds
  <2> QED
    BY <2>2, <2>3, <2>5 DEF Doomed
<1>8. CASE DropOrphan(t)
  <2>1. task' = task /\ task[t].pc # "wait"
    BY <1>8 DEF DropOrphan, outboxVars
  <2>2. t \in Doomed(e)' => t \in Doomed(e)
    BY <2>1 DEF Doomed
  <2> QED
    BY <1>0, <2>1, <2>2, TryKeepsPaid
<1>9. CASE SenderDbFails(t) \/ CallRejected(t) \/ CallLost(t) \/ TimesOut(t) \/ PeerDbFails(t) \/ CutOff(t)
  <2>1. faults' = faults + 1
    BY <1>9 DEF SenderDbFails, CallRejected, CallLost, TimesOut, PeerDbFails, CutOff, Fault
  <2>2. task'[t].entry = e => task[t].entry = e /\ task'[t].count = task[t].count
    <3>1. CASE SenderDbFails(t)
      BY <1>0, <3>1 DEF SenderDbFails, LookupMisses, LoseWrite, Goto, Exit, IdleTask,
                        OutboxIInv, OutboxTypeOK, TaskState
    <3>2. CASE CallRejected(t) \/ CallLost(t)
      BY <3>2, CallMoves
    <3>3. CASE TimesOut(t)
      BY <1>0, <3>3, EndMoves DEF IdleTask
    <3>4. CASE PeerDbFails(t) \/ CutOff(t)
      BY <3>4, PeerMoves
    <3> QED
      BY <1>9, <3>1, <3>2, <3>3, <3>4
  <2> QED
    BY <1>0, <2>1, <2>2, TryKeepsPaid
<1> QED
  BY <1>2, <1>3, <1>4, <1>5, <1>6, <1>7, <1>8, <1>9 DEF Progress

(* The row of a deliverable message, and what was fetched of it: the count *)
(* that a failure records belongs to a try that was doomed.                *)
LEMMA RowStep ==
  ASSUME TypeOK, OutboxIInv, InboxIInv, BudgetInv, [Next]_vars, NEW e \in Deliverable
  PROVE  RowPaid(e)'
<1>0. /\ e \in Entry /\ RowPaid(e) /\ row[e].attempts \in Nat /\ MaxAttempts \in Nat
      /\ \A t \in Task : TryPaid(e, t)
  BY OutboxAssumption DEF BudgetInv, Deliverable, OutboxIInv, OutboxTypeOK, RowState
<1>1. Budget(e) \in Nat /\ Budget(e)' \in Nat /\ Budget(e) <= Budget(e)'
  BY <1>0, BudgetGrows
<1>2. row'[e].attempts <= Budget(e) /\ (row'[e].status = "failed" => MaxAttempts <= Budget(e))
  <2> USE DEF OutboxIInv, OutboxTypeOK, RowState
  <2>1. ASSUME NEW f \in Entry, NEW t \in Task, Enqueue(f, t)
        PROVE  row'[e].attempts <= Budget(e) /\ (row'[e].status = "failed" => MaxAttempts <= Budget(e))
    <3>1. CASE f = e
      <4>1. row'[e].attempts = 0 /\ row'[e].status = "pending"
        BY <1>0, <2>1, <3>1 DEF Enqueue
      <4> QED
        BY <1>1, <4>1
    <3>2. CASE f # e
      <4>1. row'[e] = row[e]
        BY <1>0, <2>1, <3>2 DEF Enqueue
      <4> QED
        BY <1>0, <4>1 DEF RowPaid
    <3> QED
      BY <3>1, <3>2
  <2>2. ASSUME row'[e].attempts = row[e].attempts, row'[e].status \in {row[e].status, "delivered"}
        PROVE  row'[e].attempts <= Budget(e) /\ (row'[e].status = "failed" => MaxAttempts <= Budget(e))
    BY <1>0, <2>2 DEF RowPaid
  <2>3. ASSUME \/ \E f \in Entry : BackoffElapses(f)
               \/ \E l \in LogicalId : ReceiveAck(l)
               \/ \E t \in Task : MarkDelivered(t)
        PROVE  row'[e].attempts = row[e].attempts /\ row'[e].status \in {row[e].status, "delivered"}
    <3>1. ASSUME NEW f \in Entry, BackoffElapses(f)
          PROVE  row'[e].attempts = row[e].attempts /\ row'[e].status = row[e].status
      BY <1>0, <3>1 DEF BackoffElapses
    <3>2. ASSUME NEW l \in LogicalId, ReceiveAck(l)
          PROVE  /\ row'[e].attempts = row[e].attempts
                 /\ row'[e].status \in {row[e].status, "delivered"}
      BY <1>0, <3>2 DEF ReceiveAck
    <3>3. ASSUME NEW t \in Task, MarkDelivered(t)
          PROVE  /\ row'[e].attempts = row[e].attempts
                 /\ row'[e].status \in {row[e].status, "delivered"}
      BY <1>0, <3>3 DEF MarkDelivered
    <3> QED
      BY <2>3, <3>1, <3>2, <3>3
  <2>4. ASSUME NEW t \in Task, RecordFailure(t)
        PROVE  row'[e].attempts <= Budget(e) /\ (row'[e].status = "failed" => MaxAttempts <= Budget(e))
    <3>1. CASE task[t].entry # e
      <4>1. row'[e] = row[e]
        BY <1>0, <2>4, <3>1 DEF RecordFailure
      <4> QED
        BY <1>0, <4>1 DEF RowPaid
    <3>2. CASE task[t].entry = e
      <4>1. t \in Doomed(e)
        BY <2>4, <3>2 DEF RecordFailure, Doomed
      <4>2. task[t].count <= Budget(e) /\ task[t].count \in Nat
        BY <1>0, <1>1, <3>2, <4>1 DEF TryPaid, TaskState
      <4>3. CASE task[t].count >= MaxAttempts
        <5>1. row'[e].attempts = task[t].count
          BY <1>0, <2>4, <3>2, <4>3 DEF RecordFailure
        <5> QED
          BY <1>0, <1>1, <4>2, <4>3, <5>1
      <4>4. CASE ~(task[t].count >= MaxAttempts)
        <5>1. row'[e].attempts = task[t].count /\ row'[e].status = row[e].status
          BY <1>0, <2>4, <3>2, <4>4 DEF RecordFailure
        <5> QED
          BY <1>0, <4>2, <5>1 DEF RowPaid
      <4> QED
        BY <4>3, <4>4
    <3> QED
      BY <3>1, <3>2
  <2>5. CASE row' = row
    BY <2>2, <2>5
  <2> QED
    BY <2>1, <2>2, <2>3, <2>4, <2>5
       DEF Next, Progress, Accept, Poll, Elapse, StartTask, Settle, Call, Answered, HungUp,
           Serve, DropOrphan, SenderDbFails, CallRejected, CallLost, TimesOut, PeerDbFails,
           CutOff, SenderRestarts, SignUp, AckArrives, Fetch, Restart, Spawn, Lookup,
           LookupMisses, Send, Answer, LoseWrite, vars, outboxVars
<1>3. \A b \in batch' : b.entry = e => b.attempts <= Budget(e)
  <2>1. CASE Fetch
    BY <1>0, <2>1 DEF Fetch, RowPaid
  <2>2. CASE batch' \subseteq batch
    BY <1>0, <2>2 DEF RowPaid
  <2>3. [OutboxNext]_outboxVars
    BY StepsProject DEF OutboxIInv, InboxIInv
  <2> QED
    BY <2>1, <2>2, <2>3
       DEF OutboxNext, TaskStep, Enqueue, BackoffElapses, ReceiveAck, Spawn, Lookup,
           LookupMisses, Send, Answer, MarkDelivered, RecordFailure, LoseWrite, Restart,
           outboxVars
<1>4. \A b \in batch' : b.entry = e => b.attempts \in Nat
  BY <1>1, OutboxTypeStep, StepsProject, OutboxAssumption DEF OutboxIInv, InboxIInv, OutboxTypeOK
<1>5. row'[e].attempts \in Nat
  BY <1>0, OutboxTypeStep, StepsProject DEF OutboxIInv, InboxIInv, OutboxTypeOK, RowState
<1> QED
  BY <1>0, <1>1, <1>2, <1>3, <1>4, <1>5 DEF RowPaid

(* The peer's users: those it started with stay, and its shadow users are  *)
(* senders of messages.                                                    *)
LEMMA UsersStep ==
  ASSUME InboxIInv, BudgetInv, [InboxNext]_inboxVars
  PROVE  /\ InitialUsers \subseteq local'
         /\ \A a \in shadow' : \E f \in Entry : a = From[f]
<1>1. InitialUsers \subseteq local'
  BY TablesGrow DEF BudgetInv, Grows
<1>2. ASSUME NEW t \in Task, InsertShadowUser(t)
      PROVE  \A a \in shadow' : \E f \in Entry : a = From[f]
  <2>1. serve[t].entry \in Entry
    BY <1>2 DEF InsertShadowUser, InboxIInv, InboxTypeOK
  <2>2. shadow' \subseteq shadow \cup {From[serve[t].entry]}
    BY <1>2 DEF InsertShadowUser
  <2> QED
    BY <2>1, <2>2 DEF BudgetInv
<1>3. ASSUME shadow' = shadow PROVE \A a \in shadow' : \E f \in Entry : a = From[f]
  BY <1>3 DEF BudgetInv
<1> QED
  BY <1>1, <1>2, <1>3
     DEF InboxNext, HandlerStep, Arrive, Reject, Resolve, UpsertShadowUser,
         UpsertShadowDevice, InsertShadowDevice, FindChat, CreateChat, StorePayload,
         Acknowledge, DbError, HandlerEnds, CreateUser, inboxVars

LEMMA BudgetStep ==
  ASSUME TypeOK, OutboxIInv, InboxIInv, CallInv, BudgetInv, [Next]_vars PROVE BudgetInv'
<1>1. [InboxNext]_inboxVars
  BY StepsProject DEF OutboxIInv, InboxIInv
<1>2. \A e \in Deliverable' : e \in Deliverable
  BY <1>1, TablesGrow DEF Deliverable, Grows
<1>3. ASSUME NEW e \in Deliverable PROVE \A u \in Task : TryPaid(e, u)'
  <2>0. e \in Entry /\ \A u \in Task : TryPaid(e, u)
    BY DEF BudgetInv, Deliverable
  <2>1. ASSUME NEW t \in Task,
               \/ Progress(t) \/ SenderDbFails(t) \/ CallRejected(t) \/ CallLost(t)
               \/ TimesOut(t) \/ PeerDbFails(t) \/ CutOff(t)
               \/ \E f \in Entry : Accept(f, t)
        PROVE  \A u \in Task : TryPaid(e, u)'
    <3>1. TryPaid(e, t)'
      BY <2>1, TryStep
    <3>2. \A u \in Task \ {t} : task'[u] = task[u] /\ serve'[u] = serve[u]
      BY <2>1, OtherSlots
    <3>3. ASSUME NEW u \in Task, u # t PROVE TryPaid(e, u)'
      BY <2>0, <3>2, <3>3, IdleSlotKeepsPaid
    <3> QED
      BY <3>1, <3>3
  <2>2. CASE SenderRestarts
    <3>1. \A u \in Task : task'[u].entry = NoEntry
      BY <2>2 DEF SenderRestarts, Restart, IdleTask
    <3> QED
      BY <2>0, <3>1, S2SAssumption DEF TryPaid
  <2>3. CASE UNCHANGED <<task, serve>>
    BY <2>0, <2>3, IdleSlotKeepsPaid
  <2> QED
    BY <2>1, <2>2, <2>3
       DEF Next, Poll, Fetch, Elapse, BackoffElapses, SignUp, CreateUser, AckArrives,
           ReceiveAck, vars, outboxVars, inboxVars
<1>4. \A e \in Deliverable : RowPaid(e)'
  BY RowStep
<1> QED
  BY <1>1, <1>2, <1>3, <1>4, UsersStep DEF BudgetInv

(* Failed and doomed tries are paid for, in every state.                   *)
LEMMA BudgetInductive == Spec => []BudgetInv
<1>1. Init => BudgetInv
  <2> SUFFICES ASSUME Init PROVE BudgetInv
    OBVIOUS
  <2>1. ASSUME NEW e \in Deliverable PROVE RowPaid(e) /\ \A t \in Task : TryPaid(e, t)
    <3>1. e \in Entry /\ e # NoEntry
      BY S2SAssumption DEF Deliverable
    <3>2. Budget(e) \in Nat
      BY DEF Budget, Once, Init
    <3> QED
      BY <3>1, <3>2 DEF Init, OutboxInit, IdleTask, RowPaid, TryPaid
  <2> QED
    BY <2>1 DEF Init, InboxInit, BudgetInv
<1>2. TypeOK /\ OutboxIInv /\ InboxIInv /\ CallInv /\ BudgetInv /\ [Next]_vars => BudgetInv'
  BY BudgetStep
<1> QED
  BY <1>1, <1>2, PartsInv, TypeCorrect, CallInductive, PTL DEF Spec

(* The inductive invariant of the two nodes.                               *)
THEOREM FederationInductive == ASSUME OneMessagePerLogicalId PROVE Spec => []IInv
<1>1. CallInv /\ LinkInv /\ BudgetInv => IInv
  BY DEF IInv
<1> QED
  BY <1>1, CallInductive, LinkInductive, BudgetInductive, PTL

(* A message the peer can take is not given up before the faults and three *)
(* lost races make MaxAttempts, however many tasks and handlers there are  *)
(* and whoever may use its logical id.                                     *)
THEOREM FewFaultsAreSurvived == Spec => []FewFaultsLoseNothing
<1>1. TypeOK /\ BudgetInv => FewFaultsLoseNothing
  <2> SUFFICES ASSUME TypeOK, BudgetInv, faults + 3 < MaxAttempts,
                      NEW e \in Deliverable, row[e].status = "failed"
               PROVE  FALSE
    BY DEF FewFaultsLoseNothing
  <2>1. MaxAttempts <= Budget(e)
    BY DEF BudgetInv, RowPaid
  <2>2. faults \in Nat /\ MaxAttempts \in Nat
    BY FaultsAssumption, OutboxAssumption DEF TypeOK
  <2>3. Budget(e) \in Nat /\ Budget(e) <= faults + 3
    BY <2>2 DEF Budget, Once
  <2> QED
    BY <2>1, <2>2, <2>3
<1> QED
  BY <1>1, TypeCorrect, BudgetInductive, PTL

-----------------------------------------------------------------------------
(* What the peer stores in full is complete in the contract's sense.       *)
LEMMA StoredIsComplete ==
  ASSUME NEW e \in Entry, Stored(e) PROVE Contract!Complete(e)
<1> SUFFICES ASSUME NEW i \in DOMAIN Devices[e] PROVE <<Lid[e], Devices[e][i]>> \in Held
  BY DEF Contract!Complete, Targets
<1> DEFINE m == [lid |-> Lid[e], device |-> Devices[e][i], from |-> From[e], to |-> To[e]]
<1>1. m \in stored /\ m.lid = Lid[e] /\ m.device = Devices[e][i]
  BY DEF Stored
<1> QED
  BY <1>1 DEF Held

(* Storing one payload is delivering it to one device, or nothing if the   *)
(* device has it.                                                          *)
LEMMA StoreRefines ==
  ASSUME OutboxIInv, InboxIInv, LinkInv, NEW t \in Task, StorePayload(t), row' = row
  PROVE  Contract!Next \/ UNCHANGED <<Phase, Held>>
<1>1. PICK e \in Entry : e = serve[t].entry
  BY DEF StorePayload, InboxIInv, InboxTypeOK
<1>2. PICK d : d = Devices[e][serve[t].next]
  OBVIOUS
<1>3. serve[t].next \in DOMAIN Devices[e]
  <2>1. /\ serve[t].next \in 1..(Len(Devices[e]) + 1)
        /\ serve[t].next <= Len(Devices[e])
    BY <1>1 DEF StorePayload, InboxIInv, InboxTypeOK
  <2>2. DOMAIN Devices[e] = 1..Len(Devices[e]) /\ Len(Devices[e]) \in Nat
    BY InboxAssumption
  <2> QED
    BY <2>1, <2>2
<1>4. d \in Targets[e]
  BY <1>2, <1>3 DEF Targets
<1>5. UNCHANGED Phase /\ Phase[e] # "none"
  BY <1>1 DEF Phase, LinkInv, SlotInv, StorePayload
<1>6. CASE stored' = stored
  BY <1>5, <1>6 DEF Held
<1>7. CASE stored' # stored
  <2> DEFINE m == [lid |-> Lid[e], device |-> d, from |-> From[e], to |-> To[e]]
  <2>1. stored' = stored \cup {m} /\ ~HasRow(Lid[e], d)
    BY <1>1, <1>2, <1>7 DEF StorePayload, HasRow
  <2>2. Held' = Held \cup {<<Lid[e], d>>}
    <3>1. m.lid = Lid[e] /\ m.device = d
      OBVIOUS
    <3> HIDE DEF m
    <3> QED
      BY <2>1, <3>1 DEF Held
  <2>3. <<Lid[e], d>> \notin Held
    BY <2>1 DEF Held, HasRow
  <2>4. Contract!Deliver(e, d)
    BY <1>5, <2>2, <2>3 DEF Contract!Deliver
  <2> QED
    BY <1>4, <2>4 DEF Contract!Next
<1> QED
  BY <1>6, <1>7

(* What the sender's tables do: accepting, confirming one message or all   *)
(* that carry an acknowledged id, giving up.                               *)
LEMMA RowRefines ==
  ASSUME OneMessagePerLogicalId, OutboxIInv, InboxIInv, LinkInv, LinkInv',
         [Next]_vars, stored' = stored
  PROVE  Contract!Next \/ UNCHANGED <<Phase, Held>>
<1> USE DEF OutboxIInv, OutboxTypeOK, RowState
<1>1. UNCHANGED Held
  BY DEF Held
<1>2. ASSUME NEW e \in Entry, NEW t \in Task, Enqueue(e, t) PROVE Contract!Accept(e)
  BY <1>1, <1>2 DEF Enqueue, Contract!Accept, Phase
<1>3. ASSUME NEW t \in Task, RecordFailure(t)
      PROVE  (\E e \in Entry : Contract!GiveUp(e)) \/ UNCHANGED Phase
  <2>1. PICK e \in Entry : e = task[t].entry /\ row[e].status # "none"
    BY <1>3 DEF RecordFailure, LinkInv, SlotInv
  <2>2. CASE task[t].count >= MaxAttempts
    <3>1. Phase' = [Phase EXCEPT ![e] = "failed"]
      BY <1>3, <2>1, <2>2 DEF RecordFailure, Phase
    <3> QED
      BY <1>1, <2>1, <3>1 DEF Contract!GiveUp, Phase
  <2>3. CASE ~(task[t].count >= MaxAttempts)
    BY <1>3, <2>1, <2>3 DEF RecordFailure, Phase
  <2> QED
    BY <2>2, <2>3
<1>4. ASSUME NEW t \in Task, MarkDelivered(t) PROVE \E e \in Entry : Contract!Confirm({e})
  <2>1. PICK e \in Entry : e = task[t].entry /\ row[e].status # "none" /\ Stored(e)
    BY <1>4 DEF MarkDelivered, LinkInv, SlotInv
  <2>2. Phase' = [f \in Entry |-> IF f \in {e} THEN "delivered" ELSE Phase[f]]
    BY <1>4, <2>1 DEF MarkDelivered, Phase
  <2> QED
    BY <1>1, <2>1, <2>2, StoredIsComplete DEF Contract!Confirm, Phase
<1>5. ASSUME NEW l \in LogicalId, AckArrives(l) PROVE \E E \in SUBSET Entry : Contract!Confirm(E)
  <2> DEFINE E == {e \in Entry : Lid[e] = l /\ row[e].status = "pending"}
  <2>1. Phase' = [f \in Entry |-> IF f \in E THEN "delivered" ELSE Phase[f]]
    BY <1>5 DEF AckArrives, ReceiveAck, Phase
  <2>2. ASSUME NEW e \in E PROVE Stored(e) /\ Phase[e] # "none"
    <3>1. PICK f \in Entry : Lid[f] = l /\ Stored(f)
      BY <1>5 DEF AckArrives
    <3>2. From[e] = From[f] /\ To[e] = To[f] /\ Devices[e] = Devices[f] /\ Lid[e] = Lid[f]
      BY <3>1 DEF OneMessagePerLogicalId
    <3>3. Stored(e)
      BY <3>1, <3>2 DEF Stored
    <3> QED
      BY <3>3 DEF Phase
  <2>3. Contract!Confirm(E)
    BY <1>1, <2>1, <2>2, StoredIsComplete DEF Contract!Confirm
  <2> QED
    BY <2>3
<1>6. ASSUME NEW e \in Entry, BackoffElapses(e) PROVE UNCHANGED Phase
  BY <1>6 DEF BackoffElapses, Phase
<1>7. ASSUME row' = row PROVE UNCHANGED Phase
  BY <1>7 DEF Phase
<1> QED
  BY <1>1, <1>2, <1>3, <1>4, <1>5, <1>6, <1>7
     DEF Next, Contract!Next, Progress, Accept, Poll, Elapse, StartTask, Settle, Call,
         Answered, HungUp, Serve, DropOrphan, SenderDbFails, CallRejected, CallLost,
         TimesOut, PeerDbFails, CutOff, SenderRestarts, SignUp, Fetch, Restart, Spawn,
         Lookup, LookupMisses, Send, Answer, LoseWrite, vars, outboxVars

(* The two nodes implement DeliveryContract.tla.                           *)
THEOREM Refinement == ASSUME OneMessagePerLogicalId PROVE Spec => ImplementsContract
<1>1. Init => Contract!Init
  BY DEF Init, OutboxInit, InboxInit, Contract!Init, Phase, Held
<1>2. ASSUME OutboxIInv, InboxIInv, LinkInv, LinkInv', [Next]_vars
      PROVE  [Contract!Next]_<<Phase, Held>>
  <2>1. stored' = stored \/ \E t \in Task : StorePayload(t) /\ row' = row
    BY <1>2 DEF Next, Progress, Accept, Poll, Elapse, StartTask, Settle, Call,
         Answered, HungUp, Serve, DropOrphan, SenderDbFails, CallRejected, CallLost,
         TimesOut, PeerDbFails, CutOff, SenderRestarts, SignUp, AckArrives,
         HandlerStep, Arrive, Reject, Resolve, UpsertShadowUser, InsertShadowUser,
         UpsertShadowDevice, InsertShadowDevice, FindChat, CreateChat, Acknowledge, DbError, HandlerEnds, CreateUser,
         vars, inboxVars, outboxVars
  <2> QED
    BY <1>2, <2>1, StoreRefines, RowRefines
<1> QED
  BY <1>1, <1>2, PartsInv, LinkInductive, PTL DEF Spec, ImplementsContract, Contract!Spec
=============================================================================
