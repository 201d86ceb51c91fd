----------------------------- MODULE Federation -----------------------------
(***************************************************************************)
(* A sending node's outbox and its peer's inbox joined by HTTP calls: what *)
(* answers a delivery task is the handler its call started.  Calls get     *)
(* lost, time out while their handler runs on, are cut off halfway or are  *)
(* answered 500; either node restarts.  Every such event counts as one     *)
(* fault and a run allows MaxFaults of them, so that what the nodes do by  *)
(* themselves is told apart from what is done to them.                     *)
(***************************************************************************)
EXTENDS Outbox, Inbox

CONSTANT MaxFaults   \* bound on the faults of a behaviour

ASSUME FaultsAssumption == MaxFaults \in Nat

VARIABLE faults

vars == <<outboxVars, inboxVars, faults>>

TypeOK == OutboxTypeOK /\ InboxTypeOK /\ faults \in 0..MaxFaults

Init == OutboxInit /\ InboxInit /\ faults = 0

Fault == faults < MaxFaults /\ faults' = faults + 1
Free(t) == task[t].pc = "idle" /\ serve[t].pc = "idle"

Stored(e) ==
  \A i \in DOMAIN Devices[e] :
    [lid |-> Lid[e], device |-> Devices[e][i], from |-> From[e], to |-> To[e]] \in stored

-----------------------------------------------------------------------------
(* Steps of the sender that do not involve the peer.  A slot is free when  *)
(* no handler of a former call lingers in it.                              *)
Accept(e, t) == Free(t) /\ Enqueue(e, t) /\ UNCHANGED <<inboxVars, faults>>
Poll == Fetch /\ UNCHANGED <<inboxVars, faults>>
Elapse(e) == BackoffElapses(e) /\ UNCHANGED <<inboxVars, faults>>
StartTask(t) == Free(t) /\ Spawn(t) /\ UNCHANGED <<inboxVars, faults>>
Settle(t) == (Lookup(t) \/ MarkDelivered(t) \/ RecordFailure(t))
             /\ UNCHANGED <<inboxVars, faults>>
SenderDbFails(t) == Fault /\ (LookupMisses(t) \/ LoseWrite(t)) /\ UNCHANGED inboxVars
SenderRestarts == Fault /\ Restart /\ UNCHANGED inboxVars

(* The call of task t: it reaches the peer, is turned away by the peer's   *)
(* node authentication, or is lost on the way.                             *)
Call(t) == Send(t) /\ Arrive(t, task[t].entry) /\ UNCHANGED faults
CallRejected(t) == Fault /\ Send(t) /\ Reject(t, task[t].entry)
CallLost(t) == Fault /\ Send(t) /\ UNCHANGED inboxVars

(* Its end: the handler's answer, the end of a handler that gave none, or  *)
(* the 10 s timeout, which leaves the handler running.                     *)
Answered(t) == /\ serve[t].pc = "done"
               /\ Answer(t, serve[t].reply)
               /\ HandlerEnds(t)
               /\ UNCHANGED faults
HungUp(t) == /\ serve[t].pc = "idle"
             /\ Answer(t, "error")
             /\ UNCHANGED <<inboxVars, faults>>
TimesOut(t) == Fault /\ serve[t].pc # "idle" /\ Answer(t, "error") /\ UNCHANGED inboxVars

(* Steps of the peer.  A handler nobody waits for any more goes on, or is  *)
(* dropped with its connection; cutting off one that is waited for (the    *)
(* peer restarts) is a fault.                                              *)
Serve(t) == HandlerStep(t) /\ UNCHANGED <<outboxVars, faults>>
PeerDbFails(t) == Fault /\ DbError(t) /\ UNCHANGED outboxVars
CutOff(t) == task[t].pc = "wait" /\ Fault /\ HandlerEnds(t) /\ UNCHANGED outboxVars
DropOrphan(t) == task[t].pc # "wait" /\ HandlerEnds(t) /\ UNCHANGED <<outboxVars, faults>>
SignUp(n) == CreateUser(n) /\ UNCHANGED <<outboxVars, faults>>

(* A peer acknowledges a logical id it has processed.  No code of this     *)
(* repository calls POST /s2s/ack; other builds of a peer may.             *)
AckArrives(l) ==
  /\ \E e \in Entry : Lid[e] = l /\ Stored(e) /\ row[e].status # "none"
  /\ ReceiveAck(l)
  /\ UNCHANGED <<inboxVars, faults>>

(* What goes on by itself while a message is under way.                    *)
Progress(t) == \/ StartTask(t) \/ Settle(t) \/ Call(t) \/ Answered(t) \/ HungUp(t)
               \/ Serve(t) \/ DropOrphan(t)

Next ==
  \/ \E e \in Entry, t \in Task : Accept(e, t)
  \/ Poll
  \/ \E e \in Entry : Elapse(e)
  \/ \E t \in Task : Progress(t)
  \/ \E t \in Task : \/ SenderDbFails(t) \/ CallRejected(t) \/ CallLost(t)
                     \/ TimesOut(t) \/ PeerDbFails(t) \/ CutOff(t)
  \/ SenderRestarts
  \/ \E n \in Name : SignUp(n)
  \/ \E l \in LogicalId : AckArrives(l)

Spec == Init /\ [][Next]_vars

(* Spawned tasks, handlers and the worker's loop are scheduled by tokio;   *)
(* backoffs end.  Nothing makes clients, faults or acknowledgements happen.*)
Fairness == /\ WF_vars(Poll)
            /\ \A e \in Entry : WF_vars(Elapse(e))
            /\ \A t \in Task : WF_vars(Progress(t))

FairSpec == Spec /\ Fairness

-----------------------------------------------------------------------------
(* A client that reuses a logical_msg_id does so to resend that message.   *)
OneMessagePerLogicalId ==
  \A e, f \in Entry : Lid[e] = Lid[f] =>
    From[e] = From[f] /\ To[e] = To[f] /\ Devices[e] = Devices[f]

(* A row marked delivered means the peer holds the message for each of its *)
(* devices: no lost reply, late answer, retry, resend under the same id,   *)
(* acknowledgement or restart marks a row the peer only has in part.       *)
DeliveredImpliesStored ==
  \A e \in Entry : row[e].status = "delivered" => Stored(e)

(* How the two halves stay in step in a slot, whatever lingers in it: a    *)
(* new call finds it free, and a handler a task waits for has that task's  *)
(* message.                                                                *)
CallInv ==
  \A t \in Task :
    /\ task[t].pc \in {"lookup", "send"} => serve[t].pc = "idle"
    /\ task[t].pc = "wait" /\ serve[t].pc # "idle" => serve[t].entry = task[t].entry

(* A task marks only what the peer has in full, and neither side works on  *)
(* a message that was not accepted.                                        *)
SlotInv(t) ==
  /\ task[t].pc = "mark" => Stored(task[t].entry)
  /\ task[t].pc # "idle" => row[task[t].entry].status # "none"
  /\ serve[t].pc # "idle" => row[serve[t].entry].status # "none"

(* That the messages marked are stored rests on the slots.                 *)
LinkInv == /\ \A t \in Task : SlotInv(t)
           /\ \A b \in batch : row[b.entry].status # "none"
           /\ DeliveredImpliesStored

(* Messages this peer can take: a local recipient, devices it knows, and a *)
(* sender whose name no user of its own and no other sender has.           *)
Deliverable ==
  {e \in Entry : /\ e \notin Undecodable
                 /\ To[e] \in InitialUsers
                 /\ \A i \in DOMAIN Devices[e] : Devices[e][i] \in Registered
                 /\ NameOf[From[e]] \notin local
                 /\ \A f \in Entry : NameOf[From[f]] = NameOf[From[e]]
                                       => From[f] = From[e]}

(* Each fault costs a message at most one of its tries.  The nodes' own    *)
(* races (overlapping tries whose handlers found no shadow user, or no     *)
(* device of it, or no chat, and of which one inserts it) cost it three    *)
(* more, however many tasks are under way: a deliverable message is not    *)
(* given up before that many.                                              *)
FewFaultsLoseNothing ==
  faults + 3 < MaxAttempts =>
    \A e \in Deliverable : row[e].status # "failed"

(* The same for any message to a local user on known devices: that senders *)
(* of two nodes, or a sender and a local user, have the same name does not *)
(* matter ("Username alone is not globally unique since each node has its  *)
(* own namespace", federation.sql).                                        *)
NamesakesLoseNothing ==
  faults + 3 < MaxAttempts =>
    \A e \in Entry \ Undecodable :
      To[e] \in InitialUsers /\ (\A i \in DOMAIN Devices[e] : Devices[e][i] \in Registered)
        => row[e].status # "failed"

(* Another handler has inserted what this one found missing.               *)
Late(e, t) == \/ serve[t].pc = "newuser" /\ From[e] \in shadow
              \/ serve[t].pc = "newdevice" /\ From[e] \in sender
              \/ serve[t].pc = "create" /\ Pair(e) \in chats

(* The tries of e that are bound to fail: the task is about to record it,  *)
(* its handler is gone or has refused, or will find that it is late.       *)
Doomed(e) ==
  {t \in Task : /\ task[t].entry = e
                /\ \/ task[t].pc = "fail"
                   \/ /\ task[t].pc = "wait"
                      /\ \/ serve[t].pc = "idle"
                         \/ serve[t].pc = "done" /\ serve[t].reply # "ok"
                         \/ Late(e, t)}

(* Why it holds.  Handlers that lose the race for a row had all looked for *)
(* it before it was there, when a count was ahead of the budget by no more *)
(* than its own try; the step that inserts the row dooms them all at once  *)
(* and is allowed for by one; from then on nobody misses it any more.      *)
Once(there) == IF there THEN 1 ELSE 0
Budget(e) == faults + Once(From[e] \in shadow) + Once(From[e] \in sender)
                    + Once(Pair(e) \in chats)

RowPaid(e) ==
  /\ row[e].attempts <= Budget(e)
  /\ row[e].status = "failed" => MaxAttempts <= Budget(e)
  /\ \A b \in batch : b.entry = e => b.attempts <= Budget(e)

TryPaid(e, t) ==
  task[t].entry = e =>
    task[t].count <= Budget(e) + (IF t \in Doomed(e) THEN 0 ELSE 1)

BudgetInv ==
  /\ InitialUsers \subseteq local
  /\ \A a \in shadow : \E f \in Entry : a = From[f]
  /\ \A e \in Deliverable : RowPaid(e) /\ \A t \in Task : TryPaid(e, t)

(* The inductive invariant of FederationProofs.tla, on top of those of the *)
(* two halves.                                                             *)
IInv == CallInv /\ LinkInv /\ BudgetInv

(* Whatever is accepted leaves the queue, also when the peer refuses it    *)
(* each time.                                                              *)
EventuallySettled ==
  \A e \in Entry : row[e].status = "pending" ~> row[e].status \in {"delivered", "failed"}

(* An accepted message the peer can take is delivered if faults and the    *)
(* nodes' own races leave it a try, and stays so, unless a user who takes  *)
(* the sender's name signs up at the peer before the first message comes   *)
(* through.                                                                *)
EventuallyDelivered ==
  \A e \in Entry : row[e].status = "pending" /\ e \in Deliverable
                     ~> [](row[e].status = "delivered") \/ e \notin Deliverable

(* The two nodes do what DeliveryContract.tla promises a client.           *)
Targets == [e \in Entry |-> {Devices[e][i] : i \in DOMAIN Devices[e]}]
Phase == [e \in Entry |-> row[e].status]
Held == {<<m.lid, m.device>> : m \in stored}
Contract == INSTANCE DeliveryContract WITH phase <- Phase, inbox <- Held
ImplementsContract == Contract!Spec
=============================================================================
