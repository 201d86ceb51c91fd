----------------------------- MODULE HalvesProofs -----------------------------
(***************************************************************************)
(* What each half of federated delivery guarantees by itself, for any      *)
(* number of entries, tasks, handlers, devices and tries.                  *)
(*                                                                         *)
(* Outbox: type correctness, and that an entry is abandoned only after     *)
(* MaxAttempts failed tries.  The counts a task works with were read long  *)
(* before it writes them back; CountsAreEarned bounds every such copy by   *)
(* the failures that happened, which is what the step of                   *)
(* record_outbox_failure needs.                                            *)
(*                                                                         *)
(* Inbox: OkMeansStored and ReferencesHold.  Their invariant follows the   *)
(* handler: what each statement established and which payloads are done    *)
(* (HandlerInv) survives the steps of other handlers because rows are only *)
(* ever added.                                                             *)
(***************************************************************************)
EXTENDS Outbox, Inbox, TLAPS

(* The invariant holds at the start.                                       *)
LEMMA OutboxInitIInv == OutboxInit => OutboxIInv
BY S2SAssumption, OutboxAssumption
   DEF OutboxInit, OutboxIInv, OutboxTypeOK, RowState, TaskState, PendingHasTriesLeft, CountsAreEarned,
       AbandonedOnlyAfterMaxFailures, IdleTask

(* Every step of a client, the worker, a task, an acknowledgement or a     *)
(* restart keeps the types; in particular the count a new task gets is in  *)
(* range because what was fetched had a try left.                          *)
LEMMA OutboxTypeStep == OutboxIInv /\ [OutboxNext]_outboxVars => OutboxTypeOK'
<1> SUFFICES ASSUME OutboxIInv, [OutboxNext]_outboxVars PROVE OutboxTypeOK'
  OBVIOUS
<1> USE S2SAssumption, OutboxAssumption DEF OutboxIInv, OutboxTypeOK, RowState, TaskState
<1>1. ASSUME NEW e \in Entry, NEW t \in Task, Enqueue(e, t) PROVE OutboxTypeOK'
  <2>1. CASE UNCHANGED task
    BY <1>1, <2>1 DEF Enqueue
  <2>2. CASE task' # task
    <3>1. row' \in [Entry -> RowState]
      BY <1>1 DEF Enqueue
    <3>2. task' = [task EXCEPT ![t] = [pc |-> "send", entry |-> e, count |-> 0,
                                       worker |-> FALSE]]
      BY <1>1, <2>2 DEF Enqueue
    <3>3. task' \in [Task -> TaskState]
      BY <3>2
    <3>4. \A u \in Task : task'[u].pc # "idle" => task'[u].entry \in Entry
      BY <3>2
    <3> QED
      BY <1>1, <3>1, <3>3, <3>4 DEF Enqueue
  <2> QED
    BY <2>1, <2>2
<1>2. ASSUME NEW e \in Entry, BackoffElapses(e) PROVE OutboxTypeOK'
  <2> DEFINE new == [row[e] EXCEPT !.due = TRUE]
  <2>1. new \in RowState
    <3>1. row[e] \in RowState
      OBVIOUS
    <3> QED
      BY <3>1
  <2>2. row' = [row EXCEPT ![e] = new]
    BY <1>2 DEF BackoffElapses
  <2> HIDE DEF new
  <2>3. row' \in [Entry -> RowState]
    BY <2>1, <2>2
  <2> QED
    BY <1>2, <2>3 DEF BackoffElapses
<1>3. ASSUME NEW l \in LogicalId, ReceiveAck(l) PROVE OutboxTypeOK'
  <2>1. row' \in [Entry -> RowState]
    BY <1>3 DEF ReceiveAck
  <2> QED
    BY <1>3, <2>1 DEF ReceiveAck
<1>4. ASSUME NEW t \in Task, Spawn(t) PROVE OutboxTypeOK'
  BY <1>4 DEF Spawn, PendingHasTriesLeft
<1>5. ASSUME NEW t \in Task, Lookup(t) PROVE OutboxTypeOK'
  <2>1. task[t].entry \in Entry
    BY <1>5 DEF Lookup
  <2>2. CASE task[t].entry \in Undecodable
    <3> DEFINE given_up == [task[t] EXCEPT !.pc = "fail", !.count = MaxAttempts]
    <3>1. task' = [task EXCEPT ![t] = given_up] /\ UNCHANGED <<row, batch, failures>>
      BY <1>5, <2>2 DEF Lookup
    <3>2. task[t] \in TaskState /\ MaxAttempts \in 0..MaxAttempts
      OBVIOUS
    <3>3. given_up \in TaskState
      BY <3>2
    <3>4. given_up.entry = task[t].entry
      BY <3>2
    <3> HIDE DEF given_up
    <3> QED
      BY <2>1, <3>1, <3>3, <3>4
  <2>3. CASE task[t].entry \notin Undecodable
    BY <1>5, <2>1, <2>3 DEF Lookup
  <2> QED
    BY <2>2, <2>3
<1>6. ASSUME NEW t \in Task, LookupMisses(t) PROVE OutboxTypeOK'
  <2>1. task[t].entry \in Entry /\ UNCHANGED <<row, batch, failures>>
    BY <1>6 DEF LookupMisses
  <2>2. CASE Goto(t, "fail")
    BY <2>1, <2>2 DEF Goto
  <2>3. CASE Exit(t)
    BY <2>1, <2>3 DEF Exit, IdleTask
  <2> QED
    BY <1>6, <2>2, <2>3 DEF LookupMisses
<1>7. ASSUME NEW t \in Task, Send(t) PROVE OutboxTypeOK'
  BY <1>7 DEF Send, Goto
<1>8. ASSUME NEW t \in Task, NEW a \in Answers, Answer(t, a) PROVE OutboxTypeOK'
  <2>1. task[t].entry \in Entry /\ UNCHANGED <<row, batch, failures>>
    BY <1>8 DEF Answer
  <2>2. CASE Goto(t, "mark")
    BY <2>1, <2>2 DEF Goto
  <2>3. CASE Goto(t, "fail")
    BY <2>1, <2>3 DEF Goto
  <2>4. CASE Exit(t)
    BY <2>1, <2>4 DEF Exit, IdleTask
  <2> QED
    BY <1>8, <2>2, <2>3, <2>4 DEF Answer
<1>9. ASSUME NEW t \in Task, MarkDelivered(t) PROVE OutboxTypeOK'
  BY <1>9 DEF MarkDelivered, Exit, IdleTask
<1>10. ASSUME NEW t \in Task, RecordFailure(t) PROVE OutboxTypeOK'
  <2> DEFINE e == task[t].entry
             n == task[t].count
  <2>1. /\ e \in Entry /\ n \in 0..MaxAttempts
        /\ row[e] \in RowState
    BY <1>10 DEF RecordFailure, TaskState
  <2>2. /\ [row[e] EXCEPT !.status = "failed", !.attempts = n] \in RowState
        /\ [row[e] EXCEPT !.attempts = n, !.due = FALSE] \in RowState
    BY <2>1
  <2>3. row' \in [Entry -> RowState]
    <3> HIDE DEF e, n
    <3>1. row' = IF n >= MaxAttempts
                 THEN [row EXCEPT ![e] = [row[e] EXCEPT !.status = "failed", !.attempts = n]]
                 ELSE [row EXCEPT ![e] = [row[e] EXCEPT !.attempts = n, !.due = FALSE]]
      BY <1>10 DEF RecordFailure, e, n
    <3> QED
      BY <2>2, <3>1
  <2>4. failures' \in [Entry -> 0..MaxAttempts]
    BY <1>10, <2>1 DEF RecordFailure, CountFailure
  <2> QED
    BY <1>10, <2>3, <2>4 DEF RecordFailure, Exit, IdleTask, TaskState
<1>11. ASSUME NEW t \in Task, LoseWrite(t) PROVE OutboxTypeOK'
  BY <1>11 DEF LoseWrite, CountFailure, Exit, IdleTask
<1>12. CASE Fetch
  BY <1>12 DEF Fetch, Due
<1>13. CASE Restart
  BY <1>13 DEF Restart, IdleTask
<1>14. CASE UNCHANGED outboxVars
  BY <1>14 DEF outboxVars
<1> QED
  BY <1>1, <1>2, <1>3, <1>4, <1>5, <1>6, <1>7, <1>8, <1>9, <1>10, <1>11, <1>12,
     <1>13, <1>14 DEF OutboxNext, TaskStep

(* Counts stay earned: a failure is counted in the same step that writes   *)
(* its count, and nothing else raises one.                                 *)
LEMMA CountsStep ==
  OutboxIInv /\ [OutboxNext]_outboxVars => CountsAreEarned' /\ AbandonedOnlyAfterMaxFailures'
<1> DEFINE Goal == CountsAreEarned' /\ AbandonedOnlyAfterMaxFailures'
<1> SUFFICES ASSUME OutboxIInv, [OutboxNext]_outboxVars PROVE Goal
  OBVIOUS
<1> USE S2SAssumption, OutboxAssumption
    DEF OutboxIInv, OutboxTypeOK, RowState, TaskState, CountsAreEarned, AbandonedOnlyAfterMaxFailures
<1>1. ASSUME NEW e \in Entry, NEW t \in Task, Enqueue(e, t) PROVE Goal
  <2>1. CASE UNCHANGED task
    BY <1>1, <2>1 DEF Enqueue
  <2>2. CASE task' # task
    BY <1>1, <2>2 DEF Enqueue
  <2> QED
    BY <2>1, <2>2
<1>2. ASSUME NEW e \in Entry, BackoffElapses(e) PROVE Goal
  BY <1>2 DEF BackoffElapses
<1>3. ASSUME NEW l \in LogicalId, ReceiveAck(l) PROVE Goal
  BY <1>3 DEF ReceiveAck
<1>4. ASSUME NEW t \in Task, Spawn(t) PROVE Goal
  BY <1>4 DEF Spawn
<1>5. ASSUME NEW t \in Task, Lookup(t) PROVE Goal
  BY <1>5 DEF Lookup
<1>6. ASSUME NEW t \in Task, LookupMisses(t) PROVE Goal
  BY <1>6 DEF LookupMisses, Goto, Exit, IdleTask
<1>7. ASSUME NEW t \in Task, Send(t) PROVE Goal
  BY <1>7 DEF Send, Goto
<1>8. ASSUME NEW t \in Task, NEW a \in Answers, Answer(t, a) PROVE Goal
  <2>1. UNCHANGED <<row, batch, failures>>
    BY <1>8 DEF Answer
  <2>2. CASE Goto(t, "mark")
    BY <2>1, <2>2 DEF Goto
  <2>3. CASE Goto(t, "fail")
    BY <2>1, <2>3 DEF Goto
  <2>4. CASE Exit(t)
    BY <2>1, <2>4 DEF Exit, IdleTask
  <2> QED
    BY <1>8, <2>2, <2>3, <2>4 DEF Answer
<1>9. ASSUME NEW t \in Task, MarkDelivered(t) PROVE Goal
  BY <1>9 DEF MarkDelivered, Exit, IdleTask
<1>10. ASSUME NEW t \in Task, RecordFailure(t) PROVE Goal
  BY <1>10 DEF RecordFailure, CountFailure, Exit, IdleTask
<1>11. ASSUME NEW t \in Task, LoseWrite(t) PROVE Goal
  <2>1. Exit(t) /\ UNCHANGED <<row, batch>>
    BY <1>11 DEF LoseWrite
  <2>2. CASE UNCHANGED failures
    BY <2>1, <2>2 DEF Exit, IdleTask
  <2>3. CASE CountFailure(task[t].entry)
    BY <2>1, <2>3 DEF CountFailure, Exit, IdleTask
  <2> QED
    BY <1>11, <2>2, <2>3 DEF LoseWrite
<1>12. CASE Fetch
  BY <1>12 DEF Fetch, Due
<1>13. CASE Restart
  BY <1>13 DEF Restart, IdleTask
<1>14. CASE UNCHANGED outboxVars
  BY <1>14 DEF outboxVars
<1> QED
  BY <1>1, <1>2, <1>3, <1>4, <1>5, <1>6, <1>7, <1>8, <1>9, <1>10, <1>11, <1>12,
     <1>13, <1>14 DEF OutboxNext, TaskStep

(* Rows leave the queue in the step that uses up their tries.              *)
LEMMA TriesStep == OutboxIInv /\ [OutboxNext]_outboxVars => PendingHasTriesLeft'
<1> SUFFICES ASSUME OutboxIInv, [OutboxNext]_outboxVars PROVE PendingHasTriesLeft'
  OBVIOUS
<1> USE S2SAssumption, OutboxAssumption
    DEF OutboxIInv, OutboxTypeOK, RowState, TaskState, PendingHasTriesLeft
<1>1. ASSUME NEW e \in Entry, NEW t \in Task, Enqueue(e, t) PROVE PendingHasTriesLeft'
  BY <1>1 DEF Enqueue
<1>2. ASSUME NEW e \in Entry, BackoffElapses(e) PROVE PendingHasTriesLeft'
  BY <1>2 DEF BackoffElapses
<1>3. ASSUME NEW l \in LogicalId, ReceiveAck(l) PROVE PendingHasTriesLeft'
  BY <1>3 DEF ReceiveAck
<1>4. ASSUME NEW t \in Task, Spawn(t) PROVE PendingHasTriesLeft'
  BY <1>4 DEF Spawn
<1>5. ASSUME NEW t \in Task, MarkDelivered(t) PROVE PendingHasTriesLeft'
  BY <1>5 DEF MarkDelivered
<1>6. ASSUME NEW t \in Task, RecordFailure(t) PROVE PendingHasTriesLeft'
  BY <1>6 DEF RecordFailure
<1>7. CASE Fetch
  BY <1>7 DEF Fetch, Due
<1>8. CASE Restart
  BY <1>8 DEF Restart
<1>9. ASSUME UNCHANGED <<row, batch>> PROVE PendingHasTriesLeft'
  BY <1>9
<1> QED
  BY <1>1, <1>2, <1>3, <1>4, <1>5, <1>6, <1>7, <1>8, <1>9
     DEF OutboxNext, TaskStep, Lookup, LookupMisses, Send, Answer, LoseWrite, outboxVars

(* The three together: the invariant is inductive.                         *)
LEMMA OutboxInductive == OutboxSpec => []OutboxIInv
<1>1. OutboxIInv /\ [OutboxNext]_outboxVars => OutboxIInv'
  BY OutboxTypeStep, CountsStep, TriesStep DEF OutboxIInv
<1> QED
  BY OutboxInitIInv, <1>1, PTL DEF OutboxSpec

(* Type correctness of the outbox.                                         *)
THEOREM OutboxTypeCorrect == OutboxSpec => []OutboxTypeOK
<1>1. OutboxIInv => OutboxTypeOK
  BY DEF OutboxIInv
<1> QED
  BY OutboxInductive, <1>1, PTL

(* No entry that can be decoded is abandoned before the worker's tries for *)
(* it failed MaxAttempts times, whatever tasks overlap.                    *)
THEOREM NeverAbandonedEarly == OutboxSpec => []AbandonedOnlyAfterMaxFailures
<1>1. OutboxIInv => AbandonedOnlyAfterMaxFailures
  BY DEF OutboxIInv
<1> QED
  BY OutboxInductive, <1>1, PTL

(* Whatever is pending, or was when it was fetched, has a try left.        *)
THEOREM TriesLeft == OutboxSpec => []PendingHasTriesLeft
<1>1. OutboxIInv => PendingHasTriesLeft
  BY DEF OutboxIInv
<1> QED
  BY OutboxInductive, <1>1, PTL

(* No count, wherever a poll or a task copied it to, is ahead of the       *)
(* failures that happened by more than the try about to be made.           *)
THEOREM EveryCountIsEarned == OutboxSpec => []CountsAreEarned
<1>1. OutboxIInv => CountsAreEarned
  BY DEF OutboxIInv
<1> QED
  BY OutboxInductive, <1>1, PTL

-----------------------------------------------------------------------------
(* What a step of handler t leaves alone in the other handlers, and that   *)
(* the tables only grow.                                                   *)
Grows == /\ local \subseteq local' /\ shadow \subseteq shadow'
         /\ sender \subseteq sender' /\ chats \subseteq chats'
         /\ stored \subseteq stored'

(* No step of the inbox removes a row from any table.                      *)
LEMMA TablesGrow == InboxIInv /\ [InboxNext]_inboxVars => Grows
<1> SUFFICES ASSUME InboxIInv, [InboxNext]_inboxVars PROVE Grows
  OBVIOUS
<1>1. ASSUME NEW t \in Task, HandlerStep(t) PROVE Grows
  <2>1. CASE Resolve(t) \/ FindChat(t) \/ Acknowledge(t)
    BY <2>1 DEF Resolve, FindChat, Acknowledge, Grows
  <2>2. CASE UpsertShadowUser(t) \/ InsertShadowUser(t)
    BY <2>2 DEF UpsertShadowUser, InsertShadowUser, Grows
  <2>3. CASE UpsertShadowDevice(t) \/ InsertShadowDevice(t)
    BY <2>3 DEF UpsertShadowDevice, InsertShadowDevice, Grows
  <2>4. CASE CreateChat(t)
    BY <2>4 DEF CreateChat, Grows
  <2>5. CASE StorePayload(t)
    BY <2>5 DEF StorePayload, Grows
  <2> QED
    BY <1>1, <2>1, <2>2, <2>3, <2>4, <2>5 DEF HandlerStep
<1>2. ASSUME NEW n \in Name, CreateUser(n) PROVE Grows
  BY <1>2 DEF CreateUser, Grows
<1> QED
  BY <1>1, <1>2 DEF InboxNext, inboxVars, Grows, Arrive, Reject, DbError, HandlerEnds

(* The invariant holds at the start.                                       *)
LEMMA InboxInitIInv == InboxInit => InboxIInv
BY S2SAssumption, InboxAssumption
   DEF InboxInit, InboxIInv, InboxTypeOK, HandlerState, Answers, IdleHandler,
       ReferencesHold, HandlerInv, Provenance

(* The effect of a step on serve, field by field: handler t goes to pc,    *)
(* next and reply, keeps its entry, and the other handlers stay.           *)
Moves(t, pc, next, reply) ==
  /\ serve' \in [Task -> HandlerState]
  /\ serve'[t].pc = pc /\ serve'[t].entry = serve[t].entry
  /\ serve'[t].next = next /\ serve'[t].reply = reply
  /\ \A u \in Task \ {t} : serve'[u] = serve[u]

(* Where a handler can be while it works.                                  *)
Statements == {"user", "newuser", "device", "newdevice", "find", "create", "store"}

(* Going on to the next statement keeps everything but the place.          *)
LEMMA StepMoves ==
  ASSUME InboxTypeOK, NEW t \in Task, NEW pc \in Statements, Step(t, pc)
  PROVE  Moves(t, pc, serve[t].next, serve[t].reply)
BY DEF InboxTypeOK, HandlerState, Statements, Step, Moves

(* Replying keeps everything but the place and the reply.                  *)
LEMMA ReplyMoves ==
  ASSUME InboxTypeOK, NEW t \in Task, NEW r \in Answers, Reply(t, r)
  PROVE  Moves(t, "done", serve[t].next, r)
<1> DEFINE h == [serve[t] EXCEPT !.pc = "done", !.reply = r]
<1>1. serve[t] \in HandlerState /\ serve \in [Task -> HandlerState]
  BY DEF InboxTypeOK
<1>2. h \in HandlerState /\ h.pc = "done" /\ h.reply = r
      /\ h.entry = serve[t].entry /\ h.next = serve[t].next
  BY <1>1 DEF HandlerState
<1>3. serve' = [serve EXCEPT ![t] = h]
  BY DEF Reply
<1> HIDE DEF h
<1> QED
  BY <1>1, <1>2, <1>3 DEF Moves

(* A handler step, seen through Moves: the reply or the next statement of  *)
(* each of the nine.                                                       *)
LEMMA HandlerStepMoves ==
  ASSUME InboxTypeOK, NEW t \in Task, HandlerStep(t) \/ DbError(t)
  PROVE  \E pc \in Statements \cup {"done"},
            n \in {serve[t].next, serve[t].next + 1}, r \in Answers :
              /\ Moves(t, pc, n, r)
              /\ n = serve[t].next + 1 => serve[t].next <= Len(Devices[serve[t].entry])
<1> USE DEF Statements
<1>1. serve[t].next \in Nat /\ serve[t].reply \in Answers
      /\ serve[t].next # serve[t].next + 1
  BY DEF InboxTypeOK, HandlerState
<1>2. ASSUME NEW pc \in Statements, Step(t, pc) PROVE Moves(t, pc, serve[t].next, serve[t].reply)
  BY <1>2, StepMoves
<1>3. ASSUME NEW r \in Answers, Reply(t, r) PROVE Moves(t, "done", serve[t].next, r)
  BY <1>3, ReplyMoves
<1>4. CASE Resolve(t)
  BY <1>1, <1>2, <1>3, <1>4 DEF Resolve, Answers
<1>5. CASE UpsertShadowUser(t) \/ UpsertShadowDevice(t)
  BY <1>1, <1>2, <1>5 DEF UpsertShadowUser, UpsertShadowDevice
<1>6. CASE InsertShadowUser(t) \/ InsertShadowDevice(t)
  BY <1>1, <1>2, <1>3, <1>6 DEF InsertShadowUser, InsertShadowDevice, Answers
<1>7. CASE FindChat(t)
  BY <1>1, <1>2, <1>7 DEF FindChat
<1>8. CASE CreateChat(t)
  BY <1>1, <1>2, <1>3, <1>8 DEF CreateChat, Answers
<1>9. CASE Acknowledge(t) \/ DbError(t)
  BY <1>1, <1>3, <1>9 DEF Acknowledge, DbError, Answers
<1>10. CASE StorePayload(t)
  <2>1. CASE Reply(t, "error")
    BY <1>1, <1>3, <2>1 DEF Answers
  <2>2. CASE serve' = [serve EXCEPT ![t].next = @ + 1]
    <3>1. Moves(t, "store", serve[t].next + 1, serve[t].reply)
      BY <1>1, <1>10, <2>2 DEF StorePayload, Moves, InboxTypeOK, HandlerState
    <3> QED
      BY <1>1, <1>10, <3>1 DEF StorePayload
  <2> QED
    BY <1>10, <2>1, <2>2 DEF StorePayload
<1> QED
  BY <1>4, <1>5, <1>6, <1>7, <1>8, <1>9, <1>10 DEF HandlerStep

(* The other tables get rows of the right type.                            *)
LEMMA RowsTyped ==
  InboxIInv /\ [InboxNext]_inboxVars =>
    /\ local' \subseteq Name /\ shadow' \subseteq Address /\ sender' \subseteq Address
    /\ chats' \subseteq Address \X Name /\ stored' \subseteq Message
<1> DEFINE Goal == /\ local' \subseteq Name /\ shadow' \subseteq Address
                   /\ sender' \subseteq Address
                   /\ chats' \subseteq Address \X Name /\ stored' \subseteq Message
<1> SUFFICES ASSUME InboxIInv, [InboxNext]_inboxVars PROVE Goal
  OBVIOUS
<1> USE S2SAssumption, InboxAssumption DEF InboxIInv, InboxTypeOK
<1>1. ASSUME NEW t \in Task, InsertShadowUser(t) PROVE Goal
  BY <1>1 DEF InsertShadowUser
<1>2. ASSUME NEW t \in Task, InsertShadowDevice(t) PROVE Goal
  BY <1>2 DEF InsertShadowDevice
<1>3. ASSUME NEW t \in Task, CreateChat(t) PROVE Goal
  BY <1>3 DEF CreateChat, Pair
<1>4. ASSUME NEW t \in Task, StorePayload(t) PROVE Goal
  <2> DEFINE e == serve[t].entry
             d == Devices[e][serve[t].next]
  <2>1. e \in Entry /\ d \in Device
    BY <1>4 DEF StorePayload, HandlerState
  <2>2. [lid |-> Lid[e], device |-> d, from |-> From[e], to |-> To[e]] \in Message
    BY <2>1 DEF Message
  <2> QED
    BY <1>4, <2>2 DEF StorePayload
<1>5. ASSUME NEW n \in Name, CreateUser(n) PROVE Goal
  BY <1>5 DEF CreateUser
<1>6. ASSUME UNCHANGED <<local, shadow, sender, chats, stored>> PROVE Goal
  BY <1>6
<1> QED
  BY <1>1, <1>2, <1>3, <1>4, <1>5, <1>6
     DEF InboxNext, HandlerStep, inboxVars, Arrive, Reject, Resolve, UpsertShadowUser,
         UpsertShadowDevice, FindChat, Acknowledge, DbError, HandlerEnds

(* Every step keeps the types; a handler in its loop stays within the      *)
(* payloads of its message.                                                *)
LEMMA InboxTypeStep == InboxIInv /\ [InboxNext]_inboxVars => InboxTypeOK'
<1> DEFINE Goal ==
      /\ serve' \in [Task -> HandlerState]
      /\ \A t \in Task : /\ serve'[t].pc # "idle" => serve'[t].entry \in Entry
                         /\ serve'[t].pc # "idle" =>
                              serve'[t].next \in 1..(Len(Devices[serve'[t].entry]) + 1)
<1> SUFFICES ASSUME InboxIInv, [InboxNext]_inboxVars PROVE Goal
  BY RowsTyped DEF InboxTypeOK
<1>1. InboxTypeOK
  BY DEF InboxIInv
<1>2. ASSUME NEW t \in Task, HandlerStep(t) \/ DbError(t) PROVE Goal
  <2>1. serve[t].pc # "idle"
    BY <1>2 DEF HandlerStep, DbError, Resolve, UpsertShadowUser, InsertShadowUser,
                UpsertShadowDevice, InsertShadowDevice, FindChat, CreateChat,
                StorePayload, Acknowledge
  <2>2. /\ serve[t].entry \in Entry
        /\ serve[t].next \in 1..(Len(Devices[serve[t].entry]) + 1)
        /\ Len(Devices[serve[t].entry]) \in Nat
    BY <1>1, <2>1, InboxAssumption DEF InboxTypeOK
  <2>3. PICK pc \in Statements \cup {"done"},
             n \in {serve[t].next, serve[t].next + 1}, r \in Answers :
               /\ Moves(t, pc, n, r)
               /\ n = serve[t].next + 1 => serve[t].next <= Len(Devices[serve[t].entry])
    BY <1>1, <1>2, HandlerStepMoves
  <2>4. n \in 1..(Len(Devices[serve[t].entry]) + 1)
    BY <2>2, <2>3
  <2> QED
    BY <1>1, <2>2, <2>3, <2>4 DEF Moves, InboxTypeOK
<1>3. ASSUME NEW t \in Task, NEW e \in Entry, Arrive(t, e) \/ Reject(t, e) PROVE Goal
  <2>1. 1 \in 1..(Len(Devices[e]) + 1)
    BY InboxAssumption
  <2>2. PICK pc \in {"resolve", "done"}, r \in {"error", "unauthorized"} :
          serve' = [serve EXCEPT ![t] = [pc |-> pc, entry |-> e, next |-> 1,
                                         reply |-> r]]
    BY <1>3 DEF Arrive, Reject
  <2>3. [pc |-> pc, entry |-> e, next |-> 1, reply |-> r] \in HandlerState
    BY DEF HandlerState, Answers
  <2> QED
    BY <1>1, <2>1, <2>2, <2>3 DEF InboxTypeOK
<1>4. ASSUME NEW t \in Task, HandlerEnds(t) PROVE Goal
  BY <1>1, <1>4 DEF HandlerEnds, IdleHandler, InboxTypeOK, HandlerState, Answers
<1>5. ASSUME UNCHANGED serve PROVE Goal
  BY <1>1, <1>5 DEF InboxTypeOK
<1> QED
  BY <1>2, <1>3, <1>4, <1>5 DEF InboxNext, CreateUser, inboxVars

(* Rows once there stay there.                                             *)
LEMMA HasRowStable ==
  ASSUME Grows, NEW l, NEW d, HasRow(l, d) PROVE HasRow(l, d)'
BY DEF Grows, HasRow

(* A handler that does not move keeps what it relies on.                   *)
LEMMA Undisturbed ==
  ASSUME Grows, NEW u \in Task, HandlerInv(u), serve'[u] = serve[u]
  PROVE  HandlerInv(u)'
BY HasRowStable DEF HandlerInv, Grows, Pair

(* A handler step establishes what the handler relies on next.             *)
LEMMA HandlerMoves ==
  ASSUME InboxIInv, Grows, NEW t \in Task, HandlerStep(t) \/ DbError(t)
  PROVE  \A u \in Task : HandlerInv(u)'
<1>1. InboxTypeOK /\ HandlerInv(t)
  BY DEF InboxIInv
<1>e. PICK e \in Entry : serve[t].entry = e
  BY <1>1 DEF InboxTypeOK, HandlerStep, DbError, Resolve, UpsertShadowUser,
     InsertShadowUser, UpsertShadowDevice, InsertShadowDevice, FindChat, CreateChat,
     StorePayload, Acknowledge
<1> USE <1>e
<1>2. ASSUME NEW pc, NEW n, NEW r, Moves(t, pc, n, r)
      PROVE /\ serve'[t].pc = pc /\ serve'[t].entry = e /\ serve'[t].next = n
            /\ serve'[t].reply = r
            /\ \A u \in Task \ {t} : HandlerInv(u)'
  BY <1>2, Undisturbed DEF Moves, InboxIInv
<1>3. ASSUME NEW pc \in Statements, Step(t, pc) PROVE Moves(t, pc, serve[t].next, serve[t].reply)
  BY <1>1, <1>3, StepMoves DEF Statements
<1>4. ASSUME NEW r \in Answers, Reply(t, r) PROVE Moves(t, "done", serve[t].next, r)
  BY <1>1, <1>4, ReplyMoves
<1>5. ASSUME NEW r \in Answers \ {"ok"}, Reply(t, r) PROVE \A u \in Task : HandlerInv(u)'
  BY <1>2, <1>4, <1>5 DEF HandlerInv
<1>6. CASE Resolve(t)
  <2>1. CASE Step(t, "user") /\ To[e] \in local /\ local' = local
    BY <1>1, <1>2, <1>3, <1>6, <2>1 DEF Resolve, HandlerInv, Statements
  <2> QED
    BY <1>5, <1>6, <2>1 DEF Resolve, Answers
<1>7. CASE UpsertShadowUser(t) \/ InsertShadowUser(t)
  <2>1. CASE Step(t, "device") /\ From[e] \in shadow'
    BY <1>1, <1>2, <1>3, <1>7, <2>1 DEF UpsertShadowUser, InsertShadowUser, HandlerInv,
                                        Statements
  <2>2. CASE UpsertShadowUser(t) /\ Step(t, "newuser")
    BY <1>1, <1>2, <1>3, <2>2 DEF UpsertShadowUser, HandlerInv, Statements
  <2> QED
    BY <1>5, <1>7, <2>1, <2>2 DEF UpsertShadowUser, InsertShadowUser, Answers
<1>8. CASE UpsertShadowDevice(t) \/ InsertShadowDevice(t)
  <2>1. CASE Step(t, "find") /\ From[e] \in sender'
    BY <1>1, <1>2, <1>3, <1>8, <2>1 DEF UpsertShadowDevice, InsertShadowDevice, HandlerInv,
                                        Statements
  <2>2. CASE UpsertShadowDevice(t) /\ Step(t, "newdevice")
    BY <1>1, <1>2, <1>3, <2>2 DEF UpsertShadowDevice, HandlerInv, Statements
  <2> QED
    BY <1>5, <1>8, <2>1, <2>2 DEF UpsertShadowDevice, InsertShadowDevice, Answers
<1>9. CASE FindChat(t)
  <2>1. CASE Step(t, "store") /\ Pair(e) \in chats
    <3>1. serve[t].next = 1 /\ \A i \in DOMAIN Devices[e] : ~(i < 1)
      BY <1>1, <1>9, InboxAssumption DEF FindChat, HandlerInv, InboxTypeOK
    <3> QED
      BY <1>1, <1>2, <1>3, <1>9, <2>1, <3>1 DEF FindChat, HandlerInv, Statements, Pair
  <2>2. CASE Step(t, "create")
    BY <1>1, <1>2, <1>3, <1>9, <2>2 DEF FindChat, HandlerInv, Statements
  <2> QED
    BY <1>9, <2>1, <2>2 DEF FindChat
<1>10. CASE CreateChat(t)
  <2>1. CASE Step(t, "store") /\ Pair(e) \in chats'
    <3>1. serve[t].next = 1 /\ \A i \in DOMAIN Devices[e] : ~(i < 1)
      BY <1>1, <1>10, InboxAssumption DEF CreateChat, HandlerInv, InboxTypeOK
    <3> QED
      BY <1>1, <1>2, <1>3, <1>10, <2>1, <3>1 DEF CreateChat, HandlerInv, Statements, Pair
  <2> QED
    BY <1>5, <1>10, <2>1 DEF CreateChat, Answers
<1>11. CASE StorePayload(t)
  <2>d. PICK d : d = Devices[e][serve[t].next]
    OBVIOUS
  <2> USE <2>d
  <2>1. CASE d \in Registered
    <3> DEFINE m == [lid |-> Lid[e], device |-> d, from |-> From[e], to |-> To[e]]
    <3>0. /\ stored' = IF HasRow(Lid[e], d) THEN stored ELSE stored \cup {m}
          /\ serve' = [serve EXCEPT ![t].next = @ + 1]
          /\ serve[t].pc = "store"
      BY <1>11, <2>1 DEF StorePayload, HasRow
    <3>1. HasRow(Lid[e], d)'
      <4>1. CASE HasRow(Lid[e], d)
        BY <4>1, HasRowStable
      <4>2. CASE ~HasRow(Lid[e], d)
        <5>1. m \in stored' /\ m.lid = Lid[e] /\ m.device = d
          BY <3>0, <4>2
        <5> QED
          BY <5>1 DEF HasRow
      <4> QED
        BY <4>1, <4>2
    <3>2. Moves(t, "store", serve[t].next + 1, serve[t].reply)
      BY <1>1, <3>0 DEF Moves, InboxTypeOK, HandlerState
    <3>3. \A i \in DOMAIN Devices[e] :
            i < serve[t].next + 1 => i < serve[t].next \/ i = serve[t].next
      <4>1. serve[t].next \in Nat
        BY <1>1 DEF InboxTypeOK, HandlerState
      <4>2. DOMAIN Devices[e] \subseteq Nat
        BY InboxAssumption
      <4> QED
        BY <4>1, <4>2
    <3>n. PICK n : n = serve[t].next
      OBVIOUS
    <3>4. ASSUME NEW i \in DOMAIN Devices[e], i < n + 1
          PROVE  HasRow(Lid[e], Devices[e][i])'
      <4>1. CASE i = n
        BY <3>1, <3>n, <4>1
      <4>2. CASE i < n
        <5>1. HasRow(Lid[e], Devices[e][i])
          BY <1>1, <3>0, <3>n, <4>2 DEF HandlerInv
        <5> QED
          BY <5>1, HasRowStable
      <4> QED
        BY <3>3, <3>4, <3>n, <4>1, <4>2
    <3>5. /\ To[e] \in local' /\ From[e] \in shadow' /\ From[e] \in sender'
          /\ Pair(e) \in chats'
      BY <1>1, <3>0 DEF HandlerInv, Grows
    <3>6. /\ serve'[t].pc = "store" /\ serve'[t].entry = e /\ serve'[t].next = n + 1
          /\ \A u \in Task \ {t} : HandlerInv(u)'
      BY <1>2, <3>2, <3>n
    <3>7. HandlerInv(t)'
      BY <3>4, <3>5, <3>6 DEF HandlerInv, Pair
    <3> QED
      BY <3>6, <3>7
  <2>2. CASE d \notin Registered
    BY <1>5, <1>11, <2>2 DEF StorePayload, Answers
  <2> QED
    BY <2>1, <2>2
<1>12. CASE Acknowledge(t)
  <2>1. \A i \in DOMAIN Devices[e] : HasRow(Lid[e], Devices[e][i])
    BY <1>1, <1>12, InboxAssumption DEF Acknowledge, HandlerInv, InboxTypeOK, HandlerState
  <2>2. \A i \in DOMAIN Devices[e] : HasRow(Lid[e], Devices[e][i])'
    BY <2>1, HasRowStable
  <2>3. Moves(t, "done", serve[t].next, "ok")
    BY <1>4, <1>12 DEF Acknowledge, Answers
  <2>4. /\ serve'[t].pc = "done" /\ serve'[t].entry = e
        /\ \A u \in Task \ {t} : HandlerInv(u)'
    BY <1>2, <2>3
  <2>5. HandlerInv(t)'
    BY <2>2, <2>4 DEF HandlerInv
  <2> QED
    BY <2>4, <2>5
<1>13. CASE DbError(t)
  BY <1>5, <1>13 DEF DbError, Answers
<1> QED
  BY <1>6, <1>7, <1>8, <1>9, <1>10, <1>11, <1>12, <1>13 DEF HandlerStep

(* Every step of the inbox keeps HandlerInv.                               *)
LEMMA HandlerInvStep ==
  InboxIInv /\ [InboxNext]_inboxVars => \A u \in Task : HandlerInv(u)'
<1> SUFFICES ASSUME InboxIInv, [InboxNext]_inboxVars
             PROVE  \A u \in Task : HandlerInv(u)'
  OBVIOUS
<1>1. Grows
  BY TablesGrow
<1>2. ASSUME NEW t \in Task, \A u \in Task \ {t} : serve'[u] = serve[u], HandlerInv(t)'
      PROVE  \A u \in Task : HandlerInv(u)'
  BY <1>1, <1>2, Undisturbed DEF InboxIInv
<1>3. ASSUME NEW t \in Task, NEW e \in Entry, Arrive(t, e) PROVE HandlerInv(t)'
  BY <1>3 DEF Arrive, HandlerInv, InboxIInv, InboxTypeOK
<1>4. ASSUME NEW t \in Task, NEW e \in Entry, Reject(t, e) PROVE HandlerInv(t)'
  BY <1>4 DEF Reject, HandlerInv, InboxIInv, InboxTypeOK
<1>5. ASSUME NEW t \in Task, HandlerEnds(t) PROVE HandlerInv(t)'
  BY <1>5 DEF HandlerEnds, IdleHandler, HandlerInv, InboxIInv, InboxTypeOK
<1>6. ASSUME NEW t \in Task, NEW e \in Entry, Arrive(t, e) \/ Reject(t, e) \/ HandlerEnds(t)
      PROVE \A u \in Task \ {t} : serve'[u] = serve[u]
  BY <1>6 DEF Arrive, Reject, HandlerEnds, InboxIInv, InboxTypeOK
<1>7. ASSUME NEW t \in Task, HandlerEnds(t) PROVE \A u \in Task \ {t} : serve'[u] = serve[u]
  BY <1>7 DEF HandlerEnds, InboxIInv, InboxTypeOK
<1>8. ASSUME UNCHANGED serve PROVE \A u \in Task : HandlerInv(u)'
  BY <1>1, <1>8, Undisturbed DEF InboxIInv
<1> QED
  BY <1>1, <1>2, <1>3, <1>4, <1>5, <1>6, <1>7, <1>8, HandlerMoves
     DEF InboxNext, CreateUser, inboxVars

(* The row a handler adds has all it refers to, which the handler          *)
(* established; the others keep what they had, for the tables only grow.   *)
LEMMA RowsStep == InboxIInv /\ [InboxNext]_inboxVars => ReferencesHold' /\ Provenance'
<1> SUFFICES ASSUME InboxIInv, [InboxNext]_inboxVars PROVE ReferencesHold' /\ Provenance'
  OBVIOUS
<1>1. Grows /\ ReferencesHold /\ Provenance
  BY TablesGrow DEF InboxIInv
<1>2. ASSUME NEW t \in Task, StorePayload(t), stored' # stored
      PROVE  ReferencesHold' /\ Provenance'
  <2> DEFINE e == serve[t].entry
             d == Devices[e][serve[t].next]
             m == [lid |-> Lid[e], device |-> d, from |-> From[e], to |-> To[e]]
  <2>1. e \in Entry /\ stored' = stored \cup {m} /\ d \in Registered
        /\ UNCHANGED <<local, shadow, sender, chats>>
    BY <1>2 DEF StorePayload, InboxIInv, InboxTypeOK
  <2>2. To[e] \in local /\ From[e] \in shadow \cap sender /\ <<From[e], To[e]>> \in chats
    BY <1>2 DEF InboxIInv, HandlerInv, StorePayload, Pair
  <2> QED
    BY <1>1, <2>1, <2>2 DEF ReferencesHold, Provenance
<1>3. CASE stored' = stored
  BY <1>1, <1>3 DEF Grows, ReferencesHold, Provenance
<1> QED
  BY <1>2, <1>3 DEF InboxNext, HandlerStep, inboxVars, Arrive, Reject, Resolve,
     UpsertShadowUser, InsertShadowUser, UpsertShadowDevice, InsertShadowDevice,
     FindChat, CreateChat, Acknowledge, DbError, HandlerEnds, CreateUser

(* The inductive invariant of the receiving node holds: what each handler  *)
(* established is still there at its next statement.                       *)
THEOREM InboxInductive == InboxSpec => []InboxIInv
<1>1. InboxIInv /\ [InboxNext]_inboxVars => InboxIInv'
  BY InboxTypeStep, HandlerInvStep, RowsStep DEF InboxIInv
<1> QED
  BY InboxInitIInv, <1>1, PTL DEF InboxSpec

(* Type correctness of the receiving node.                                 *)
THEOREM InboxTypeCorrect == InboxSpec => []InboxTypeOK
<1>1. InboxIInv => InboxTypeOK
  BY DEF InboxIInv
<1> QED
  BY InboxInductive, <1>1, PTL

(* A 200 means that every device of the message has its row.               *)
THEOREM OkIsComplete == InboxSpec => []OkMeansStored
<1>1. InboxIInv => OkMeansStored
  BY DEF InboxIInv, HandlerInv, OkMeansStored
<1> QED
  BY InboxInductive, <1>1, PTL

(* Every row finds its recipient, sender, device and chat in place.        *)
THEOREM RowsRefer == InboxSpec => []ReferencesHold
<1>1. InboxIInv => ReferencesHold
  BY DEF InboxIInv
<1> QED
  BY InboxInductive, <1>1, PTL
=============================================================================
