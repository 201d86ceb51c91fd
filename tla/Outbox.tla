------------------------------- MODULE Outbox -------------------------------
(***************************************************************************)
(* The sending half of federated message delivery: the federation_outbox   *)
(* table of one node, the task spawned by POST /messages for the immediate *)
(* attempt, and the worker that polls the table and spawns one task per    *)
(* due entry.  What the peer answers is left to the environment here;      *)
(* Federation.tla joins this module with the peer's half.                  *)
(*                                                                         *)
(* Time is abstract: a row is either due (next_attempt <= NOW()) or        *)
(* backing off; BackoffElapses makes it due again.                         *)
(***************************************************************************)
EXTENDS S2S, Naturals, FiniteSets

CONSTANTS
  Undecodable,  \* entries whose stored JSON this build cannot deserialize
  MaxAttempts,  \* MAX_ATTEMPTS, 10 in the code
  BatchLimit    \* LIMIT of the polling query, 100 in the code

ASSUME OutboxAssumption ==
  /\ Undecodable \subseteq Entry
  /\ MaxAttempts \in Nat \ {0}
  /\ BatchLimit \in Nat \ {0}

VARIABLES
  row,      \* federation_outbox: status, attempt_count and whether it is due
  batch,    \* what the worker fetched in this poll and has not spawned yet
  task,     \* the spawned tasks
  failures  \* history: failed worker tries per entry, saturating at MaxAttempts

outboxVars == <<row, batch, task, failures>>

IdleTask == [pc |-> "idle", entry |-> NoEntry, count |-> 0, worker |-> FALSE]

RowState == [status : {"none", "pending", "delivered", "failed"},
             attempts : 0..MaxAttempts, due : BOOLEAN]
TaskState == [pc : {"idle", "lookup", "send", "wait", "mark", "fail"},
              entry : Entry \cup {NoEntry}, count : 0..MaxAttempts, worker : BOOLEAN]

OutboxTypeOK ==
  /\ row \in [Entry -> RowState]
  /\ batch \subseteq [entry : Entry, attempts : 0..MaxAttempts]
  /\ task \in [Task -> TaskState]
  /\ \A t \in Task : task[t].pc # "idle" => task[t].entry \in Entry
  /\ failures \in [Entry -> 0..MaxAttempts]

OutboxInit ==
  /\ row = [e \in Entry |-> [status |-> "none", attempts |-> 0, due |-> FALSE]]
  /\ batch = {}
  /\ task = [t \in Task |-> IdleTask]
  /\ failures = [e \in Entry |-> 0]

Goto(t, pc) == task' = [task EXCEPT ![t].pc = pc]
Exit(t) == task' = [task EXCEPT ![t] = IdleTask]
CountFailure(e) ==
  failures' = [failures EXCEPT ![e] = IF @ < MaxAttempts THEN @ + 1 ELSE @]

-----------------------------------------------------------------------------
(* Faulty variants of some operations, each with a slip the code could     *)
(* have made.  Nothing below uses them: put in place of the operation,     *)
(* each makes a property fail, which shows that the property can.          *)

(* Both the worker and record_outbox_failure add the try.                  *)
SpawnCountsTwice(t) ==
  /\ task[t].pc = "idle"
  /\ \E b \in batch :
       /\ batch' = batch \ {b}
       /\ task' = [task EXCEPT ![t] = [pc |-> "lookup", entry |-> b.entry,
                                       count |-> b.attempts + 2, worker |-> TRUE]]
  /\ UNCHANGED <<row, failures>>

(* Neither does.                                                           *)
SpawnCountsNothing(t) ==
  /\ task[t].pc = "idle"
  /\ \E b \in batch :
       /\ batch' = batch \ {b}
       /\ task' = [task EXCEPT ![t] = [pc |-> "lookup", entry |-> b.entry,
                                       count |-> b.attempts, worker |-> TRUE]]
  /\ UNCHANGED <<row, failures>>

(* An unknown target node is final, like an undecodable payload.           *)
LookupMissesGivesUp(t) ==
  /\ task[t].pc = "lookup"
  /\ task[t].entry \notin Undecodable
  /\ \/ task' = [task EXCEPT ![t] = [@ EXCEPT !.pc = "fail", !.count = MaxAttempts]]
     \/ Exit(t)
  /\ UNCHANGED <<row, batch, failures>>

(* "attempt > max" where the code says "attempt >= max".                   *)
RecordFailureOneMore(t) ==
  /\ task[t].pc = "fail"
  /\ LET e == task[t].entry
         n == task[t].count
     IN /\ row' = IF n > MaxAttempts
                  THEN [row EXCEPT ![e] = [@ EXCEPT !.status = "failed", !.attempts = n]]
                  ELSE [row EXCEPT ![e] = [@ EXCEPT !.attempts = n, !.due = FALSE]]
        /\ CountFailure(e)
  /\ Exit(t)
  /\ UNCHANGED batch

(* The UPDATE of an acknowledgement without its status = 'pending'.        *)
ReceiveAckOfAny(l) ==
  /\ \E e \in Entry : Lid[e] = l /\ row[e].status = "pending"
  /\ row' = [e \in Entry |-> IF Lid[e] = l THEN [row[e] EXCEPT !.status = "delivered"]
                            ELSE row[e]]
  /\ UNCHANGED <<batch, task, failures>>

-----------------------------------------------------------------------------
(* POST /messages with a remote address: the row is written, then a task   *)
(* holding the payload and the peer's URL is spawned and the client gets   *)
(* its 202; or the client hangs up before, and only the row is there.      *)
Enqueue(e, t) ==
  /\ row[e].status = "none"
  /\ task[t].pc = "idle"
  /\ row' = [row EXCEPT ![e] = [status |-> "pending", attempts |-> 0, due |-> TRUE]]
  /\ \/ task' = [task EXCEPT ![t] = [pc |-> "send", entry |-> e, count |-> 0,
                                     worker |-> FALSE]]
     \/ UNCHANGED task
  /\ UNCHANGED <<batch, failures>>

Due == {e \in Entry : row[e].status = "pending" /\ row[e].due}

(* One tick of the worker: the rows are read, not claimed, so a row with a *)
(* task still in flight is read again.                                     *)
Fetch ==
  /\ batch = {}
  /\ \E D \in SUBSET Due :
       /\ D # {}
       /\ Cardinality(D) <= BatchLimit
       /\ Cardinality(D) < BatchLimit => D = Due
       /\ batch' = {[entry |-> e, attempts |-> row[e].attempts] : e \in D}
  /\ UNCHANGED <<row, task, failures>>

Spawn(t) ==
  /\ task[t].pc = "idle"
  /\ \E b \in batch :
       /\ batch' = batch \ {b}
       /\ task' = [task EXCEPT ![t] = [pc |-> "lookup", entry |-> b.entry,
                                       count |-> b.attempts + 1, worker |-> TRUE]]
  /\ UNCHANGED <<row, failures>>

(* A worker task decodes the payload and resolves the target node.  An     *)
(* undecodable entry is to be failed at once.                              *)
Lookup(t) ==
  /\ task[t].pc = "lookup"
  /\ task' = IF task[t].entry \in Undecodable
             THEN [task EXCEPT ![t] = [@ EXCEPT !.pc = "fail", !.count = MaxAttempts]]
             ELSE [task EXCEPT ![t].pc = "send"]
  /\ UNCHANGED <<row, batch, failures>>

(* The target's row is gone (a try is recorded), or the query failed (the  *)
(* task just ends and the next poll starts over).                          *)
LookupMisses(t) ==
  /\ task[t].pc = "lookup"
  /\ task[t].entry \notin Undecodable
  /\ Goto(t, "fail") \/ Exit(t)
  /\ UNCHANGED <<row, batch, failures>>

Send(t) ==
  /\ task[t].pc = "send"
  /\ Goto(t, "wait")
  /\ UNCHANGED <<row, batch, failures>>

(* The call returns.  Any answer but a 2xx is the same error to the task;  *)
(* the immediate task leaves it to the worker and records nothing.         *)
Answer(t, a) ==
  /\ task[t].pc = "wait"
  /\ \/ a = "ok" /\ Goto(t, "mark")
     \/ a # "ok" /\ task[t].worker /\ Goto(t, "fail")
     \/ a # "ok" /\ ~task[t].worker /\ Exit(t)
  /\ UNCHANGED <<row, batch, failures>>

(* The UPDATE names the row by id only, whatever its status is by now.     *)
MarkDelivered(t) ==
  /\ task[t].pc = "mark"
  /\ row' = [row EXCEPT ![task[t].entry].status = "delivered"]
  /\ Exit(t)
  /\ UNCHANGED <<batch, failures>>

(* record_outbox_failure: the count written is the one read when the poll  *)
(* fetched the row, plus one.                                              *)
RecordFailure(t) ==
  /\ task[t].pc = "fail"
  /\ LET e == task[t].entry
         n == task[t].count
     IN /\ row' = IF n >= MaxAttempts
                  THEN [row EXCEPT ![e] = [@ EXCEPT !.status = "failed", !.attempts = n]]
                  ELSE [row EXCEPT ![e] = [@ EXCEPT !.attempts = n, !.due = FALSE]]
        /\ CountFailure(e)
  /\ Exit(t)
  /\ UNCHANGED batch

(* The UPDATE itself fails; its error is discarded (let _ = ...).          *)
LoseWrite(t) ==
  /\ task[t].pc \in {"mark", "fail"}
  /\ IF task[t].pc = "fail" THEN CountFailure(task[t].entry) ELSE UNCHANGED failures
  /\ Exit(t)
  /\ UNCHANGED <<row, batch>>

BackoffElapses(e) ==
  /\ row[e].status = "pending"
  /\ ~row[e].due
  /\ row' = [row EXCEPT ![e].due = TRUE]
  /\ UNCHANGED <<batch, task, failures>>

(* POST /s2s/ack: every pending row with the logical id, whoever sent it.  *)
ReceiveAck(l) ==
  /\ \E e \in Entry : Lid[e] = l /\ row[e].status = "pending"
  /\ row' = [e \in Entry |->
               IF Lid[e] = l /\ row[e].status = "pending"
               THEN [row[e] EXCEPT !.status = "delivered"] ELSE row[e]]
  /\ UNCHANGED <<batch, task, failures>>

(* The process dies and starts again: tasks and the batch are in memory,   *)
(* the table is not.                                                       *)
Restart ==
  /\ batch # {} \/ \E t \in Task : task[t].pc # "idle"
  /\ task' = [t \in Task |-> IdleTask]
  /\ batch' = {}
  /\ UNCHANGED <<row, failures>>

TaskStep(t) ==
  \/ Spawn(t) \/ Lookup(t) \/ LookupMisses(t) \/ Send(t)
  \/ \E a \in Answers : Answer(t, a)
  \/ MarkDelivered(t) \/ RecordFailure(t) \/ LoseWrite(t)

OutboxNext ==
  \/ \E e \in Entry, t \in Task : Enqueue(e, t)
  \/ \E e \in Entry : BackoffElapses(e)
  \/ \E l \in LogicalId : ReceiveAck(l)
  \/ \E t \in Task : TaskStep(t)
  \/ Fetch
  \/ Restart

OutboxSpec == OutboxInit /\ [][OutboxNext]_outboxVars

-----------------------------------------------------------------------------
(* An entry is given up only after MaxAttempts tries of the worker really  *)
(* failed (or because it cannot be decoded): although the count each task  *)
(* writes comes from an old read, overlapping tasks and late writes can    *)
(* only make the worker try more often than MAX_ATTEMPTS, never less.  A   *)
(* 404 or a 401 is a failure like any other, which docs/API.md denies      *)
(* (MCRefusals.tla).                                                       *)
AbandonedOnlyAfterMaxFailures ==
  \A e \in Entry \ Undecodable :
    row[e].status = "failed" => failures[e] >= MaxAttempts

(* What the polling query can return still has a try left, and so does     *)
(* what it returned earlier: no task ever starts with its count used up.   *)
PendingHasTriesLeft ==
  /\ \A e \in Entry : row[e].status = "pending" => row[e].attempts < MaxAttempts
  /\ \A b \in batch : b.attempts < MaxAttempts

(* Why both hold: no count, wherever it was copied to, is ahead of the     *)
(* failures that really happened by more than the try it is about to make. *)
CountsAreEarned ==
  \A e \in Entry \ Undecodable :
    /\ row[e].attempts <= failures[e]
    /\ \A b \in batch : b.entry = e => b.attempts <= failures[e]
    /\ \A t \in Task : task[t].entry = e => task[t].count <= failures[e] + 1

(* The inductive invariant of HalvesProofs.tla.                            *)
OutboxIInv == /\ OutboxTypeOK
              /\ PendingHasTriesLeft
              /\ CountsAreEarned
              /\ AbandonedOnlyAfterMaxFailures

(* docs/API.md: the outbox entry is "marked `delivered` on any 200": a     *)
(* delivery once recorded is not overwritten by a failure.                 *)
DeliveredIsFinal ==
  [][\A e \in Entry : row[e].status = "delivered" => row'[e].status = "delivered"]_row
=============================================================================
