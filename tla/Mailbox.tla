------------------------------- MODULE Mailbox -------------------------------
(***************************************************************************)
(* The messages table as a node's own clients use it: POST /messages to a  *)
(* local recipient inserts one row per payload, GET /messages/pending      *)
(* selects the undelivered rows of the caller's device and then, in a      *)
(* second statement, marks whatever is undelivered by then.  No statement  *)
(* shares a transaction with another.  Devices are never deleted.          *)
(***************************************************************************)
EXTENDS Naturals, Sequences

CONSTANTS
  Post,         \* calls of POST /messages (a client's resend is a call of its own)
  Fetch,        \* calls of GET /messages/pending
  Peer,         \* who writes the rows that other nodes forward
  LogicalId, Device,
  Registered,   \* the devices in this node's devices table
  Lid,          \* Lid[p]: the logical_msg_id of call p
  Devices,      \* Devices[p]: its payloads' recipient devices, in order
  Caller        \* Caller[f]: the authenticated device of fetch f

ASSUME MailboxAssumption ==
  /\ Peer \notin Post
  /\ Registered \subseteq Device
  /\ Lid \in [Post -> LogicalId]
  /\ Devices \in [Post -> Seq(Device)]
  /\ Caller \in [Fetch -> Registered]

VARIABLES
  stored,     \* rows of messages: logical id, device and who inserted it
  delivered,  \* those with delivered_at set
  post,       \* the handlers of POST /messages
  fetch,      \* the handlers of GET /messages/pending; rows is what was selected
  precedes,   \* history: <<f, g>>, fetch f had ended before g's SELECT
  raced       \* history: rows inserted while a fetch of their device was
              \* between its two statements

vars == <<stored, delivered, post, fetch, precedes, raced>>

(* What the client makes of a call: "error" is an error status, or no      *)
(* answer at all.                                                          *)
Reply == {"ok", "error"}
Row == [lid : LogicalId, device : Device, by : Post \cup {Peer}]

TypeOK ==
  /\ stored \subseteq Row
  /\ delivered \subseteq stored
  /\ post \in [Post -> [pc : {"idle", "insert", "done"}, next : Nat, reply : Reply]]
  /\ \A p \in Post : post[p].next \in 1..(Len(Devices[p]) + 1)
  /\ fetch \in [Fetch -> [pc : {"idle", "mark", "answer", "done"},
                          rows : SUBSET stored, reply : Reply]]
  /\ precedes \subseteq Fetch \X Fetch
  /\ raced \subseteq stored

Init ==
  /\ stored = {}
  /\ delivered = {}
  /\ post = [p \in Post |-> [pc |-> "idle", next |-> 1, reply |-> "error"]]
  /\ fetch = [f \in Fetch |-> [pc |-> "idle", rows |-> {}, reply |-> "error"]]
  /\ precedes = {}
  /\ raced = {}

HasRow(l, d) == \E m \in stored : m.lid = l /\ m.device = d
Undelivered(d) == {m \in stored : m.device = d} \ delivered
BetweenStatements(d) == \E f \in Fetch : Caller[f] = d /\ fetch[f].pc = "mark"

Insert(m) ==
  /\ stored' = stored \cup {m}
  /\ raced' = IF BetweenStatements(m.device) THEN raced \cup {m} ELSE raced

FinishPost(p, r) == post' = [post EXCEPT ![p] = [@ EXCEPT !.pc = "done", !.reply = r]]
FinishFetch(f, r) == fetch' = [fetch EXCEPT ![f] = [@ EXCEPT !.pc = "done", !.reply = r]]

-----------------------------------------------------------------------------
(* Faulty variants, as in Outbox.tla.                                      *)

(* ON CONFLICT DO NOTHING here too: the row that is there may be another's. *)
InsertPayloadOrSkip(p) ==
  /\ post[p].pc = "insert"
  /\ post[p].next <= Len(Devices[p])
  /\ LET d == Devices[p][post[p].next]
     IN IF d \in Registered
        THEN /\ IF HasRow(Lid[p], d)
                THEN UNCHANGED <<stored, raced>>
                ELSE Insert([lid |-> Lid[p], device |-> d, by |-> p])
             /\ post' = [post EXCEPT ![p].next = @ + 1]
        ELSE FinishPost(p, "error") /\ UNCHANGED <<stored, raced>>
  /\ UNCHANGED <<delivered, fetch, precedes>>

(* SELECT with a LIMIT that the UPDATE does not have.                      *)
SelectLimited(f) ==
  /\ fetch[f].pc = "idle"
  /\ \E s \in SUBSET Undelivered(Caller[f]) :
       fetch' = [fetch EXCEPT ![f] = [@ EXCEPT !.pc = "mark", !.rows = s]]
  /\ precedes' = precedes \cup ({g \in Fetch : fetch[g].pc = "done"} \X {f})
  /\ UNCHANGED <<stored, delivered, post, raced>>

(* A failed UPDATE is logged and the rows are returned all the same.       *)
MarkLogged(f) ==
  /\ fetch[f].pc = "mark"
  /\ delivered' \in {delivered, delivered \cup Undelivered(Caller[f])}
  /\ fetch' = [fetch EXCEPT ![f].pc = "answer"]
  /\ UNCHANGED <<stored, post, precedes, raced>>

-----------------------------------------------------------------------------
(* POST /messages without a to_user_address of another node.               *)
BeginPost(p) ==
  /\ post[p].pc = "idle"
  /\ post' = [post EXCEPT ![p].pc = "insert"]
  /\ UNCHANGED <<stored, delivered, fetch, precedes, raced>>

(* One turn of the loop of insert_message.  An unregistered device violates *)
(* the foreign key, a row that is there already uniq_message_per_device.   *)
InsertPayload(p) ==
  /\ post[p].pc = "insert"
  /\ post[p].next <= Len(Devices[p])
  /\ LET d == Devices[p][post[p].next]
     IN IF d \in Registered /\ ~HasRow(Lid[p], d)
        THEN /\ Insert([lid |-> Lid[p], device |-> d, by |-> p])
             /\ post' = [post EXCEPT ![p].next = @ + 1]
        ELSE FinishPost(p, "error") /\ UNCHANGED <<stored, raced>>
  /\ UNCHANGED <<delivered, fetch, precedes>>

Confirm(p) ==
  /\ post[p].pc = "insert"
  /\ post[p].next > Len(Devices[p])
  /\ FinishPost(p, "ok")
  /\ UNCHANGED <<stored, delivered, fetch, precedes, raced>>

(* A statement fails, or the handler is dropped with its connection.       *)
PostFails(p) ==
  /\ post[p].pc = "insert"
  /\ FinishPost(p, "error")
  /\ UNCHANGED <<stored, delivered, fetch, precedes, raced>>

(* insert_federated_message for a call of another node (Inbox.tla).        *)
InsertFederated(l, d) ==
  /\ d \in Registered
  /\ ~HasRow(l, d)
  /\ Insert([lid |-> l, device |-> d, by |-> Peer])
  /\ UNCHANGED <<delivered, post, fetch, precedes>>

(* fetch_pending_messages: the SELECT ...                                  *)
Select(f) ==
  /\ fetch[f].pc = "idle"
  /\ fetch' = [fetch EXCEPT ![f] = [@ EXCEPT !.pc = "mark",
                                             !.rows = Undelivered(Caller[f])]]
  /\ precedes' = precedes \cup ({g \in Fetch : fetch[g].pc = "done"} \X {f})
  /\ UNCHANGED <<stored, delivered, post, raced>>

(* ... and the UPDATE, by device and not by what was selected.             *)
Mark(f) ==
  /\ fetch[f].pc = "mark"
  /\ delivered' = delivered \cup Undelivered(Caller[f])
  /\ fetch' = [fetch EXCEPT ![f].pc = "answer"]
  /\ UNCHANGED <<stored, post, precedes, raced>>

AnswerFetch(f) ==
  /\ fetch[f].pc = "answer"
  /\ FinishFetch(f, "ok")
  /\ UNCHANGED <<stored, delivered, post, precedes, raced>>

(* The UPDATE fails; or the handler or its answer is lost.                 *)
FetchFails(f) ==
  /\ fetch[f].pc \in {"mark", "answer"}
  /\ FinishFetch(f, "error")
  /\ UNCHANGED <<stored, delivered, post, precedes, raced>>

Next ==
  \/ \E p \in Post : BeginPost(p) \/ InsertPayload(p) \/ Confirm(p) \/ PostFails(p)
  \/ \E l \in LogicalId, d \in Device : InsertFederated(l, d)
  \/ \E f \in Fetch : \/ Select(f) \/ Mark(f) \/ AnswerFetch(f)
                      \/ FetchFails(f)

Spec == Init /\ [][Next]_vars

-----------------------------------------------------------------------------
Answered(f) == fetch[f].pc = "done" /\ fetch[f].reply = "ok"

(* A 200 to POST /messages vouches for each payload, and for rows that are *)
(* this call's own: with logical ids chosen by clients, a row under the    *)
(* same id that another call or another node wrote does not count.         *)
ConfirmedMeansOwnRows ==
  \A p \in Post : post[p].pc = "done" /\ post[p].reply = "ok" =>
    \A i \in DOMAIN Devices[p] :
      [lid |-> Lid[p], device |-> Devices[p][i], by |-> p] \in stored

(* No two answered fetches hand out a row twice unless they overlapped: a  *)
(* device that waits for each answer sees no duplicates, whatever it was   *)
(* sent meanwhile and whichever fetches failed in between.                 *)
HandedOutOnce ==
  \A f, g \in Fetch : <<f, g>> \in precedes /\ Answered(f) /\ Answered(g) =>
    fetch[f].rows \cap fetch[g].rows = {}

(* A row is marked without having been selected by any fetch only if it    *)
(* was inserted while a fetch of its device was between its two            *)
(* statements; failing, overlapping and cut-off fetches add no other way.  *)
MissedOnlyInTheGap ==
  \A m \in delivered : m \in raced \/ \E f \in Fetch : m \in fetch[f].rows

(* docs/DATABASE.md calls delivered_at the time of delivery; the UPDATE    *)
(* also marks rows that the SELECT before it has not returned.             *)
DeliveredWasFetched ==
  \A m \in delivered : \E f \in Fetch : m \in fetch[f].rows

(* Why they hold: the payloads before next are in; what an answer returns  *)
(* was marked before; what a fetch is about to mark it has selected, or it *)
(* came in between.                                                        *)
PostInv(p) ==
  /\ post[p].pc = "idle" => post[p].next = 1
  /\ post[p].pc = "insert" \/ (post[p].pc = "done" /\ post[p].reply = "ok") =>
       \A i \in DOMAIN Devices[p] :
         i < post[p].next \/ post[p].pc = "done" =>
           [lid |-> Lid[p], device |-> Devices[p][i], by |-> p] \in stored

FetchInv(f) ==
  /\ \A m \in fetch[f].rows : m.device = Caller[f]
  /\ fetch[f].pc = "idle" => fetch[f].rows = {}
  /\ fetch[f].pc = "answer" \/ Answered(f) => fetch[f].rows \subseteq delivered
  /\ fetch[f].pc = "mark" => Undelivered(Caller[f]) \subseteq fetch[f].rows \cup raced
  /\ \A g \in Fetch : <<g, f>> \in precedes =>
       /\ fetch[g].pc = "done"
       /\ Answered(g) => fetch[g].rows \cap fetch[f].rows = {}

(* The inductive invariant of MailboxProofs.tla.                           *)
IInv == /\ TypeOK /\ MissedOnlyInTheGap
        /\ \A p \in Post : PostInv(p)
        /\ \A f \in Fetch : FetchInv(f)
=============================================================================
