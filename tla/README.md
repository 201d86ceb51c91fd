# Verification of the HushNet backend

HushNet is a messaging backend of independent nodes. A node serves its own users
over HTTP and a WebSocket, keeps everything in one PostgreSQL database, and
forwards messages for users of other nodes to those nodes ("server to server",
S2S). This directory holds TLA+ models of that program, TLC configurations that
check them on small instances, and TLAPS proofs for every value of their
constants. Paths are given from the repository's root.

## The system

| Component | State | Operations | Talks to |
|---|---|---|---|
| **Outbox** of a sending node (`src/federation/outbox.rs`, `handle_federated_message` in `src/controllers/messages_controller.rs`) | `federation_outbox` rows; spawned tasks and the fetched batch, in memory | enqueue + immediate task; poll every 10 s; deliver; mark delivered; record failure with backoff; `POST /s2s/ack` | the peer's `/s2s/messages`, the peer cache |
| **Inbox** of a receiving node (`receive_messages` in `src/controllers/federation_controller.rs`) | `users` (local and shadow), `devices`, `chats`, `messages` | one handler per call: resolve recipient, upsert shadow user, upsert shadow device, find or create the chat, insert each payload, answer | called by the peer's outbox; its rows are read by the mailbox |
| **Node authentication** (`src/middlewares/node_auth.rs`) | `used_node_nonces`, `federation_nodes` | timestamp window, peer lookup, block flag, signature, nonce claim; purge by the outbox worker | central registry |
| **Peer directory** (`resolve_node`, `federated_keys`, `resolve_peer`, `outbox.rs`, `registry/register.rs`) | `federation_nodes`; the registry's record of each node | cache lookup, registry fetch, upsert; registration at startup | central registry, node keys |
| **Mailbox** (`send_message`, `fetch_pending_messages`) | `messages.delivered_at` | insert a local fan-out; select pending rows, then mark them | clients, triggers |
| **Sessions** (`session_controller.rs`, `session_repository.rs`, `receive_session`) | `pending_sessions`, `sessions`, `chats`, the connection pool | create (in a transaction that the inserts do not use), list, confirm | peers, clients |
| **Enrollment** (`create_user`, `create_device`, `enrollment_token_repository.rs`, `services/auth.rs`) | `users`, `used_tokens`, `devices` | make a user and its token; check the token, insert the device, record the token | clients |
| **Prekeys** (`get_device_bundle`, `federated_keys`) | `devices.one_time_prekeys` | read bundles, locally and from peers | peers |
| **Realtime** (`realtime/`, triggers in `sql_models/seed.sql`) | the listener's connection, a broadcast channel, a task per socket | NOTIFY, listen, broadcast, filter by user, forward to sockets | database, clients |
| **Node keys** (`utils/node_keys.rs`) | a key file | load, or generate and save | peer directory |
| **Device authentication**, **users**, **chats**, **bootstrap** | none of their own, or read only | | |

What is hard in it:

- *Nothing claims an outbox row.* The immediate task and tasks of successive
  polls may deliver the same entry at the same time; each writes back a count it
  read long before, and updates the row by id whatever its status is by then.
- *A call's outcome is uncertain.* After 10 s the sender gives up on a call whose
  handler may go on; a handler stops between any two statements when its
  connection is gone; a retry meets what the first try left behind.
- *No statement sequence is a transaction.* The receiving handler runs four
  statements and one insert per device, each visible to all others at once. Three
  of them look for a row and insert it if it is missing; of handlers that overlap
  there all but one fail.
- *Deduplication rests on two keys*: `(logical_msg_id, to_device_id)` for
  messages, `(node_id, nonce)` for requests; the second is forgotten after 5 minutes.
- *Errors are often dropped* (`let _ =`), so a write may be lost and work repeated.
- *A peer's row is filled once and never refreshed*, by three functions that treat
  a failed lookup, an incomplete answer and the block flag each in their own way.
- *Nothing acknowledges an event.* A notification is gone when the listener is not
  connected, a socket has not subscribed yet, or a task falls behind the channel.

What makes each part correct: an entry is given up only after its tries failed
and leaves the queue in the end (outbox); a 200 vouches for every device (inbox);
"delivered" at the sender means stored at the peer, and a message the peer can
take gets there (both); a signed request acts once (node authentication); a
client that was told 200 has its message stored, and a pending message is handed
out (mailbox); a handshake leads to one chat and one session (sessions); a used
token enrols nobody and a 201 is true (enrollment); a blocked peer is shunned and
a known peer is recognised (peer directory); a client learns of what concerns its
user, in order (realtime).

## Modules

| Module | What it is |
|---|---|
| `S2S` | constants both halves share: entries, task slots, logical ids |
| `Outbox` | the sending half; the peer's answers are the environment's |
| `Inbox` | the receiving half; the calls are the environment's |
| `Federation` | `Outbox` and `Inbox` joined by calls, with a budget of faults |
| `DeliveryContract` | what `POST /messages` promises for a remote recipient, abstractly |
| `NodeAuth` | authentication of S2S requests and the nonce table |
| `Mailbox` | the messages table as local clients use it: send to a local user, fetch pending |
| `Sessions` | handshakes on the recipient's node, and the pool of connections |
| `PeerDirectory` | a peer's cached row, the handlers that use it, the registry, and the peer's key file |
| `Enrollment` | users, enrollment tokens and devices |
| `Realtime` | database notifications on their way to WebSocket clients |
| `MCRefusals` | `Federation` with a record of the calls a peer refuses |
| `HalvesProofs` | theorems about `Outbox` and `Inbox` |
| `FederationProofs`, `NodeAuthProofs`, `MailboxProofs`, `SessionsProofs`, `PeerDirectoryProofs`, `EnrollmentProofs`, `RealtimeProofs` | theorems about the module of that name |
| `MCFederation`, `MCNodeAuth`, `MCMailbox`, `MCSessions`, `MCPeerDirectory`, `MCEnrollment`, `MCRealtime` | values of the constants for TLC |

In each module a section "Faulty variants" holds operations with one plausible
slip each. Nothing uses them; `PROJECT.json` pairs every checked property with
one that makes it fail, so that a property that cannot fail is noticed.

### Outbox

`row[e]` is the row of entry `e`: its status (`none` before it is written), its
`attempt_count`, and `due`, which stands for `next_attempt <= NOW()`. Time is
abstract: `RecordFailure` makes a row not due and `BackoffElapses` makes it due
again, whatever the delay. `batch` is what the worker's poll returned and has not
spawned yet, each with the count read then. `task[t]` is a spawned task: it looks
up the target (`lookup`, worker only), sends (`send`), waits for the answer
(`wait`), and marks the row (`mark`) or records a failure (`fail`). The immediate
task starts at `send` because it holds the URL, and ends silently on an error.
`Enqueue` is the whole of `handle_federated_message` after its early returns; its
second alternative is a client that hangs up between the insert and the spawn.
`LoseWrite` is an UPDATE that fails with its error dropped. `failures` is a
history variable and is never read by an operation.

`Fetch` takes all due rows, or any `BatchLimit` of them if there are more: the
order by `next_attempt` is left open. It fires only when the former batch is
spawned, as in the loop of `run`, but does not wait for the tasks.

### Inbox

`serve[t]` is one run of `receive_messages`; its actions are its SQL statements,
or half of one. An `INSERT ... ON CONFLICT` looks for a row under the key it names
(`UpsertShadowUser`, `UpsertShadowDevice`) and, finding none, inserts
(`InsertShadowUser`, `InsertShadowDevice`). In between another handler may have
inserted the row. PostgreSQL looks again only if the conflict is in the key named;
here it is in another one. The upsert of a user names `federated_address` and meets
`users.username UNIQUE`, which a namesake's row violates, but also the same
sender's. The upsert of a device names `id` and meets `UNIQUE (user_id,
identity_pubkey)` (`seed.sql:28`). Either is an error and a 500. Which of its
indexes PostgreSQL enters first is its own affair; the model takes the outcome
that costs a try whenever the row came in between, and the other outcome is that
of a handler that looks a moment later.
`FindChat` and `CreateChat` are the two statements of
`get_or_create_direct_chat`, with the same gap. `StorePayload` is one turn of the
loop: a foreign key violation ends the handler with a 500, a known pair of
logical id and device is skipped. `DbError` is a failed statement anywhere,
`HandlerEnds` a dropped connection or a dead process. `CreateUser` is here
because local and shadow users share one namespace.

Left out: a sender that writes from several devices, or one whose device has
changed its key, and deletion of users, devices and chats, which no code does.

### Federation

Slot `t` joins `task[t]` to the handler `serve[t]` its call started. `Call` is
the request's arrival, `Answered` the response; `TimesOut` lets the task go on
while the handler runs; `HungUp` is a call whose handler ended without an
answer. A slot is reused only when both sides are idle, so a lingering handler
keeps its slot: this bounds the calls in flight by the number of slots and
nothing else. Every loss, rejection, timeout, cut-off, failed statement and
restart counts one of `MaxFaults` faults. A peer whose database fails or that
restarts is `PeerDbFails` and `CutOff`; the sender's is `SenderDbFails` and
`SenderRestarts`. A 401 of the peer's node authentication (`CallRejected`) is a
fault here; when it is given is `NodeAuth`'s business. To the sender every answer
but a 2xx is the same.

`AckArrives` takes acknowledgements only for messages the peer has: nothing in
this repository calls `/s2s/ack`, and a peer that acknowledges what it does not
have is outside the model.

### DeliveryContract

Two variables: the phase of each accepted message and the pairs of logical id and
device in the recipient's mailbox. A message reaches devices one at a time and
each once; it may be confirmed only when complete. `Federation` implements it
with `phase` as the status column and `inbox` as the messages table
(`ImplementsContract`). The contract lets `GiveUp` follow `Confirm` because the
code does (see the findings).

### NodeAuth

A clock, requests with the peer's timestamps, copies of them in handlers, and
the nonce table with `used_at`. `Tick` does not let a handler take longer than
`Slack`: one registry call (10 s) and three waits for a pooled connection (30 s
each, sqlx's default acquire timeout) at most. The code's limits in seconds are
60, 300 and about 100, which satisfy the module's assumption `Retention >= 2 *
Window + Slack`; the proof shows that this is all that is needed. The statement
time of a query is assumed small. `SetBlocked` is the operator, who changes
`is_blocked` in the database; no code does.

### Mailbox

`stored` is the messages table: logical id, device, and who wrote the row (a
call of `POST /messages`, or a peer through `Inbox`'s insert, here
`InsertFederated`). `post[p]` walks the loop of `insert_message` one INSERT per
step; unlike the federated insert it has no `ON CONFLICT`, so a client that
resends is refused with a 500 at the first device that has its row (the database
keeps `uniq_message_per_device`). `fetch[f]` is one
`GET /messages/pending`: `Select` is its SELECT, `Mark` the UPDATE of everything
undelivered by then, `AnswerFetch` the 200, and `FetchFails` an UPDATE that
fails, or an answer that never arrives after the rows were marked.

`precedes` and `raced` are history variables that no operation reads: which
fetches had ended before another's SELECT, and which rows came in between the
two statements of a fetch of their device.

### Sessions

`create[c]` is a run of `create_session`, or of `receive_session` for the calls
in `Remote`; `relay[c]` is what the remote client's node makes of its one call
(there is no outbox for handshakes). `confirm[q]` is a run of `confirm_session`:
find the pending row, find the chat or make it, upsert the session, delete the
pending row, each a statement of its own. The row is found by its id for the
device that calls (`Target`, `Confirmer`, `Owns`) and then not looked at again:
chat and session are those of the two devices in the body (`Body`), which the code
does not compare with the row. So `NoHandshakeLost` says that a row goes only with
a session that a confirmation of it named; that this is the row's own session needs
a client that names the row's devices, and is the theorem
`OwnSessionIsEstablished`. `pending[<<c, j>>]` is the row of the
j-th element of call `c`; a client's retry is another call and makes rows of its
own, since nothing makes a pair of devices unique there.

The pool is not a variable. A statement takes a connection for the one step it
is; only the transaction of a local `create_session` keeps one over several
steps. So a connection is free when fewer transactions are open than the pool
has connections (`ConnectionFree`), and a handler that waits in vain gives up
after sqlx's acquire timeout (`CreateTimesOut`, `ConfirmTimesOut`).
`ChatByInbox` is the chat a forwarded message creates.

### PeerDirectory

`row` is the row of one peer in `federation_nodes`; what is written into it is
told apart by the key pair it was registered with, `0` being an empty string.
The other half is the peer: `LoadOrGenerate` and `WriteKeys` are
`load_or_generate` with its file created but not yet written in between (`Torn`:
a start with such a file ends in an error), `Register` is
`register_with_registry`, which looks at the status of no answer but the first,
`NodeStops` is a crash at any of these points, and `LoseKeys` a lost volume.

`handler[h]` is a use of the row: `Kind[h]` says whether by `resolve_node`
(`send`), `federated_keys` (`keys`), `resolve_peer` (`inbound`) or the outbox
worker (`worker`). The kinds differ as the code does: `resolve_node` takes a
failed lookup for a miss (`LookupMiss` although the row is cached) and does not
look at `is_blocked` after its upsert; the worker never looks at it; `resolve_peer`
refuses an answer of the registry that lacks a field and the other two store an
empty string. `used` and `badsig` are what follows: the peer is called, or its
request is let through, or a signature does not fit. `SignedPrefix` is the part
of the path that `signed_get` signs and `signed_post` does not, and the router of
the node called never sees, whichever of the two nodes calls: `get` says that an
inbound request is the peer's own key fetch.

`Block` and `Unblock` are the operator at the database. `began`, `asked` and
`shunned` in a handler, `lost` and `omitted` are history variables.

### Enrollment

A token is known by the user it was made for; `expired` holds those that no
longer decode. `call[c]` is a run of `create_device`: `CheckToken` (the lookup in
`used_tokens`, the decoding, the prekey's signature), `InsertDevice`,
`RecordToken`, each its own step, with a failed statement (`StatementFails`) or a
dropped handler (`CutOff`) at any of them. `CheckToken` compares the token with
the user only if it decodes, as the code does; a string in `Other` was never
handed out and never decodes. `RecordToken` may write the row
although its client is told otherwise. A client that repeats a call is another
call. `Bundle` and `AuthenticatedAs` are what the table serves.

### Realtime

`log` is the sequence of notifications in commit order, each the user it names: a
row in `messages`, `devices` or `pending_sessions` notifies one user, a row in
`sessions` both (equal notifications of one transaction are one). `listener` is the
LISTEN task; while it is not `listening`, `log` moves on without it. `sent` is the
broadcast channel's history, of which a task can read the last `Capacity` events;
`conn[c]` is a client's socket with the task behind it, which reads from `pos` on
(`Dispatch`, or `Lag` when what it was to read is overwritten). `client[c]` is
the client of docs/REALTIME.md: an event makes it fetch all there is. `excused`
is a history variable: the rows whose event was lost, at one of three named
places, since the client's last fetch.

## Runs

| Run | Bounds | Shows |
|---|---|---|
| `resend` | a message to 2 devices and its resend under one id, 2 slots, 2 tries, a poll of one row, 1 fault | types; a 200 means all rows; rows refer to what exists; delivered implies stored; the inductive invariant of the inbox; refinement of the contract |
| `delivers` | 1 message, 2 slots, 5 tries, 1 fault, fair | no early abandonment; no entry queued without a try; every copied count is earned; the nodes' own races cost a message at most three tries; the inductive invariant of the two nodes; a deliverable message is delivered and stays so; every entry leaves the queue, also when a user of the peer takes the sender's name |
| `node_auth` | 2 requests, 2 handlers, window 1, retention 3, slack 1, clock up to 5 | at most one acceptance; the inductive invariant, types included |
| `mailbox` | a message to 2 devices and its resend, forwarded rows under 2 ids, 3 fetches of one device | a 200 vouches for rows of its own; no duplicates for fetches in turn; nothing is missed but what came between SELECT and UPDATE; the inductive invariant, types included |
| `sessions` | 2 local calls (one for a device that does not exist) and a remote one, 2 confirmations of one row, one of which names another device, pool of 2, fair | accepted means offered to all; no handshake lost but for the one a confirmation names; sessions have chats; the inductive invariant, types included; every call is answered |
| `peers` | one handler of each kind, 2 key pairs, API URLs with the default path | blocks hold; a miss yields a registration at least as new; columns agree; only clients leave blanks; until a key file is lost no signature fails but that of a key fetch, and no key fetch is let through, in either direction; the inductive invariant, types included |
| `enrollment` | 3 calls, 2 users, 2 keys, 1 unknown string | the inductive invariant, types included; a recorded token enrols nobody; a 201 is true and stays true; a token is used up only for a device; a half-done enrolment is never repeated with success |
| `realtime` | 1 client, 2 users, 5 notifications, capacity 2, fair | no event lost but in three places; own events, once, in order; the inductive invariant, types included; a row is fetched in the end |
| `delivered_overwritten` | 1 message | violated: `DeliveredIsFinal` |
| `namesakes` | 2 senders with one name, 4 tries, no fault | violated: `NamesakesLoseNothing` |
| `refusals` | 1 message to an unknown user, 1 slot, 3 tries, 1 fault | violated: `SomeRefusalIsFinal` |
| `marked_unread` | as `mailbox` | violated: `DeliveredWasFetched` |

Why the bounds are enough. Two slots give every overlap of two tries of one entry,
or of tries of two entries; a third task can only repeat what one of the two does,
because tasks meet in the tables alone. The tables are where `resend` looks: two
entries under one id to the same two devices, a fan-out that can be cut in the
middle, and a poll that leaves one of two rows. Two tries are enough there, since
its properties are about what is stored and not about how often. `delivers` is
about the tries: five are one fault and the three races (shadow user, its device,
chat) with one to spare, for one message to one device. The number three is exact:
with `faults + 2` in its place TLC finds `FewFaultsLoseNothing` violated by four
tries. The limit of a poll bites in `resend` only; liveness is not checked with
it. `node_auth` uses the least retention its assumption allows, so that one tick
less lets a late copy in, and a clock long enough for a nonce to be purged and its
request to be copied again. Three fetches are two in turn with a third that
overlaps either; `mailbox` fetches one device only because fetches of two devices
touch disjoint rows. A pool of two with two local calls is the smallest in which
every connection is held by a call that waits for another. The two confirmations
race for one row and one chat, which a forwarded message may create first;
confirmations of two rows can only race for the chat. Their two bodies, the row's
devices and another one, are the cases a deletion depends on. Two key pairs are an
old registration and a new one, and the handlers of `peers` meet in one row, so
that one of each kind shows every pair of them but two of one kind; the proofs
have any number. Three enrolments are a lost call, a repetition and a third
client. Five notifications fill a channel of two, make a task lag, and leave some
to read; clients share nothing they write, so one meets all there is. Task slots
are symmetric in the safety runs; liveness runs use no symmetry. Deadlock is not
checked: a behaviour may end with all messages settled.

The entries of `resend` can all be decoded. What happens to one that cannot is
in `Outbox` (`Undecodable`) and covered by the theorems of `HalvesProofs`.

### Where code and documents disagree

Four runs find a violation of what a document says, quoted in `PROJECT.json`
under `findings`: a recorded delivery can be overwritten by a late failure; two
users with one name on two nodes cannot both write to a node; an entry that the
peer refuses, with a 404 or a 401, is sent again like any other (`docs/API.md:1071`
and `1075` say that it is not); and a message that
came in between the two statements of a fetch has a `delivered_at` although
nobody was given it.

Further disagreements that were met while modelling and have no run:

- Two polls that read the same `attempt_count` record two failed tries as one, so
  an entry may be tried more than 10 times; `sql_models/federation.sql:72` says
  "After 10 failed attempts the entry is marked 'failed' and abandoned". That it
  is never less is a theorem.
- The delays are 20, 40, ..., 3600 s, since the shift is applied to the count
  after the failure; `docs/API.md:801`, `federation.sql:71` and `outbox.rs:18` begin
  with 10 s.
- `signed_get` signs the path of the whole URL, `/api` included, and `signed_post`
  only the part within the API; `client.rs:175` says "both sides of the signature use
  the same string". With the path that `NODE_API_URL` has by default (`main.rs:39`)
  and a proxy that strips it (`docs/API.md:1138`) the peer sees the shorter one and
  every key fetch fails. That it does is the property `SignaturesVerify` of the run
  `peers`, which has this path.
- One-time prekeys "are consumed after retrieval" (`docs/API.md:328`); every fetch is
  a SELECT, and no code removes one.
- A token that does not decode, an expired one included, is not compared with the
  user (`device_controller.rs:90`), so its age makes no difference here.
- Two calls that overlap both enrol a device with one token, since the token is looked
  up first and recorded last (`device_controller.rs:53`, `119`); `docs/DATABASE.md:439`
  says that the table "Prevents replay of one-time tokens".
- A file whose writing was interrupted stops every later start (`node_keys.rs:45`);
  someone has to remove it.

### Fairness

`Federation!Fairness` has weak fairness of the poll, of each backoff's end and of
each slot's progress (`Progress(t)`: spawning, the task's next step, the call,
the handler's next statement, the answer). The worker's loop never ends, tokio
runs every spawned task, and statements return: that is what the code's
scheduling gives. There is no fairness of faults, of clients, of sign-ups or of
acknowledgements. Weak fairness suffices since a slot's step stays enabled until
the slot takes it.

`Sessions!Fairness` has weak fairness of each handler's next step, the timeout
included: tokio runs every handler, and the pool serves or refuses every wait.
Which of the two it does is left open, so the liveness shown does not rest on a
connection ever becoming free. Clients, failures and relays have no fairness.

`Realtime!FairSpec` has weak fairness of `Forward` (the listener's loop reads what
is there), of each socket task's next read, whether it finds an event or a lag,
of a client's reading of its socket, and of a fetch that an event made due, which
is what docs/REALTIME.md asks of a client. Nothing makes a client connect or the
listener come back, so `EventuallyFetched` ends where the socket closes, the
listener stops listening or the event is lost.

## Proofs

All are safety properties, for any number of entries, tasks, devices, tries and
faults, from the assumptions named in the modules (`S2SAssumption`,
`OutboxAssumption`, `InboxAssumption`, `FaultsAssumption`, `NodeAuthAssumption`,
`MailboxAssumption`, `SessionsAssumption`, `PeerDirectoryAssumption`,
`EnrollmentAssumption`, `RealtimeAssumption`). For each module the inductive
invariant is itself a theorem.

- **Outbox.** `OutboxIInv` is type correctness, `PendingHasTriesLeft`,
  `AbandonedOnlyAfterMaxFailures` and `CountsAreEarned`. The last is the
  strengthening: a count travels from the row to the batch to a task and back, so
  the claim about the row at the end of the way needs a bound on every copy on it.
  Type correctness is not inductive by itself either: the count given to a new
  task is in range only because what was fetched had a try left. Theorems
  `OutboxTypeCorrect`, `NeverAbandonedEarly`, `TriesLeft`, `EveryCountIsEarned`.
- **Inbox.** `InboxIInv` says what a handler relies on at each statement
  (`HandlerInv`); other handlers keep it because the tables only grow (`Grows`)
  and a step moves one handler (`Moves`). Theorems `InboxInductive`,
  `InboxTypeCorrect`, `OkIsComplete`, `RowsRefer`.
- **Federation.** `StepsProject`: a joint step is a step or a stutter of each
  half; hence `NodesKeepTheirSpecs`, and the halves' invariants hold of the whole.
  `IInv` has three parts on top of theirs. `CallInv` joins the two sides of a
  slot: a slot free for a call has no handler, and a handler that is waited for
  serves its task's entry. `LinkInv` adds what a pending answer and a delivered
  row vouch for; `DeliveredIsStored` and `Refinement` follow from it.
  They assume `OneMessagePerLogicalId`: a client uses a logical id again only to
  resend the same message. Without it the peer skips a device that has a row
  under the id, whatever that row holds.
  `BudgetInv` is the argument for `FewFaultsAreSurvived`, which needs no such
  assumption. A step that is not a fault can make a try of a deliverable message
  fail in one way only: several handlers found a row missing (the shadow user, its
  device or the chat), one inserts it, and the unique indexes fail the others. All
  of these are doomed at once, by the step that inserts the row, while their counts
  are at most one ahead of the budget so far. So `Budget(e)`, the faults and one more
  for each of the three rows that is there, bounds the row's count and every copy of
  it, and one more than the budget bounds the count of a try that is not doomed,
  with any number of tasks. `HandlerMissed` says that a handler is about to insert
  only what it has just not found, `HandlerSucceeds` that one of a deliverable
  message refuses it for no other reason than being late; the latter rests on the
  namespace: its sender's name is no local user's, and every shadow user is some
  entry's sender.
- **NodeAuth.** `AcceptedInv`: the nonce of an accepted request is in the table,
  or all its copies are too old, those past the timestamp check included.
  Theorems `TypeCorrect`, `AtMostOnce`.
- **Mailbox.** The tables only grow. `PostInv`: the payloads before `next` are
  in, under the call's own name. `FetchInv`: what an answer returns was marked
  before, and what a fetch is about to mark it has selected or it is in `raced`;
  the latter is what `MissedOnlyInTheGap` needs when `Mark` takes rows the fetch
  never saw. Theorems `ConfirmedIsStored`, `NoDuplicates`, `NoOtherLoss`.
- **Sessions.** The three properties are inductive with `CreateInv` (the
  elements before `next` have rows) and `ConfirmInv` (the row found
  belongs to the caller, the chat of the body before its session, the session before
  the delete), because chats and sessions only grow
  and a pending row never becomes unwritten (`Grows`). Theorems
  `AcceptedIsOffered`, `HandshakesSurvive`, `OwnSessionIsEstablished`,
  `SessionsHaveChats`. The third has a hypothesis, that clients name the devices of
  the row they confirm: no code of the node makes them.
- **Peer directory.** `IInv` puts each property on the row together with the same
  property of what a handler is about to write there (`HandlerInv`): the URL and
  the key it carries belong to one registration, no older than its miss.
  `AnnouncedInv` says that until a file is lost every key that ever left the peer,
  into the registry, the row or a handler, is the one in its file, for the file is
  written before the key is announced. The path of the API URLs is any:
  `KnownPeersVerify` covers nodes with and without one. Theorems `BlocksHold`,
  `MissesAreFresh`, `ColumnsAgree`, `BlanksAreClients`, `KnownPeersVerify`.
- **Enrollment.** `RowInv`: each row of `devices` has what its call brought, the
  call is past its insert and was not late, a user has a key once, and of the rows
  with a key one is the last. The last clause looks like arithmetic, but it is what
  makes the CHOOSE of `AuthenticatedAs` denote a row, and keeping it in the
  invariant spares an induction over the table: a new row is the last of its key.
  `CallInv`: what a late call, one past its insert and a confirmed one may rely on;
  other calls keep it because rows and used tokens only come to be (`CallsKeep`).
  Theorems `SpentTokensAreRefused`, `ConfirmedDevicesAreEnrolled`,
  `SpentTokensHaveDevices`, `HalfEnrolledDevicesAreFinal`.
- **Realtime.** An event has four places: the database, the channel beyond a
  task's place, the wire, a due fetch. `NothingElseIsLost` is inductive once the
  channel is known to hold what the listener read, in order (`SentInv`), and a
  task to have passed on nothing beyond its place (`TaskInv`). Theorems
  `NoOtherLoss`, `OwnAndOrdered`.

Every safety property of a passing run is a theorem. Only model-checked are the
liveness properties (`EventuallyDelivered`, `EventuallySettled`,
`EventuallyAnswered`, `EventuallyFetched`), since TLAPS does not do liveness under
fairness. No module declares a RECURSIVE operator.

## Not modelled

- Headers, JSON, base64 and the cryptography itself (a signature is valid or the
  request is refused); rendering of answers other than their class; TLS and the
  proxy in front of a node.
- Endpoints that only read: lists of users, devices and chats, login, the pending
  sessions. The stateless part of device authentication.
- Consumption of one-time prekeys: there is no such code.
- Time as a quantity, outside `NodeAuth`: backoff delays and token lifetimes are
  events that happen.
- The task of a socket whose client left: it lingers until a write fails, seen by
  nobody. Two sockets of one client.
- `src/db/` and `controllers/keys_controller.rs`, which are not reachable from
  `main`.

Components and their status are listed in `PROJECT.json`. So are the hazards of
the code, and for some of them no property: the code lets them happen, so that a
property could only repeat what it does. These are pending sessions left by a call
that failed or made twice by one that was repeated, a peer that stays refused
after it lost its key file, a block set while a row is being resolved, two
overlapping calls with one token, one key enrolled for two users, and the events
of the time after the listener died. The models have all of these behaviours, and
the properties around them say that there are no others.

## Plan

1. (done) `Outbox`, `Inbox`, `Federation`, `DeliveryContract`, `NodeAuth`.
2. (done) `Mailbox` and `Sessions`.
3. (done) `PeerDirectory`, `Enrollment` and `Realtime`.
4. (done) The safety invariants of all of these as theorems.
5. Open: an abstract queue per device that `Mailbox` implements; `Realtime`
   composed with `Mailbox`, so that a client's fetch is the two statements it is;
   action properties of the tables, such as that a delivered row leaves that state
   only by a failure of a try that was under way.
