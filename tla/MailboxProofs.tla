---------------------------- MODULE MailboxProofs ----------------------------
(***************************************************************************)
(* The safety invariants of Mailbox.tla for any number of calls, devices   *)
(* and logical ids.  The invariant IInv has a part for the handlers of     *)
(* POST /messages (PostInv: the payloads before next are in) and one for   *)
(* the fetches (FetchInv); each action moves one of the two sides and      *)
(* meets the other in the tables, which only grow.                         *)
(***************************************************************************)
EXTENDS Mailbox, TLAPS

FetchSide == MissedOnlyInTheGap /\ \A f \in Fetch : FetchInv(f)
PostSide == \A p \in Post : PostInv(p)

PostRecord == [pc : {"idle", "insert", "done"}, next : Nat, reply : Reply]
PostType == post \in [Post -> PostRecord]
FetchRecord(s) == [pc : {"idle", "mark", "answer", "done"}, rows : SUBSET s, reply : Reply]

(* The invariant holds at the start.                                       *)
LEMMA InitIInv == Init => IInv
BY MailboxAssumption
   DEF Init, IInv, TypeOK, Reply, MissedOnlyInTheGap, PostInv, FetchInv, Answered

(* The handler of p goes to h, for whose claims the table has the rows.    *)
LEMMA PostMoves ==
  ASSUME IInv, NEW p \in Post, NEW h \in PostRecord,
         h.pc # "idle", h.next \in 1..(Len(Devices[p]) + 1),
         stored \subseteq stored',
         post' = [post EXCEPT ![p] = h],
         h.pc = "insert" => \A i \in DOMAIN Devices[p] : i < h.next =>
           [lid |-> Lid[p], device |-> Devices[p][i], by |-> p] \in stored',
         h.pc = "done" /\ h.reply = "ok" => \A i \in DOMAIN Devices[p] :
           [lid |-> Lid[p], device |-> Devices[p][i], by |-> p] \in stored'
  PROVE  /\ PostType'
         /\ \A q \in Post : post'[q].next \in 1..(Len(Devices[q]) + 1)
         /\ PostSide'
<1>1. PostType' /\ \A q \in Post : post'[q].next \in 1..(Len(Devices[q]) + 1)
  BY DEF IInv, TypeOK, PostType, PostRecord
<1>2. ASSUME NEW q \in Post, q # p PROVE PostInv(q)'
  <2>1. post'[q] = post[q] /\ PostInv(q)
    BY <1>2 DEF IInv, TypeOK
  <2> QED
    BY <2>1 DEF PostInv
<1>3. PostInv(p)'
  <2>1. post'[p] = h
    BY DEF IInv, TypeOK
  <2> QED
    BY <2>1 DEF PostInv
<1> QED
  BY <1>1, <1>2, <1>3 DEF PostSide

(* Ending a call keeps its record but for the place and the reply.         *)
LEMMA FinishPostRecord ==
  ASSUME IInv, NEW p \in Post, NEW r \in Reply, FinishPost(p, r)
  PROVE  \E h \in PostRecord : /\ post' = [post EXCEPT ![p] = h]
                               /\ h.pc = "done" /\ h.reply = r
                               /\ h.next = post[p].next
<1> DEFINE h == [post[p] EXCEPT !.pc = "done", !.reply = r]
<1>1. post[p] \in PostRecord
  BY DEF IInv, TypeOK, PostRecord
<1>2. h \in PostRecord /\ h.pc = "done" /\ h.reply = r /\ h.next = post[p].next
  BY <1>1 DEF PostRecord
<1>3. post' = [post EXCEPT ![p] = h]
  BY DEF FinishPost
<1> HIDE DEF h
<1> QED
  BY <1>2, <1>3

(* A new row keeps the fetch side: whoever is about to mark it has it in   *)
(* raced.                                                                  *)
LEMMA InsertKeeps ==
  ASSUME IInv, NEW m \in Row, Insert(m), ~HasRow(m.lid, m.device),
         UNCHANGED <<delivered, fetch, precedes>>
  PROVE  /\ stored' \subseteq Row /\ delivered' \subseteq stored' /\ raced' \subseteq stored'
         /\ fetch' \in [Fetch -> FetchRecord(stored')]
         /\ precedes' \subseteq Fetch \X Fetch
         /\ FetchSide'
<1>1. stored \subseteq stored' /\ raced \subseteq raced' /\ stored' = stored \cup {m}
  BY DEF Insert
<1>2. /\ stored' \subseteq Row /\ delivered' \subseteq stored' /\ raced' \subseteq stored'
      /\ precedes' \subseteq Fetch \X Fetch
  BY DEF Insert, IInv, TypeOK
<1>3. fetch' \in [Fetch -> FetchRecord(stored')]
  BY <1>1 DEF IInv, TypeOK, FetchRecord
<1>4. MissedOnlyInTheGap'
  BY <1>1 DEF IInv, MissedOnlyInTheGap
<1>5. ASSUME NEW f \in Fetch PROVE FetchInv(f)'
  <2>1. FetchInv(f)
    BY DEF IInv
  <2>2. ASSUME fetch[f].pc = "mark"
        PROVE  Undelivered(Caller[f])' \subseteq fetch[f].rows \cup raced'
    <3>1. Undelivered(Caller[f]) \subseteq fetch[f].rows \cup raced
      BY <2>1, <2>2 DEF FetchInv
    <3>2. m.device = Caller[f] => m \in raced'
      BY <2>2 DEF Insert, BetweenStatements
    <3> QED
      BY <1>1, <3>1, <3>2 DEF Undelivered
  <2> QED
    BY <2>1, <2>2 DEF FetchInv, Answered
<1> QED
  BY <1>2, <1>3, <1>4, <1>5 DEF FetchSide

(* What the post side and the fetch side say, put together again.          *)
LEMMA Together ==
  ASSUME stored' \subseteq Row, delivered' \subseteq stored', raced' \subseteq stored',
         precedes' \subseteq Fetch \X Fetch,
         fetch' \in [Fetch -> FetchRecord(stored')],
         PostType', \A q \in Post : post'[q].next \in 1..(Len(Devices[q]) + 1),
         PostSide', FetchSide'
  PROVE  IInv'
BY DEF IInv, TypeOK, PostType, PostRecord, FetchRecord, PostSide, FetchSide

(* Nothing of the fetch side is touched by a call that inserts nothing.    *)
LEMMA FetchSideStays ==
  ASSUME IInv, UNCHANGED <<stored, delivered, fetch, precedes, raced>>
  PROVE  /\ stored' \subseteq Row /\ delivered' \subseteq stored' /\ raced' \subseteq stored'
         /\ precedes' \subseteq Fetch \X Fetch
         /\ fetch' \in [Fetch -> FetchRecord(stored')]
         /\ FetchSide'
BY DEF IInv, TypeOK, FetchRecord, FetchSide, MissedOnlyInTheGap, FetchInv, Answered,
       Undelivered

(* One lemma per side of Next.                                             *)
LEMMA PostSteps ==
  ASSUME IInv, NEW p \in Post,
         BeginPost(p) \/ InsertPayload(p) \/ Confirm(p) \/ PostFails(p)
  PROVE  IInv'
<1> DEFINE own(i) == [lid |-> Lid[p], device |-> Devices[p][i], by |-> p]
<1>1. /\ post[p].next \in 1..(Len(Devices[p]) + 1) /\ Len(Devices[p]) \in Nat
      /\ post[p] \in PostRecord
      /\ post[p].pc = "insert" =>
           \A i \in DOMAIN Devices[p] : i < post[p].next => own(i) \in stored
  BY MailboxAssumption DEF IInv, TypeOK, PostInv, PostRecord
<1>2. ASSUME NEW r \in Reply, FinishPost(p, r),
             UNCHANGED <<stored, delivered, fetch, precedes, raced>>,
             r = "ok" => \A i \in DOMAIN Devices[p] : own(i) \in stored'
      PROVE  IInv'
  <2>1. PICK h \in PostRecord : /\ post' = [post EXCEPT ![p] = h]
                                /\ h.pc = "done" /\ h.reply = r
                                /\ h.next = post[p].next
    BY <1>2, FinishPostRecord
  <2> QED
    BY <1>1, <1>2, <2>1, PostMoves, FetchSideStays, Together
<1>3. "ok" \in Reply /\ "error" \in Reply
  BY DEF Reply
<1>4. CASE BeginPost(p)
  <2> DEFINE h == [post[p] EXCEPT !.pc = "insert"]
  <2>1. post' = [post EXCEPT ![p] = h]
        /\ UNCHANGED <<stored, delivered, fetch, precedes, raced>>
    BY <1>4 DEF BeginPost
  <2>2. h \in PostRecord /\ h.pc = "insert" /\ h.next = post[p].next
    BY <1>1 DEF PostRecord
  <2>3. \A i \in DOMAIN Devices[p] : ~(i < post[p].next)
    BY <1>1, <1>4, MailboxAssumption DEF BeginPost, IInv, PostInv
  <2> HIDE DEF h
  <2> QED
    BY <1>1, <2>1, <2>2, <2>3, PostMoves, FetchSideStays, Together
<1>5. CASE InsertPayload(p)
  <2> DEFINE d == Devices[p][post[p].next]
             m == [lid |-> Lid[p], device |-> d, by |-> p]
  <2>1. CASE d \in Registered /\ ~HasRow(Lid[p], d)
    <3>1. /\ Insert(m) /\ UNCHANGED <<delivered, fetch, precedes>>
          /\ post' = [post EXCEPT ![p].next = @ + 1]
          /\ post[p].pc = "insert" /\ post[p].next <= Len(Devices[p])
      BY <1>5, <2>1 DEF InsertPayload
    <3>2. m \in Row /\ m.lid = Lid[p] /\ m.device = d
      BY <2>1, MailboxAssumption DEF Row
    <3>3. stored' = stored \cup {m}
      BY <3>1 DEF Insert
    <3> DEFINE h == [post[p] EXCEPT !.next = @ + 1]
    <3>4. h \in PostRecord /\ h.pc = "insert" /\ h.next = post[p].next + 1
          /\ h.next \in 1..(Len(Devices[p]) + 1)
      BY <1>1, <3>1 DEF PostRecord
    <3>5. post' = [post EXCEPT ![p] = h]
      BY <3>1
    <3> HIDE DEF h
    <3>6. \A i \in DOMAIN Devices[p] : i < post[p].next + 1 => own(i) \in stored'
      <4> SUFFICES ASSUME NEW i \in DOMAIN Devices[p], i < post[p].next + 1
                   PROVE  own(i) \in stored'
        OBVIOUS
      <4>1. i \in Nat
        BY MailboxAssumption
      <4>2. i < post[p].next \/ i = post[p].next
        BY <1>1, <4>1
      <4> QED
        BY <1>1, <3>1, <3>3, <4>2
    <3>7. /\ stored' \subseteq Row /\ delivered' \subseteq stored' /\ raced' \subseteq stored'
          /\ precedes' \subseteq Fetch \X Fetch
          /\ fetch' \in [Fetch -> FetchRecord(stored')]
          /\ FetchSide'
      BY <2>1, <3>1, <3>2, InsertKeeps
    <3>8. /\ PostType' /\ PostSide'
          /\ \A q \in Post : post'[q].next \in 1..(Len(Devices[q]) + 1)
      <4> HIDE DEF d, m
      <4> QED
        BY <3>3, <3>4, <3>5, <3>6, PostMoves
    <3> QED
      BY <3>7, <3>8, Together
  <2>2. CASE ~(d \in Registered /\ ~HasRow(Lid[p], d))
    <3>1. FinishPost(p, "error") /\ UNCHANGED <<stored, delivered, fetch, precedes, raced>>
      BY <1>5, <2>2 DEF InsertPayload
    <3> QED
      BY <1>2, <1>3, <3>1
  <2> QED
    BY <2>1, <2>2
<1>6. CASE Confirm(p)
  <2>1. /\ FinishPost(p, "ok") /\ UNCHANGED <<stored, delivered, fetch, precedes, raced>>
        /\ post[p].pc = "insert" /\ post[p].next > Len(Devices[p])
    BY <1>6 DEF Confirm
  <2>2. \A i \in DOMAIN Devices[p] : own(i) \in stored'
    BY <1>1, <2>1, MailboxAssumption
  <2> QED
    BY <1>2, <1>3, <2>1, <2>2
<1>7. CASE PostFails(p)
  BY <1>7, <1>2, <1>3 DEF PostFails
<1> QED
  BY <1>4, <1>5, <1>6, <1>7

LEMMA FederatedStep ==
  ASSUME IInv, NEW l \in LogicalId, NEW d \in Device, InsertFederated(l, d)
  PROVE  IInv'
<1> DEFINE m == [lid |-> l, device |-> d, by |-> Peer]
<1>1. m \in Row /\ m.lid = l /\ m.device = d
  BY DEF Row
<1>2. /\ stored' \subseteq Row /\ delivered' \subseteq stored' /\ raced' \subseteq stored'
      /\ precedes' \subseteq Fetch \X Fetch
      /\ fetch' \in [Fetch -> FetchRecord(stored')]
      /\ FetchSide'
  BY <1>1, InsertKeeps DEF InsertFederated
<1>3. stored \subseteq stored' /\ post' = post
  BY DEF InsertFederated, Insert
<1>4. /\ PostType' /\ PostSide'
      /\ \A q \in Post : post'[q].next \in 1..(Len(Devices[q]) + 1)
  BY <1>3 DEF IInv, TypeOK, PostType, PostRecord, PostSide, PostInv
<1> QED
  BY <1>2, <1>4, Together

LEMMA FetchSteps ==
  ASSUME IInv, NEW f \in Fetch,
         Select(f) \/ Mark(f) \/ AnswerFetch(f) \/ FetchFails(f)
  PROVE  IInv'
<1>1. /\ stored \subseteq Row /\ delivered \subseteq stored /\ raced \subseteq stored
      /\ fetch \in [Fetch -> FetchRecord(stored)] /\ precedes \subseteq Fetch \X Fetch
      /\ MissedOnlyInTheGap
      /\ \A g \in Fetch : FetchInv(g)
  BY DEF IInv, TypeOK, FetchRecord
<1>2. /\ UNCHANGED <<stored, post, raced>>
  BY DEF Select, Mark, AnswerFetch, FetchFails, FinishFetch
<1>3. /\ PostType' /\ PostSide'
      /\ \A q \in Post : post'[q].next \in 1..(Len(Devices[q]) + 1)
  BY <1>2 DEF IInv, TypeOK, PostType, PostRecord, PostSide, PostInv
<1>4. fetch[f] \in FetchRecord(stored)
  BY <1>1
<1>5. CASE Select(f)
  <2> DEFINE r == [fetch[f] EXCEPT !.pc = "mark", !.rows = Undelivered(Caller[f])]
  <2>1. /\ fetch[f].pc = "idle" /\ fetch' = [fetch EXCEPT ![f] = r] /\ delivered' = delivered
        /\ precedes' = precedes \cup ({g \in Fetch : fetch[g].pc = "done"} \X {f})
    BY <1>5 DEF Select
  <2>2. r \in FetchRecord(stored) /\ r.rows \cap delivered = {}
    BY <1>4 DEF FetchRecord, Undelivered
  <2>3. r.pc = "mark" /\ r.rows = Undelivered(Caller[f])
    BY <1>4 DEF FetchRecord
  <2> HIDE DEF r
  <2>4. fetch' \in [Fetch -> FetchRecord(stored')] /\ precedes' \subseteq Fetch \X Fetch
    BY <1>1, <1>2, <2>1, <2>2
  <2>5. fetch'[f] = r /\ \A g \in Fetch \ {f} : fetch'[g] = fetch[g]
    BY <1>1, <2>1
  <2>6. MissedOnlyInTheGap'
    BY <1>1, <1>2, <2>1, <2>5 DEF MissedOnlyInTheGap, FetchInv
  <2>7. FetchInv(f)'
    <3>1. ASSUME NEW g \in Fetch, <<g, f>> \in precedes'
          PROVE  /\ fetch'[g].pc = "done" /\ g # f
                 /\ Answered(g)' => fetch'[g].rows \cap r.rows = {}
      <4>1. fetch[g].pc = "done" /\ g # f
        BY <1>1, <2>1, <3>1 DEF FetchInv
      <4>2. Answered(g) => fetch[g].rows \subseteq delivered
        BY <1>1 DEF FetchInv
      <4> QED
        BY <2>2, <2>5, <4>1, <4>2 DEF Answered
    <3> QED
      BY <1>2, <2>1, <2>3, <2>5, <3>1 DEF FetchInv, Answered, Undelivered
  <2>8. ASSUME NEW h \in Fetch, h # f PROVE FetchInv(h)'
    <3>1. FetchInv(h) /\ fetch'[h] = fetch[h]
      BY <1>1, <2>5, <2>8
    <3>2. ASSUME NEW g \in Fetch, <<g, h>> \in precedes'
          PROVE  /\ fetch'[g].pc = "done"
                 /\ Answered(g)' => fetch'[g].rows \cap fetch[h].rows = {}
      <4>1. <<g, h>> \in precedes
        BY <2>1, <2>8, <3>2
      <4>2. fetch[g].pc = "done" /\ (Answered(g) => fetch[g].rows \cap fetch[h].rows = {})
        BY <3>1, <4>1 DEF FetchInv
      <4> QED
        BY <2>1, <2>5, <4>2 DEF Answered
    <3> QED
      BY <1>2, <2>1, <3>1, <3>2 DEF FetchInv, Answered, Undelivered
  <2> QED
    BY <1>1, <1>2, <1>3, <2>1, <2>4, <2>6, <2>7, <2>8, Together DEF FetchSide
<1>6. ASSUME NEW r \in FetchRecord(stored), r.rows = fetch[f].rows,
             fetch[f].pc \in {"mark", "answer"}, r.pc \in {"answer", "done"},
             fetch' = [fetch EXCEPT ![f] = r],
             precedes' = precedes, delivered \subseteq delivered', delivered' \subseteq stored,
             r.pc = "answer" \/ r.reply = "ok" => fetch[f].rows \subseteq delivered',
             MissedOnlyInTheGap'
      PROVE  IInv'
  <2>1. fetch' \in [Fetch -> FetchRecord(stored')] /\ precedes' \subseteq Fetch \X Fetch
    BY <1>1, <1>2, <1>6
  <2>2. fetch'[f] = r /\ \A g \in Fetch \ {f} : fetch'[g] = fetch[g]
    BY <1>1, <1>6
  <2>3. ASSUME NEW g \in Fetch PROVE fetch'[g].rows = fetch[g].rows
    BY <1>6, <2>2
  <2>4. ASSUME NEW g \in Fetch, NEW h \in Fetch, <<g, h>> \in precedes
        PROVE  fetch[g].pc = "done" /\ g # f /\ fetch'[g] = fetch[g]
    BY <1>1, <1>6, <2>2, <2>4 DEF FetchInv
  <2>5. ASSUME NEW h \in Fetch PROVE FetchInv(h)'
    <3>1. FetchInv(h)
      BY <1>1
    <3>2. ASSUME NEW g \in Fetch, <<g, h>> \in precedes'
          PROVE  /\ fetch'[g].pc = "done"
                 /\ Answered(g)' => fetch'[g].rows \cap fetch'[h].rows = {}
      <4>1. fetch[g].pc = "done" /\ fetch'[g] = fetch[g] /\ fetch'[h].rows = fetch[h].rows
        BY <1>6, <2>3, <2>4, <3>2
      <4>2. Answered(g) => fetch[g].rows \cap fetch[h].rows = {}
        BY <1>6, <3>1, <3>2 DEF FetchInv
      <4> QED
        BY <4>1, <4>2 DEF Answered
    <3>3. CASE h = f
      <4>1. fetch'[h].pc \notin {"idle", "mark"}
        BY <1>6, <2>2, <3>3
      <4>2. fetch'[h].pc = "answer" \/ Answered(h)' => fetch'[h].rows \subseteq delivered'
        BY <1>6, <2>2, <3>3 DEF Answered
      <4>3. \A m \in fetch'[h].rows : m.device = Caller[h]
        BY <2>3, <3>1 DEF FetchInv
      <4> QED
        BY <1>6, <3>2, <4>1, <4>2, <4>3 DEF FetchInv
    <3>4. CASE h # f
      <4>1. fetch'[h] = fetch[h]
        BY <2>2, <3>4
      <4>2. Undelivered(Caller[h])' \subseteq Undelivered(Caller[h])
        BY <1>2, <1>6 DEF Undelivered
      <4> QED
        BY <1>2, <1>6, <3>1, <3>2, <4>1, <4>2 DEF FetchInv, Answered
    <3> QED
      BY <3>3, <3>4
  <2> QED
    BY <1>1, <1>2, <1>3, <1>6, <2>1, <2>5, Together DEF FetchSide
<1>7. CASE Mark(f)
  <2> DEFINE r == [fetch[f] EXCEPT !.pc = "answer"]
  <2>1. /\ fetch[f].pc = "mark" /\ precedes' = precedes
        /\ delivered' = delivered \cup Undelivered(Caller[f])
        /\ fetch' = [fetch EXCEPT ![f] = r]
    BY <1>7 DEF Mark
  <2>2. r \in FetchRecord(stored) /\ r.pc = "answer" /\ r.rows = fetch[f].rows
    BY <1>4 DEF FetchRecord
  <2> HIDE DEF r
  <2>3. fetch'[f].rows = fetch[f].rows /\ \A g \in Fetch : fetch'[g].rows = fetch[g].rows
    BY <1>1, <2>1, <2>2
  <2>4. Undelivered(Caller[f]) \subseteq fetch[f].rows \cup raced
    BY <1>1, <2>1 DEF FetchInv
  <2>5. MissedOnlyInTheGap'
    BY <1>1, <1>2, <2>1, <2>3, <2>4 DEF MissedOnlyInTheGap
  <2>6. fetch[f].rows \subseteq delivered'
    <3>1. \A m \in fetch[f].rows : m \in stored /\ m.device = Caller[f]
      BY <1>1 DEF FetchInv, FetchRecord
    <3> QED
      BY <2>1, <3>1 DEF Undelivered
  <2> QED
    BY <1>1, <1>6, <2>1, <2>5, <2>6, <2>2 DEF Undelivered
<1>8. CASE AnswerFetch(f)
  <2> DEFINE r == [fetch[f] EXCEPT !.pc = "done", !.reply = "ok"]
  <2>1. /\ fetch[f].pc = "answer" /\ precedes' = precedes /\ delivered' = delivered
        /\ fetch' = [fetch EXCEPT ![f] = r]
    BY <1>8 DEF AnswerFetch, FinishFetch
  <2>2. r \in FetchRecord(stored) /\ r.pc = "done" /\ r.rows = fetch[f].rows
        /\ r.reply = "ok"
    BY <1>4 DEF FetchRecord, Reply
  <2> HIDE DEF r
  <2>3. \A g \in Fetch : fetch'[g].rows = fetch[g].rows
    BY <1>1, <2>1, <2>2
  <2>4. MissedOnlyInTheGap'
    BY <1>1, <1>2, <2>1, <2>3 DEF MissedOnlyInTheGap
  <2>5. fetch[f].rows \subseteq delivered
    BY <1>1, <2>1 DEF FetchInv
  <2> QED
    BY <1>1, <1>6, <2>1, <2>4, <2>5, <2>2
<1>9. CASE FetchFails(f)
  <2> DEFINE r == [fetch[f] EXCEPT !.pc = "done", !.reply = "error"]
  <2>1. /\ fetch[f].pc \in {"mark", "answer"} /\ precedes' = precedes /\ delivered' = delivered
        /\ fetch' = [fetch EXCEPT ![f] = r]
    BY <1>9 DEF FetchFails, FinishFetch
  <2>2. r \in FetchRecord(stored) /\ r.pc = "done" /\ r.rows = fetch[f].rows
        /\ r.reply = "error"
    BY <1>4 DEF FetchRecord, Reply
  <2> HIDE DEF r
  <2>3. \A g \in Fetch : fetch'[g].rows = fetch[g].rows
    BY <1>1, <2>1, <2>2
  <2>4. MissedOnlyInTheGap'
    BY <1>1, <1>2, <2>1, <2>3 DEF MissedOnlyInTheGap
  <2> QED
    BY <1>1, <1>6, <2>1, <2>4, <2>2
<1> QED
  BY <1>5, <1>7, <1>8, <1>9

(* IInv is inductive.                                                      *)
LEMMA NextIInv == IInv /\ [Next]_vars => IInv'
<1> SUFFICES ASSUME IInv, [Next]_vars PROVE IInv'
  OBVIOUS
<1>1. CASE Next
  BY <1>1, PostSteps, FederatedStep, FetchSteps DEF Next
<1>2. CASE UNCHANGED vars
  BY <1>2 DEF vars, IInv, TypeOK, MissedOnlyInTheGap, PostInv, FetchInv, Answered,
              Undelivered
<1> QED
  BY <1>1, <1>2

(* The inductive invariant of the messages table and its handlers.         *)
THEOREM SpecIInv == Spec => []IInv
BY InitIInv, NextIInv, PTL DEF Spec

(* Type correctness of the mailbox.                                        *)
THEOREM TypeCorrect == Spec => []TypeOK
<1>1. IInv => TypeOK
  BY DEF IInv
<1> QED
  BY SpecIInv, <1>1, PTL

(* A 200 to POST /messages vouches for a row of its own for each payload.  *)
THEOREM ConfirmedIsStored == Spec => []ConfirmedMeansOwnRows
<1>1. IInv => ConfirmedMeansOwnRows
  BY DEF IInv, PostInv, ConfirmedMeansOwnRows
<1> QED
  BY SpecIInv, <1>1, PTL

(* Fetches that do not overlap hand out each row at most once.             *)
THEOREM NoDuplicates == Spec => []HandedOutOnce
<1>1. IInv => HandedOutOnce
  BY DEF IInv, FetchInv, HandedOutOnce
<1> QED
  BY SpecIInv, <1>1, PTL

(* Only an insert between the two statements of a fetch can be missed.     *)
THEOREM NoOtherLoss == Spec => []MissedOnlyInTheGap
<1>1. IInv => MissedOnlyInTheGap
  BY DEF IInv
<1> QED
  BY SpecIInv, <1>1, PTL
=============================================================================
