--------------------------- MODULE NodeAuthProofs ---------------------------
(***************************************************************************)
(* AcceptedAtMostOnce for any number of requests and handlers and any time *)
(* limits that satisfy NodeAuthAssumption.  The invariant alone is not     *)
(* inductive: AcceptedInv says where the evidence of an accepted request   *)
(* is (its nonce, or a clock too late for it), HandlerInv that a handler   *)
(* about to claim a nonce cannot be that late.                             *)
(***************************************************************************)
EXTENDS NodeAuth, TLAPS

(* The invariant holds at the start.                                       *)
LEMMA InitIInv == Init => IInv
BY NodeAuthAssumption
   DEF Init, IInv, TypeOK, AcceptedAtMostOnce, AcceptedInv, HandlerInv, Idle

(* Every step of authentication, of the purge and of the clock keeps the   *)
(* types: counters and table entries stay in range.                        *)
LEMMA TypeStep == IInv /\ [Next]_vars => TypeOK'
<1> SUFFICES ASSUME IInv, [Next]_vars PROVE TypeOK'
  OBVIOUS
<1> USE NodeAuthAssumption DEF IInv, TypeOK
<1>1. ASSUME NEW r \in Request, Sign(r) PROVE TypeOK'
  BY <1>1 DEF Sign
<1>2. ASSUME NEW h \in Handler, NEW r \in Request, CheckTimestamp(h, r) PROVE TypeOK'
  BY <1>2 DEF CheckTimestamp
<1>3. ASSUME NEW h \in Handler, LookupPeer(h) PROVE TypeOK'
  BY <1>3 DEF LookupPeer, Goto, Done, Idle
<1>4. ASSUME NEW h \in Handler, CachePeer(h) PROVE TypeOK'
  BY <1>4 DEF CachePeer, Goto, Done, Idle
<1>5. ASSUME NEW h \in Handler, Refuse(h) PROVE TypeOK'
  BY <1>5 DEF Refuse, Done, Idle
<1>6. ASSUME NEW h \in Handler, ClaimNonce(h) PROVE TypeOK'
  BY <1>6 DEF ClaimNonce, Done, Idle
<1>7. CASE PurgeExpiredNonces
  BY <1>7 DEF PurgeExpiredNonces
<1>8. CASE SetBlocked
  BY <1>8 DEF SetBlocked
<1>9. CASE Tick
  BY <1>9 DEF Tick
<1>10. CASE UNCHANGED vars
  BY <1>10 DEF vars
<1> QED
  BY <1>1, <1>2, <1>3, <1>4, <1>5, <1>6, <1>7, <1>8, <1>9, <1>10 DEF Next

(* A handler keeps the distance to its request's timestamp that its check  *)
(* established, for the clock waits for it.                                *)
LEMMA HandlerStep == IInv /\ [Next]_vars => HandlerInv'
<1> SUFFICES ASSUME IInv, [Next]_vars PROVE HandlerInv'
  OBVIOUS
<1> USE NodeAuthAssumption DEF IInv, TypeOK, HandlerInv
<1>1. ASSUME NEW r \in Request, Sign(r) PROVE HandlerInv'
  BY <1>1 DEF Sign
<1>2. ASSUME NEW h \in Handler, NEW r \in Request, CheckTimestamp(h, r)
      PROVE HandlerInv'
  BY <1>2 DEF CheckTimestamp
<1>3. ASSUME NEW h \in Handler, LookupPeer(h) PROVE HandlerInv'
  BY <1>3 DEF LookupPeer, Goto, Done, Idle
<1>4. ASSUME NEW h \in Handler, CachePeer(h) PROVE HandlerInv'
  BY <1>4 DEF CachePeer, Goto, Done, Idle
<1>5. ASSUME NEW h \in Handler, Refuse(h) PROVE HandlerInv'
  BY <1>5 DEF Refuse, Done, Idle
<1>6. ASSUME NEW h \in Handler, ClaimNonce(h) PROVE HandlerInv'
  BY <1>6 DEF ClaimNonce, Done, Idle
<1>7. CASE PurgeExpiredNonces
  BY <1>7 DEF PurgeExpiredNonces
<1>8. CASE SetBlocked
  BY <1>8 DEF SetBlocked
<1>9. CASE Tick
  BY <1>9 DEF Tick
<1>10. CASE UNCHANGED vars
  BY <1>10 DEF vars
<1> QED
  BY <1>1, <1>2, <1>3, <1>4, <1>5, <1>6, <1>7, <1>8, <1>9, <1>10 DEF Next

(* The evidence of an accepted request survives: the purge removes its     *)
(* nonce only when the clock has become evidence enough.                   *)
LEMMA AcceptedStep ==
  IInv /\ [Next]_vars => AcceptedInv' /\ AcceptedAtMostOnce'
<1> SUFFICES ASSUME IInv, [Next]_vars PROVE AcceptedInv' /\ AcceptedAtMostOnce'
  OBVIOUS
<1> USE NodeAuthAssumption DEF IInv, TypeOK, AcceptedInv, AcceptedAtMostOnce
<1>1. ASSUME NEW r \in Request, Sign(r)
      PROVE AcceptedInv' /\ AcceptedAtMostOnce'
  BY <1>1 DEF Sign
<1>2. ASSUME NEW h \in Handler, ClaimNonce(h)
      PROVE AcceptedInv' /\ AcceptedAtMostOnce'
  <2> DEFINE r == handler[h].request
  <2>1. /\ r \in signed
        /\ r \in Request
        /\ now <= stamp[r] + Window + Slack
        /\ stamp[r] <= now + Window
    BY <1>2 DEF ClaimNonce, HandlerInv
  <2>2. CASE \E u \in used : u.nonce = r
    BY <1>2, <2>2 DEF ClaimNonce
  <2>3. CASE ~ \E u \in used : u.nonce = r
    <3>1. accepted[r] = 0
      BY <2>1, <2>3
    <3>2. /\ used' = used \cup {[nonce |-> r, at |-> now]}
          /\ accepted' = [accepted EXCEPT ![r] = 1]
      BY <1>2, <2>3, <3>1 DEF ClaimNonce
    <3>3. UNCHANGED <<now, signed, stamp>>
      BY <1>2 DEF ClaimNonce
    <3> DEFINE claim == [nonce |-> r, at |-> now]
    <3>4. claim \in used' /\ claim.nonce = r /\ stamp'[r] <= claim.at + Window
      BY <2>1, <3>2, <3>3
    <3>5. accepted'[r] = 1 /\ r \in signed'
      BY <2>1, <3>2, <3>3
    <3>6. ASSUME NEW q \in Request, q # r, accepted'[q] > 0
          PROVE  /\ q \in signed'
                 /\ \/ \E u \in used' : u.nonce = q /\ stamp'[q] <= u.at + Window
                    \/ now' > stamp'[q] + Window + Slack
      BY <3>2, <3>3, <3>6
    <3>7. \A q \in Request : accepted'[q] <= 1
      BY <3>2
    <3> HIDE DEF claim, r
    <3> QED
      BY <3>3, <3>4, <3>5, <3>6, <3>7
  <2> QED
    BY <2>2, <2>3
<1>3. CASE PurgeExpiredNonces
  <2>1. UNCHANGED <<now, signed, stamp, accepted>>
    BY <1>3 DEF PurgeExpiredNonces
  <2>2. SUFFICES ASSUME NEW r \in Request, accepted[r] > 0,
                        NEW u \in used, u.nonce = r, stamp[r] <= u.at + Window
                 PROVE u \in used' \/ now > stamp[r] + Window + Slack
    BY <2>1
  <2>3. CASE u.at + Retention >= now
    BY <1>3, <2>3 DEF PurgeExpiredNonces
  <2>4. CASE u.at + Retention < now
    BY <2>2, <2>4
  <2> QED
    BY <2>3, <2>4
<1>4. CASE Tick
  BY <1>4 DEF Tick
<1>5. ASSUME UNCHANGED <<now, signed, stamp, used, accepted>>
      PROVE AcceptedInv' /\ AcceptedAtMostOnce'
  BY <1>5
<1> QED
  BY <1>1, <1>2, <1>3, <1>4, <1>5
     DEF Next, vars, CheckTimestamp, LookupPeer, CachePeer, Refuse, SetBlocked

(* The inductive invariant: an accepted request has its nonce in the table *)
(* or is too old, copies of it that passed the timestamp check included.   *)
THEOREM SpecIInv == Spec => []IInv
<1>1. IInv /\ [Next]_vars => IInv'
  BY TypeStep, HandlerStep, AcceptedStep DEF IInv
<1> QED
  BY InitIInv, <1>1, PTL DEF Spec

(* Type correctness of node authentication.                                *)
THEOREM TypeCorrect == Spec => []TypeOK
<1>1. IInv => TypeOK
  BY DEF IInv
<1> QED
  BY SpecIInv, <1>1, PTL

(* A signed request passes node authentication at most once, for every     *)
(* number of copies, handlers and requests, if nonces are kept for twice   *)
(* the window plus the longest way from check to claim.                    *)
THEOREM AtMostOnce == Spec => []AcceptedAtMostOnce
<1>1. IInv => AcceptedAtMostOnce
  BY DEF IInv
<1> QED
  BY SpecIInv, <1>1, PTL
=============================================================================
