------------------------- MODULE PeerDirectoryProofs -------------------------
(***************************************************************************)
(* The safety invariants of PeerDirectory.tla for any number of handlers   *)
(* and key pairs.  A step is the peer's, which leaves rows and handlers    *)
(* alone and only raises the numbers they are compared with, or one        *)
(* handler's, or the operator's.  What a handler may carry depends on few  *)
(* facts about the rest; Good lists them as parameters.                    *)
(***************************************************************************)
EXTENDS PeerDirectory, TLAPS

(* State s of handler h is right, given the block flag, the registration,  *)
(* the number of keys, the key file and the two history flags.             *)
Good(h, s, blocked, reg, n, f, l, o) ==
  /\ s \in HandlerState
  /\ s.shunned => blocked
  /\ Kind[h] = "inbound" /\ s.pc # "idle" => s.signed # 0
  /\ s.pc = "badsig" => l \/ (IsFetch(h, s) /\ UrlPrefix # "")
  /\ s.pc = "used" => ~(IsFetch(h, s) /\ UrlPrefix # "")
  /\ s.pc = "registry" => s.began <= reg
  /\ s.pc = "upsert" => s.asked /\ (o \/ (s.url # 0 /\ s.key # 0))
  /\ s.asked => /\ s.pc \in {"upsert", "used", "badsig"}
                /\ s.url = 0 \/ s.url >= s.began
                /\ s.key = 0 \/ s.key >= s.began
                /\ s.url = 0 \/ s.key = 0 \/ s.url = s.key
  /\ s.pc \in {"used", "badsig"} /\ s.shunned => Kind[h] = "worker" \/ (Kind[h] = "send" /\ s.asked)
  /\ ~l => \A k \in {s.key, s.signed} \ {0} : k = n /\ f = n

Handlers == /\ handler \in [Handler -> HandlerState]
            /\ \A h \in Handler : Good(h, handler[h], row.blocked, registry, keys, file, lost, omitted)

PeerSide == /\ peer \in [state : {"down", "write", "register", "up"}, key : Number]
            /\ file \in Number \cup {Torn} /\ keys \in Number /\ registry \in Number
            /\ lost \in BOOLEAN
            /\ PeerInv
            /\ ~lost /\ registry # 0 => registry = keys /\ file = keys

RowSide == /\ row \in [cached : BOOLEAN, blocked : BOOLEAN, url : Number, key : Number]
           /\ omitted \in BOOLEAN
           /\ row.blocked => row.cached
           /\ OneRegistration /\ BlankOnlyByClients
           /\ ~lost /\ row.key # 0 => row.key = keys /\ file = keys

(* The invariant is the three sides together.                              *)
LEMMA Sides == IInv => PeerSide /\ RowSide /\ Handlers
<1> SUFFICES ASSUME IInv PROVE PeerSide /\ RowSide /\ Handlers
  OBVIOUS
<1>1. ~lost => \A k \in Announced \ {0} : k = keys /\ file = keys
  BY DEF IInv, AnnouncedInv
<1>2. /\ registry \in Announced /\ row.key \in Announced
      /\ \A h \in Handler : handler[h].key \in Announced /\ handler[h].signed \in Announced
  BY DEF Announced
<1>3. PeerSide
  BY <1>1, <1>2 DEF IInv, TypeOK, PeerSide
<1>4. RowSide
  BY <1>1, <1>2 DEF IInv, TypeOK, RowSide
<1>5. Handlers
  <2>1. handler \in [Handler -> HandlerState]
    BY DEF IInv, TypeOK
  <2>2. ASSUME NEW h \in Handler
        PROVE  Good(h, handler[h], row.blocked, registry, keys, file, lost, omitted)
    <3>1. handler[h] \in HandlerState /\ HandlerInv(h)
      BY <2>1 DEF IInv
    <3>2. ~lost => \A k \in {handler[h].key, handler[h].signed} \ {0} : k = keys /\ file = keys
      BY <1>1, <1>2
    <3>3. handler[h].pc \in {"used", "badsig"} /\ handler[h].shunned =>
            Kind[h] = "worker" \/ (Kind[h] = "send" /\ handler[h].asked)
      BY DEF IInv, BlockedIsShunned
    <3> QED
      BY <3>1, <3>2, <3>3 DEF HandlerInv, Good
  <2> QED
    BY <2>1, <2>2 DEF Handlers
<1> QED
  BY <1>3, <1>4, <1>5

LEMMA Together == PeerSide /\ RowSide /\ Handlers => IInv
<1> SUFFICES ASSUME PeerSide, RowSide, Handlers PROVE IInv
  OBVIOUS
<1>1. TypeOK
  BY DEF PeerSide, RowSide, Handlers, TypeOK
<1>2. AnnouncedInv
  <2> SUFFICES ASSUME ~lost, NEW k \in Announced \ {0} PROVE k = keys /\ file = keys
    BY DEF AnnouncedInv
  <2>1. CASE k \in {registry, row.key}
    BY <2>1 DEF PeerSide, RowSide
  <2>2. CASE \E h \in Handler : k \in {handler[h].key, handler[h].signed}
    BY <2>2 DEF Handlers, Good
  <2> QED
    BY <2>1, <2>2 DEF Announced
<1>3. BlockedIsShunned
  BY DEF Handlers, Good, BlockedIsShunned
<1>4. \A h \in Handler : HandlerInv(h)
  BY DEF Handlers, Good, HandlerInv
<1> QED
  BY <1>1, <1>2, <1>3, <1>4 DEF IInv, PeerSide, RowSide

(* The invariant holds at the start.                                       *)
LEMMA InitIInv == Init => IInv
<1> SUFFICES ASSUME Init PROVE PeerSide /\ RowSide /\ Handlers
  BY Together
<1>1. 0 \in Number
  BY PeerDirectoryAssumption DEF Number
<1>2. PeerSide
  <2>1. registry <= keys
    BY DEF Init
  <2>2. lost \in BOOLEAN
    BY Zenon DEF Init
  <2> QED
    BY <1>1, <2>1, <2>2, Zenon DEF Init, PeerSide, PeerInv
<1>3. RowSide
  BY <1>1 DEF Init, RowSide, OneRegistration, BlankOnlyByClients
<1>4. Idle \in HandlerState
  BY <1>1 DEF Idle, HandlerState
<1>5. ASSUME NEW h \in Handler
      PROVE  Good(h, handler[h], row.blocked, registry, keys, file, lost, omitted)
  BY <1>4 DEF Init, Idle, Good
<1> QED
  BY <1>2, <1>3, <1>4, <1>5 DEF Init, Handlers

(* An idle handler carries nothing.                                        *)
LEMMA IdleGood ==
  ASSUME NEW h \in Handler, NEW b, NEW r, NEW n, NEW f, NEW l, NEW o
  PROVE  Idle \in HandlerState /\ Good(h, Idle, b, r, n, f, l, o)
<1>1. 0 \in Number
  BY PeerDirectoryAssumption DEF Number
<1> QED
  BY <1>1 DEF Idle, HandlerState, Good

(* A step of the peer: registrations get newer, and until a file is lost   *)
(* neither the newest key nor its file changes once it is known.           *)
LEMMA PeerStep ==
  ASSUME IInv, UnchangedNode, PeerSide', registry <= registry',
         lost => lost',
         ~lost' => (keys = file /\ keys # 0 => keys' = keys /\ file' = file)
  PROVE  IInv'
<1>1. PeerSide /\ RowSide /\ Handlers
  BY Sides
<1>2. row' = row /\ handler' = handler /\ omitted' = omitted
  BY DEF UnchangedNode
<1>3. RowSide'
  BY <1>1, <1>2 DEF RowSide, OneRegistration, BlankOnlyByClients, PeerSide
<1>4. ASSUME NEW h \in Handler
      PROVE  Good(h, handler[h], row.blocked, registry', keys', file', lost', omitted)
  <2>1. Good(h, handler[h], row.blocked, registry, keys, file, lost, omitted)
    BY <1>1 DEF Handlers
  <2>2. handler[h].pc = "registry" => handler[h].began <= registry'
    BY <1>1, <2>1, PeerDirectoryAssumption DEF Good, PeerSide, Number, HandlerState
  <2> QED
    BY <2>1, <2>2 DEF Good
<1>5. Handlers'
  BY <1>1, <1>2, <1>4 DEF Handlers
<1> QED
  BY <1>3, <1>5, Together, PTL

LEMMA PeerSteps ==
  ASSUME IInv, LoadOrGenerate \/ WriteKeys \/ Register \/ NodeStops \/ LoseKeys
  PROVE  IInv'
<1>1. PeerSide
  BY Sides
<1>2. keys \in Nat /\ registry \in Nat /\ Number \subseteq Nat /\ 0 \in Number
  BY <1>1, PeerDirectoryAssumption DEF PeerSide, Number
<1>3. CASE LoadOrGenerate
  <2>1. UnchangedNode /\ registry' = registry /\ lost' = lost
    BY <1>3 DEF LoadOrGenerate
  <2>2. CASE /\ file \in Number \ {0}
             /\ peer' = [state |-> "register", key |-> file]
             /\ UNCHANGED <<file, keys>>
    <3>1. PeerSide'
      BY <1>1, <1>2, <2>1, <2>2 DEF PeerSide, PeerInv
    <3> QED
      BY <1>2, <2>1, <2>2, <3>1, PeerStep
  <2>3. CASE /\ file = 0 /\ keys < MaxKeys /\ keys' = keys + 1 /\ file' = Torn
             /\ peer' = [state |-> "write", key |-> keys + 1]
    <3>1. keys + 1 \in Number /\ Torn \notin Number
      BY <1>2, <2>3, PeerDirectoryAssumption DEF Number
    <3>2. registry' <= keys'
      BY <1>1, <1>2, <2>1, <2>3 DEF PeerSide, PeerInv
    <3>3. /\ ~lost => registry = 0
          /\ ~(keys = file /\ keys # 0)
      BY <1>1, <2>3 DEF PeerSide, PeerInv
    <3>4. PeerInv' /\ keys' # 0
      BY <1>2, <2>3, <3>1, <3>2 DEF PeerInv
    <3>5. PeerSide'
      BY <1>1, <2>1, <2>3, <3>1, <3>3, <3>4 DEF PeerSide
    <3> QED
      BY <1>2, <2>1, <3>3, <3>5, PeerStep
  <2> QED
    BY <1>3, <2>2, <2>3 DEF LoadOrGenerate
<1>4. CASE WriteKeys
  <2>1. /\ UnchangedNode /\ registry' = registry /\ lost' = lost /\ keys' = keys
        /\ file' = keys /\ peer' = [peer EXCEPT !.state = "register"] /\ peer.state = "write"
    BY <1>1, <1>4 DEF WriteKeys, PeerSide, PeerInv
  <2>2. PeerSide'
    BY <1>1, <1>2, <2>1 DEF PeerSide, PeerInv
  <2> QED
    BY <1>2, <2>1, <2>2, PeerStep
<1>5. CASE Register
  <2>1. /\ UnchangedNode /\ file' = file /\ lost' = lost /\ keys' = keys
        /\ peer' = [peer EXCEPT !.state = "up"] /\ peer.state = "register"
        /\ registry' \in {registry, keys} /\ file = keys
    BY <1>1, <1>5 DEF Register, PeerSide, PeerInv
  <2>2. registry <= registry'
    BY <1>1, <1>2, <2>1 DEF PeerSide, PeerInv
  <2>3. PeerSide'
    BY <1>1, <1>2, <2>1 DEF PeerSide, PeerInv
  <2> QED
    BY <2>1, <2>2, <2>3, PeerStep
<1>6. CASE NodeStops
  <2>1. /\ UnchangedNode /\ UNCHANGED <<file, keys, registry, lost>>
        /\ peer' = [state |-> "down", key |-> 0]
    BY <1>6 DEF NodeStops
  <2>2. PeerSide'
    BY <1>1, <1>2, <2>1 DEF PeerSide, PeerInv
  <2> QED
    BY <1>2, <2>1, <2>2, PeerStep
<1>7. CASE LoseKeys
  <2>1. /\ UnchangedNode /\ UNCHANGED <<peer, keys, registry>> /\ file' = 0 /\ file # 0
        /\ peer.state = "down"
        /\ lost' = (lost \/ file # Torn)
    BY <1>7 DEF LoseKeys
  <2>2. lost' \in BOOLEAN /\ (lost => lost') /\ (~lost' => file = Torn)
    BY <1>1, <2>1, Zenon DEF PeerSide
  <2>3. Torn # keys
    BY <1>2, PeerDirectoryAssumption
  <2>4. PeerSide'
    BY <1>1, <1>2, <2>1, <2>2, <2>3 DEF PeerSide, PeerInv
  <2> QED
    BY <1>2, <2>1, <2>2, <2>3, <2>4, PeerStep
<1> QED
  BY <1>3, <1>4, <1>5, <1>6, <1>7

-----------------------------------------------------------------------------
(* A step of handler h, which goes to state s.                             *)
LEMMA HandlerMoves ==
  ASSUME IInv, NEW h \in Handler, NEW s, UnchangedPeer, RowSide',
         handler' = [handler EXCEPT ![h] = s],
         row'.blocked = row.blocked, omitted => omitted',
         Good(h, s, row.blocked, registry, keys, file, lost, omitted')
  PROVE  IInv'
<1>1. PeerSide /\ RowSide /\ Handlers
  BY Sides
<1>2. peer' = peer /\ file' = file /\ keys' = keys /\ registry' = registry /\ lost' = lost
  BY DEF UnchangedPeer
<1>3. PeerSide'
  BY <1>1, <1>2 DEF PeerSide, PeerInv
<1>4. ASSUME NEW g \in Handler
      PROVE  Good(g, handler'[g], row.blocked, registry, keys, file, lost, omitted')
  <2>1. Good(g, handler[g], row.blocked, registry, keys, file, lost, omitted)
    BY <1>1 DEF Handlers
  <2>2. CASE g = h
    BY <1>1, <2>2 DEF Handlers
  <2>3. CASE g # h
    <3>1. handler'[g] = handler[g]
      BY <1>1, <2>3 DEF Handlers
    <3>2. Good(g, handler[g], row.blocked, registry, keys, file, lost, omitted')
      BY <2>1 DEF Good
    <3> QED
      BY <3>1, <3>2
  <2> QED
    BY <2>2, <2>3
<1>5. Handlers'
  <2>1. s \in HandlerState
    BY DEF Good
  <2>2. handler' \in [Handler -> HandlerState]
    BY <1>1, <2>1 DEF Handlers
  <2> QED
    BY <1>2, <1>4, <2>2 DEF Handlers
<1> QED
  BY <1>3, <1>5, Together, PTL

LEMMA HandlerEnds ==
  ASSUME IInv, NEW h \in Handler, UnchangedPeer, RowSide', End(h),
         row'.blocked = row.blocked, omitted => omitted'
  PROVE  IInv'
<1>1. handler' = [handler EXCEPT ![h] = Idle]
  BY DEF End
<1>2. Good(h, Idle, row.blocked, registry, keys, file, lost, omitted')
  BY IdleGood
<1> QED
  BY <1>1, <1>2, HandlerMoves

(* Going on is allowed to a handler that the block does not concern.       *)
LEMMA HandlerGoesOn ==
  ASSUME IInv, NEW h \in Handler, NEW url, NEW key \in {row.key, handler[h].key},
         UnchangedPeer, RowSide', GoOn(h, url, key),
         Kind[h] = "inbound" => handler[h].pc # "idle", row'.blocked = row.blocked, omitted' = omitted,
         row.blocked => Kind[h] = "worker" \/ (Kind[h] = "send" /\ handler[h].asked)
  PROVE  IInv'
<1>1. CASE Usable(h, url, key)
  <2> DEFINE pc == IF Verifies(h, key) THEN "used" ELSE "badsig"
             s == [handler[h] EXCEPT !.pc = pc]
  <2>1. handler[h] \in HandlerState
    BY Sides DEF Handlers
  <2>2. Good(h, handler[h], row.blocked, registry, keys, file, lost, omitted)
    BY Sides DEF Handlers
  <2> DEFINE barred == IsFetch(h, handler[h]) /\ UrlPrefix # ""
  <2>3. pc \in {"used", "badsig"} /\ (pc = "badsig" => lost \/ barred) /\ (pc = "used" => ~barred)
    <3>1. Verifies(h, key) => ~barred
      BY DEF Verifies, SignedPrefix
    <3>2. ASSUME ~Verifies(h, key), ~lost, ~barred PROVE FALSE
      <4>1. Kind[h] = "inbound" /\ key # handler[h].signed
        BY <3>2 DEF Verifies, SignedPrefix
      <4>2. key # 0
        BY <1>1, <4>1 DEF Usable
      <4>3. key = keys
        BY <2>2, <3>2, <4>2, Sides DEF RowSide, Good
      <4>4. handler[h].signed \in {0, keys} /\ handler[h].signed # 0
        BY <2>2, <3>2, <4>1 DEF Good
      <4> QED
        BY <4>1, <4>3, <4>4
    <3> HIDE DEF barred
    <3> QED
      BY <3>1, <3>2
  <2>4. handler' = [handler EXCEPT ![h] = s]
    BY <1>1, <2>1, Sides DEF GoOn, Handlers
  <2> HIDE DEF pc
  <2>5. /\ s \in HandlerState /\ s.pc = pc /\ s.shunned = handler[h].shunned
        /\ s.asked = handler[h].asked /\ s.url = handler[h].url /\ s.key = handler[h].key
        /\ s.began = handler[h].began /\ s.signed = handler[h].signed
        /\ s.get = handler[h].get
    BY <2>1, <2>3 DEF HandlerState
  <2> HIDE DEF s
  <2>6. IsFetch(h, s) = IsFetch(h, handler[h])
    BY <2>5 DEF IsFetch
  <2>7. Good(h, s, row.blocked, registry, keys, file, lost, omitted')
    BY <2>2, <2>3, <2>5, <2>6 DEF Good
  <2> QED
    BY <2>4, <2>7, HandlerMoves
<1>2. CASE ~Usable(h, url, key)
  BY <1>2, HandlerEnds DEF GoOn
<1> QED
  BY <1>1, <1>2

(* The row stays what it is.                                               *)
LEMMA RowStays ==
  ASSUME RowSide, UnchangedPeer, row' = row, omitted => omitted', omitted' \in BOOLEAN
  PROVE  RowSide'
BY DEF RowSide, OneRegistration, BlankOnlyByClients, UnchangedPeer

(* What the row becomes is what the handler has from the registry.         *)
LEMMA RowWritten ==
  ASSUME IInv, NEW h \in Handler, handler[h].pc = "upsert", UnchangedPeer, omitted' = omitted,
         row' = [row EXCEPT !.cached = TRUE, !.url = handler[h].url, !.key = handler[h].key]
  PROVE  RowSide' /\ row'.blocked = row.blocked
<1>1. RowSide /\ Good(h, handler[h], row.blocked, registry, keys, file, lost, omitted)
  BY Sides DEF Handlers
<1>2. row' \in [cached : BOOLEAN, blocked : BOOLEAN, url : Number, key : Number]
  BY <1>1 DEF RowSide, Good, HandlerState
<1>3. /\ row'.cached /\ row'.url = handler[h].url /\ row'.key = handler[h].key
      /\ row'.blocked = row.blocked
  BY <1>1 DEF RowSide
<1>4. OneRegistration' /\ BlankOnlyByClients'
  BY <1>1, <1>3 DEF Good, OneRegistration, BlankOnlyByClients
<1>5. omitted' \in BOOLEAN
  BY <1>1, Zenon DEF RowSide
<1>6. ~lost' /\ row'.key # 0 => row'.key = keys' /\ file' = keys'
  BY <1>1, <1>3 DEF UnchangedPeer, Good
<1> QED
  BY <1>1, <1>2, <1>3, <1>4, <1>5, <1>6 DEF RowSide

LEMMA HandlerSteps ==
  ASSUME IInv, NEW h \in Handler,
         \/ Arrive(h) \/ LookupHit(h) \/ LookupMiss(h) \/ AskRegistry(h)
         \/ UpsertNode(h) \/ Refuse(h) \/ Finish(h)
  PROVE  IInv'
<1>1. /\ PeerSide /\ RowSide /\ handler[h] \in HandlerState /\ omitted \in BOOLEAN
      /\ Good(h, handler[h], row.blocked, registry, keys, file, lost, omitted)
  BY Sides DEF Handlers, RowSide
<1>2. registry \in Nat /\ 0 \in Number /\ Number \subseteq Nat
  BY <1>1, PeerDirectoryAssumption DEF PeerSide, Number
<1>3. ASSUME UnchangedPeer, row' = row, omitted' = omitted, End(h)
      PROVE  IInv'
  BY <1>1, <1>3, RowStays, HandlerEnds
<1>4. CASE Arrive(h)
  <2>0. PICK get \in BOOLEAN :
          handler' = [handler EXCEPT ![h] = [Idle EXCEPT !.pc = "lookup", !.get = get,
                                                         !.signed = peer.key]]
    BY <1>4 DEF Arrive
  <2> DEFINE s == [Idle EXCEPT !.pc = "lookup", !.get = get, !.signed = peer.key]
  <2>1. /\ UnchangedPeer /\ row' = row /\ omitted' = omitted
        /\ handler' = [handler EXCEPT ![h] = s] /\ peer.state = "up"
    BY <1>4, <2>0 DEF Arrive
  <2>2. peer.key \in Number /\ peer.key = keys /\ file = keys /\ keys # 0
    BY <1>1, <2>1 DEF PeerSide, PeerInv
  <2>3. /\ s \in HandlerState /\ s.pc = "lookup" /\ ~s.asked /\ ~s.shunned
        /\ s.key = 0 /\ s.signed = peer.key
    BY <1>2, <2>2 DEF Idle, HandlerState
  <2> HIDE DEF s
  <2>4. Good(h, s, row.blocked, registry, keys, file, lost, omitted')
    BY <2>2, <2>3 DEF Good
  <2> QED
    BY <1>1, <2>1, <2>4, RowStays, HandlerMoves
<1>5. CASE LookupHit(h)
  <2>1. UnchangedPeer /\ row' = row /\ omitted' = omitted
    BY <1>5 DEF LookupHit
  <2>2. CASE row.blocked /\ Kind[h] # "worker"
    BY <1>3, <1>5, <2>1, <2>2 DEF LookupHit
  <2>3. CASE ~(row.blocked /\ Kind[h] # "worker")
    <3>1. GoOn(h, row.url, row.key) /\ (Kind[h] = "inbound" => handler[h].pc # "idle")
      BY <1>5, <2>3 DEF LookupHit, Looks
    <3> QED
      BY <1>1, <2>1, <2>3, <3>1, RowStays, HandlerGoesOn
  <2> QED
    BY <2>2, <2>3
<1>6. CASE LookupMiss(h)
  <2> DEFINE s == [handler[h] EXCEPT !.pc = "registry", !.began = registry,
                                     !.shunned = row.blocked]
  <2>1. /\ UnchangedPeer /\ row' = row /\ omitted' = omitted
        /\ handler' = [handler EXCEPT ![h] = s] /\ handler[h].pc \in {"idle", "lookup"}
        /\ (Kind[h] = "inbound" => handler[h].pc # "idle")
    BY <1>6, Sides DEF LookupMiss, Looks, Handlers
  <2>2. row.blocked \in BOOLEAN /\ registry \in Number
    BY <1>1 DEF RowSide, PeerSide
  <2>3. ~handler[h].asked
    BY <1>1, <2>1 DEF Good
  <2>4. /\ s \in HandlerState /\ s.pc = "registry" /\ s.began = registry
        /\ s.shunned = row.blocked /\ ~s.asked
        /\ s.key = handler[h].key /\ s.signed = handler[h].signed
    BY <1>1, <2>2, <2>3 DEF HandlerState
  <2> HIDE DEF s
  <2>6. /\ registry <= registry
        /\ Kind[h] = "inbound" => s.signed # 0
        /\ ~lost => \A k \in {s.key, s.signed} \ {0} : k = keys /\ file = keys
    <3>1. /\ Kind[h] = "inbound" => handler[h].signed # 0
          /\ ~lost /\ handler[h].key # 0 => handler[h].key = keys /\ file = keys
          /\ ~lost /\ handler[h].signed # 0 => handler[h].signed = keys /\ file = keys
      BY <1>1, <2>1 DEF Good
    <3>2. registry <= registry
      BY <1>2
    <3> QED
      BY <3>1, <3>2, <2>4
  <2>5. Good(h, s, row.blocked, registry, keys, file, lost, omitted')
    BY <2>4, <2>6 DEF Good
  <2> QED
    BY <1>1, <2>1, <2>5, RowStays, HandlerMoves
<1>7. CASE AskRegistry(h)
  <2>1. UnchangedPeer /\ row' = row /\ handler[h].pc = "registry"
    BY <1>7 DEF AskRegistry
  <2>2. PICK url \in {0, registry}, key \in {0, registry} :
          IF 0 \in {url, key} /\ Kind[h] = "inbound"
          THEN End(h) /\ UNCHANGED omitted
          ELSE /\ handler' = [handler EXCEPT ![h] = [@ EXCEPT !.pc = "upsert", !.asked = TRUE,
                                                              !.url = url, !.key = key]]
               /\ omitted' = (omitted \/ 0 \in {url, key})
    BY <1>7 DEF AskRegistry
  <2>3. CASE 0 \in {url, key} /\ Kind[h] = "inbound"
    BY <1>3, <2>1, <2>2, <2>3
  <2>4. CASE ~(0 \in {url, key} /\ Kind[h] = "inbound")
    <3> DEFINE s == [handler[h] EXCEPT !.pc = "upsert", !.asked = TRUE,
                                       !.url = url, !.key = key]
    <3>1. handler' = [handler EXCEPT ![h] = s]
      BY <2>2, <2>4, Sides DEF Handlers
    <3>2. omitted' \in BOOLEAN /\ (omitted => omitted') /\ (omitted' \/ (url # 0 /\ key # 0))
      BY <1>1, <2>2, <2>4, Zenon
    <3>3. /\ s \in HandlerState /\ s.pc = "upsert" /\ s.asked /\ s.url = url /\ s.key = key
          /\ s.shunned = handler[h].shunned /\ s.began = handler[h].began
          /\ s.signed = handler[h].signed
      BY <1>1, <1>2, <2>2 DEF HandlerState, PeerSide
    <3>4. handler[h].began <= registry
      BY <1>1, <2>1 DEF Good
    <3> HIDE DEF s
    <3>5. ~lost => \A k \in {s.key, s.signed} \ {0} : k = keys /\ file = keys
      <4>1. s.key \in {0, registry} /\ s.signed = handler[h].signed
        BY <3>3
      <4>2. ~lost /\ handler[h].signed # 0 => handler[h].signed = keys /\ file = keys
        BY <1>1 DEF Good
      <4>3. ~lost /\ registry # 0 => registry = keys /\ file = keys
        BY <1>1 DEF PeerSide
      <4> QED
        BY <4>1, <4>2, <4>3
    <3>6. Good(h, s, row.blocked, registry, keys, file, lost, omitted')
      BY <1>1, <2>1, <3>2, <3>3, <3>4, <3>5 DEF Good
    <3> QED
      BY <1>1, <2>1, <3>1, <3>2, <3>6, RowStays, HandlerMoves
  <2> QED
    BY <2>3, <2>4
<1>8. CASE UpsertNode(h)
  <2>1. /\ UnchangedPeer /\ omitted' = omitted /\ handler[h].pc = "upsert"
        /\ row' = [row EXCEPT !.cached = TRUE, !.url = handler[h].url, !.key = handler[h].key]
    BY <1>8 DEF UpsertNode
  <2>2. RowSide' /\ row'.blocked = row.blocked
    BY <2>1, RowWritten
  <2>3. CASE row.blocked /\ Kind[h] # "send"
    <3>1. End(h)
      BY <1>8, <2>3 DEF UpsertNode
    <3> QED
      BY <2>1, <2>2, <3>1, HandlerEnds
  <2>4. CASE ~(row.blocked /\ Kind[h] # "send")
    <3>1. GoOn(h, handler[h].url, handler[h].key) /\ handler[h].asked /\ handler[h].pc # "idle"
      BY <1>1, <1>8, <2>1, <2>4 DEF UpsertNode, Good
    <3> QED
      BY <2>1, <2>2, <2>4, <3>1, HandlerGoesOn
  <2> QED
    BY <2>3, <2>4
<1>9. CASE Refuse(h) \/ Finish(h)
  BY <1>3, <1>9 DEF Refuse, Finish
<1> QED
  BY <1>4, <1>5, <1>6, <1>7, <1>8, <1>9

-----------------------------------------------------------------------------
(* The operator's two steps.                                               *)
LEMMA BlockStep == IInv /\ Block => IInv'
<1> SUFFICES ASSUME IInv, Block PROVE IInv'
  OBVIOUS
<1> DEFINE t(h) == IF handler[h].pc \in {"lookup", "registry", "upsert"}
                   THEN [handler[h] EXCEPT !.shunned = TRUE] ELSE handler[h]
<1>1. /\ PeerSide /\ RowSide /\ Handlers
      /\ row.cached /\ row' = [row EXCEPT !.blocked = TRUE]
      /\ handler' = [h \in Handler |-> t(h)]
      /\ UNCHANGED <<peer, file, keys, registry, lost, omitted>>
  BY Sides DEF Block, UnchangedPeer
<1>2. PeerSide'
  BY <1>1 DEF PeerSide, PeerInv
<1>3. RowSide'
  BY <1>1 DEF RowSide, OneRegistration, BlankOnlyByClients
<1>4. ASSUME NEW h \in Handler
      PROVE  Good(h, t(h), TRUE, registry, keys, file, lost, omitted)
  <2>1. Good(h, handler[h], row.blocked, registry, keys, file, lost, omitted)
    BY <1>1 DEF Handlers
  <2>2. CASE handler[h].pc \in {"lookup", "registry", "upsert"}
    <3>1. /\ t(h) \in HandlerState /\ t(h).pc = handler[h].pc /\ t(h).asked = handler[h].asked
          /\ t(h).url = handler[h].url /\ t(h).key = handler[h].key
          /\ t(h).began = handler[h].began /\ t(h).signed = handler[h].signed
          /\ t(h).get = handler[h].get
      BY <2>1, <2>2 DEF Good, HandlerState
    <3> HIDE DEF t
    <3> QED
      BY <2>1, <2>2, <3>1 DEF Good, IsFetch
  <2>3. CASE handler[h].pc \notin {"lookup", "registry", "upsert"}
    BY <2>1, <2>3 DEF Good
  <2> QED
    BY <2>2, <2>3
<1>5. row'.blocked = TRUE
  BY <1>1 DEF RowSide
<1>6. Handlers'
  <2>1. \A h \in Handler : t(h) \in HandlerState
    BY <1>4 DEF Good
  <2> HIDE DEF t
  <2> QED
    BY <1>1, <1>4, <1>5, <2>1 DEF Handlers
<1> QED
  BY <1>2, <1>3, <1>6, Together, PTL

LEMMA UnblockStep == IInv /\ Unblock => IInv'
<1> SUFFICES ASSUME IInv, Unblock PROVE IInv'
  OBVIOUS
<1> DEFINE t(h) == [handler[h] EXCEPT !.shunned = FALSE]
<1>1. /\ PeerSide /\ RowSide /\ Handlers
      /\ row' = [row EXCEPT !.blocked = FALSE]
      /\ handler' = [h \in Handler |-> t(h)]
      /\ UNCHANGED <<peer, file, keys, registry, lost, omitted>>
  BY Sides DEF Unblock, UnchangedPeer
<1>2. PeerSide'
  BY <1>1 DEF PeerSide, PeerInv
<1>3. RowSide'
  BY <1>1 DEF RowSide, OneRegistration, BlankOnlyByClients
<1>4. ASSUME NEW h \in Handler, NEW b
      PROVE  Good(h, t(h), b, registry, keys, file, lost, omitted)
  <2>1. Good(h, handler[h], row.blocked, registry, keys, file, lost, omitted)
    BY <1>1 DEF Handlers
  <2>2. /\ t(h) \in HandlerState /\ t(h).pc = handler[h].pc /\ t(h).asked = handler[h].asked
        /\ t(h).url = handler[h].url /\ t(h).key = handler[h].key /\ ~t(h).shunned
        /\ t(h).began = handler[h].began /\ t(h).signed = handler[h].signed
        /\ t(h).get = handler[h].get
    BY <2>1 DEF Good, HandlerState
  <2> HIDE DEF t
  <2> QED
    BY <2>1, <2>2 DEF Good, IsFetch
<1>5. Handlers'
  <2>1. \A h \in Handler : t(h) \in HandlerState
    BY <1>4 DEF Good
  <2> HIDE DEF t
  <2> QED
    BY <1>1, <1>4, <2>1 DEF Handlers
<1> QED
  BY <1>2, <1>3, <1>5, Together, PTL

-----------------------------------------------------------------------------
(* The inductive invariant, for every number of handlers and key pairs: a  *)
(* row and whatever a handler carries are as IInv says in every state.     *)
THEOREM DirectoryInvariant == Spec => []IInv
<1>1. IInv /\ [Next]_vars => IInv'
  <2> SUFFICES ASSUME IInv, [Next]_vars PROVE IInv'
    OBVIOUS
  <2>1. CASE Next
    BY <2>1, PeerSteps, HandlerSteps, BlockStep, UnblockStep DEF Next
  <2>2. CASE UNCHANGED vars
    <3>1. PeerSide' /\ RowSide' /\ Handlers'
      BY <2>2, Sides DEF vars, PeerSide, PeerInv, RowSide, OneRegistration,
                         BlankOnlyByClients, Handlers
    <3> QED
      BY <3>1, Together, PTL
  <2> QED
    BY <2>1, <2>2
<1> QED
  BY <1>1, InitIInv, PTL DEF Spec

(* Every variable keeps its type.                                          *)
THEOREM TypeCorrect == Spec => []TypeOK
<1>1. IInv => TypeOK
  BY DEF IInv
<1> QED
  BY <1>1, DirectoryInvariant, PTL

(* A block holds against handlers that cross it, with the two exceptions   *)
(* the code has.                                                           *)
THEOREM BlocksHold == Spec => []BlockedIsShunned
<1>1. IInv => BlockedIsShunned
  BY DEF IInv
<1> QED
  BY <1>1, DirectoryInvariant, PTL

(* Who asks the registry does not go on with an older registration, even   *)
(* when a handler that asked earlier writes the row last.                  *)
THEOREM MissesAreFresh == Spec => []FreshAfterMiss
<1>1. IInv => FreshAfterMiss
  BY DEF IInv, HandlerInv, FreshAfterMiss
<1> QED
  BY <1>1, DirectoryInvariant, PTL

(* The two columns of the row come from one registration.                  *)
THEOREM ColumnsAgree == Spec => []OneRegistration
<1>1. IInv => OneRegistration
  BY DEF IInv
<1> QED
  BY <1>1, DirectoryInvariant, PTL

(* Inbound authentication never leaves a column empty.                     *)
THEOREM BlanksAreClients == Spec => []BlankOnlyByClients
<1>1. IInv => BlankOnlyByClients
  BY DEF IInv
<1> QED
  BY <1>1, DirectoryInvariant, PTL

(* Before a key file was lost no signature fails but that of a key fetch   *)
(* on a URL with a path of its own, and there none passes.                 *)
THEOREM KnownPeersVerify == Spec => []SignaturesVerify
<1>1. IInv => SignaturesVerify
  BY DEF IInv, HandlerInv, SignaturesVerify
<1> QED
  BY <1>1, DirectoryInvariant, PTL
=============================================================================
