--------------------------- MODULE EnrollmentProofs ---------------------------
(***************************************************************************)
(* The safety invariants of Enrollment.tla for any number of users, keys   *)
(* and overlapping calls.  The invariant says where each row of devices    *)
(* came from (RowInv) and how far a call with a row, or with a spent       *)
(* token, has come (CallInv); three statements with other calls between    *)
(* them keep both because rows and used tokens only ever come to be.       *)
(***************************************************************************)
EXTENDS Enrollment, TLAPS

(* The fields of a call that has begun.                                    *)
Begun == [pc : {"check", "insert", "record", "done"}, reply : Reply,
          user : User, key : Key, token : User \cup Other, late : BOOLEAN]

LEMMA CallIsBegun ==
  ASSUME TypeOK, NEW c \in Call, call[c].pc # "waiting" PROVE call[c] \in Begun
BY DEF TypeOK, CallState, Waiting, Begun

(* What a call does to its own state when it goes on or answers.           *)
Moves(c, pc, r) ==
  /\ call' \in [Call -> CallState]
  /\ call'[c].pc = pc /\ call'[c].reply = r
  /\ call'[c].user = call[c].user /\ call'[c].key = call[c].key
  /\ call'[c].token = call[c].token /\ call'[c].late = call[c].late
  /\ \A d \in Call \ {c} : call'[d] = call[d]

LEMMA CallGoes ==
  ASSUME TypeOK, NEW c \in Call, call[c].pc \in {"check", "insert", "record"},
         NEW pc \in {"check", "insert", "record"}, Go(c, pc)
  PROVE  Moves(c, pc, "none")
<1> DEFINE new == [call[c] EXCEPT !.pc = pc]
<1>1. call[c] \in Begun
  BY CallIsBegun
<1>2. /\ new \in Begun /\ new.pc = pc /\ new.reply = call[c].reply /\ new.user = call[c].user
      /\ new.key = call[c].key /\ new.token = call[c].token /\ new.late = call[c].late
  BY <1>1 DEF Begun
<1>3. call' = [call EXCEPT ![c] = new] /\ call \in [Call -> CallState]
  BY DEF Go, TypeOK
<1>4. call[c].reply = "none"
  BY DEF TypeOK
<1>5. new \in CallState
  BY <1>2 DEF CallState, Begun
<1> HIDE DEF new
<1> QED
  BY <1>2, <1>3, <1>4, <1>5 DEF Moves

LEMMA CallAnswers ==
  ASSUME TypeOK, NEW c \in Call, call[c].pc \in {"check", "insert", "record"},
         NEW r \in Reply, Answer(c, r)
  PROVE  Moves(c, "done", r)
<1> DEFINE new == [call[c] EXCEPT !.pc = "done", !.reply = r]
<1>1. call[c] \in Begun
  BY CallIsBegun
<1>2. /\ new \in Begun /\ new.pc = "done" /\ new.reply = r /\ new.user = call[c].user
      /\ new.key = call[c].key /\ new.token = call[c].token /\ new.late = call[c].late
  BY <1>1 DEF Begun
<1>3. call' = [call EXCEPT ![c] = new] /\ call \in [Call -> CallState]
  BY DEF Answer, TypeOK
<1>4. new \in CallState
  BY <1>2 DEF CallState, Begun
<1> HIDE DEF new
<1> QED
  BY <1>2, <1>3, <1>4 DEF Moves

(* A row is well typed, and its call is past the insert.                   *)
LEMMA RowTypes ==
  ASSUME TypeOK, RowInv, NEW i \in 1..Len(devices)
  PROVE  /\ devices[i] \in [user : users, key : Key, token : held, by : Call]
         /\ call[devices[i].by].pc \in {"record", "done"}
<1> DEFINE RowType == [user : users, key : Key, token : held, by : Call]
<1>1. devices \in Seq(RowType)
  BY DEF TypeOK
<1>2. devices[i] \in RowType
  <2> HIDE DEF RowType
  <2> QED
    BY <1>1
<1>3. call[devices[i].by].pc \in {"record", "done"}
  BY DEF RowInv
<1> QED
  BY <1>2, <1>3

LEMMA InitIInv == Init => IInv
BY DEF Init, IInv, TypeOK, CallState, Waiting, RowInv, CallInv, SpentMeansEnrolled, Rows

-----------------------------------------------------------------------------
(* A step that adds no row keeps RowInv if the calls with rows keep what   *)
(* they had.                                                               *)
LEMMA RowsKeep ==
  ASSUME RowInv, devices' = devices,
         \A i \in 1..Len(devices) :
           LET d == devices[i].by
           IN /\ call'[d].pc \in {"record", "done"}
              /\ call'[d].user = call[d].user /\ call'[d].key = call[d].key
              /\ call'[d].token = call[d].token /\ call'[d].late = call[d].late
  PROVE  RowInv'
BY DEF RowInv

(* The same for CallInv: rows and used tokens stay, and so does each call  *)
(* but one, which is looked at by itself.                                  *)
CallFine(c) ==
  /\ call[c].pc # "waiting" => /\ call[c].token \in held
                               /\ call[c].late => call[c].token \in used
  /\ call[c].pc \in {"insert", "record"} => ~call[c].late
  /\ call[c].pc = "record" \/ call[c].reply = "201" =>
       \E i \in 1..Len(devices) : devices[i].by = c
  /\ call[c].reply = "201" => call[c].token \in used

LEMMA CallsKeep ==
  ASSUME CallInv, NEW c \in Call, CallFine(c)',
         \A d \in Call \ {c} : call'[d] = call[d],
         used \subseteq used', held \subseteq held',
         \A i \in 1..Len(devices) : i \in 1..Len(devices') /\ devices'[i].by = devices[i].by
  PROVE  CallInv'
<1>1. \A d \in Call : CallFine(d)
  BY DEF CallInv, CallFine
<1>2. ASSUME NEW d \in Call, d # c PROVE CallFine(d)'
  <2>1. CallFine(d) /\ call'[d] = call[d]
    BY <1>1, <1>2
  <2> QED
    BY <2>1 DEF CallFine
<1>3. \A d \in Call : CallFine(d)'
  BY <1>2
<1> QED
  BY <1>3 DEF CallInv, CallFine

(* A call goes on, or answers, and writes no table: it answers no 201 and  *)
(* reaches "insert" only with a token that was not used when it began.     *)
LEMMA QuietStep ==
  ASSUME IInv, NEW c \in Call, call[c].pc \in {"check", "insert", "record"},
         NEW pc \in {"insert", "done"}, NEW r \in Reply \ {"201"}, Moves(c, pc, r),
         pc = "done" <=> r # "none",
         pc = "insert" => call[c].pc = "check" /\ ~call[c].late,
         UNCHANGED <<users, held, expired, devices, used>>
  PROVE  IInv'
<1>1. TypeOK /\ RowInv /\ CallInv /\ SpentMeansEnrolled
  BY DEF IInv
<1>2. TypeOK'
  <2>1. call' \in [Call -> CallState]
    BY DEF Moves
  <2>2. \A d \in Call : call'[d].pc = "done" <=> call'[d].reply # "none"
    BY <1>1 DEF Moves, TypeOK
  <2> QED
    BY <1>1, <2>1, <2>2 DEF TypeOK
<1>3. RowInv'
  <2>1. ASSUME NEW i \in 1..Len(devices)
        PROVE  LET d == devices[i].by
               IN /\ call'[d].pc \in {"record", "done"}
                  /\ call'[d].user = call[d].user /\ call'[d].key = call[d].key
                  /\ call'[d].token = call[d].token /\ call'[d].late = call[d].late
    <3>1. devices[i].by \in Call /\ call[devices[i].by].pc \in {"record", "done"}
      BY <1>1, RowTypes
    <3>2. devices[i].by = c => pc = "done"
      BY <3>1
    <3> QED
      BY <3>1, <3>2 DEF Moves
  <2> QED
    BY <1>1, <2>1, RowsKeep
<1>4. CallInv'
  <2>1. CallFine(c)'
    BY <1>1 DEF CallInv, CallFine, Moves
  <2> QED
    BY <1>1, <2>1, CallsKeep DEF Moves
<1>5. SpentMeansEnrolled'
  BY <1>1 DEF SpentMeansEnrolled, Rows
<1> QED
  BY <1>2, <1>3, <1>4, <1>5 DEF IInv

(* A client begins its call: late or not, it has no row.                   *)
LEMMA BeginStep ==
  ASSUME IInv, NEW c \in Call, NEW u \in User, NEW k \in Key, NEW t \in held, Begin(c, u, k, t)
  PROVE  IInv'
<1>1. TypeOK /\ RowInv /\ CallInv /\ SpentMeansEnrolled
  BY DEF IInv
<1>2. /\ UNCHANGED <<users, held, expired, devices, used>> /\ call[c].pc = "waiting"
      /\ call'[c] = [pc |-> "check", reply |-> "none", user |-> u, key |-> k,
                      token |-> t, late |-> t \in used]
      /\ \A d \in Call \ {c} : call'[d] = call[d]
  BY <1>1 DEF Begin, UnchangedTables, TypeOK
<1>3. call'[c] \in CallState
  <2>1. t \in User \cup Other
    BY <1>1 DEF TypeOK
  <2> QED
    BY <1>2, <2>1 DEF CallState, Reply
<1>4. TypeOK'
  <2>1. call' \in [Call -> CallState]
    BY <1>1, <1>3 DEF Begin, TypeOK
  <2>2. \A d \in Call : call'[d].pc = "done" <=> call'[d].reply # "none"
    BY <1>1, <1>2 DEF TypeOK
  <2> QED
    BY <1>1, <1>2, <2>1, <2>2 DEF TypeOK
<1>5. RowInv'
  <2>1. \A i \in 1..Len(devices) : devices[i].by \in Call \ {c}
    BY <1>1, <1>2, RowTypes
  <2>2. \A i \in 1..Len(devices) : call'[devices[i].by] = call[devices[i].by]
    BY <1>2, <2>1
  <2> QED
    BY <1>1, <1>2, <2>2, RowTypes, RowsKeep
<1>6. CallInv'
  <2>1. call'[c].token \in held' /\ (call'[c].late => call'[c].token \in used')
    <3> DEFINE late == t \in used
    <3>1. call'[c] = [pc |-> "check", reply |-> "none", user |-> u, key |-> k,
                      token |-> t, late |-> late]
      BY <1>2
    <3>2. late => t \in used
      OBVIOUS
    <3>3. held' = held /\ used' = used
      BY <1>2
    <3> HIDE DEF late
    <3>4. call'[c].token = t /\ call'[c].late = late
      BY <3>1
    <3> QED
      BY <3>2, <3>3, <3>4
  <2>2. call'[c].pc = "check" /\ call'[c].reply = "none"
    BY <1>2
  <2>3. CallFine(c)'
    BY <2>1, <2>2 DEF CallFine
  <2> QED
    BY <1>1, <1>2, <2>3, CallsKeep
<1>7. SpentMeansEnrolled'
  BY <1>1, <1>2 DEF SpentMeansEnrolled, Rows
<1> QED
  BY <1>4, <1>5, <1>6, <1>7 DEF IInv

(* The device is inserted: its call is not late, nobody else has a row of  *)
(* this user and key, and the new row is the last of its key.              *)
LEMMA InsertStep ==
  ASSUME IInv, NEW c \in Call, call[c].pc = "insert",
         ~\E r \in Rows : r.user = call[c].user /\ r.key = call[c].key,
         Go(c, "record"),
         devices' = Append(devices, [user |-> call[c].user, key |-> call[c].key,
                                     token |-> call[c].token, by |-> c]),
         call[c].user \in users,
         UNCHANGED <<users, held, expired, used>>
  PROVE  IInv'
<1> DEFINE row == [user |-> call[c].user, key |-> call[c].key,
                   token |-> call[c].token, by |-> c]
           n == Len(devices)
           RowType == [user : users, key : Key, token : held, by : Call]
<1>1. TypeOK /\ RowInv /\ CallInv /\ SpentMeansEnrolled
  BY DEF IInv
<1>2. Moves(c, "record", "none")
  BY <1>1, CallGoes
<1>3. row \in RowType
  <2>1. call[c] \in Begun /\ call[c].token \in held
    BY <1>1, CallIsBegun DEF CallInv
  <2> QED
    BY <2>1 DEF Begun
<1>4. devices \in Seq(RowType) /\ n \in Nat
  BY <1>1 DEF TypeOK
<1>5. /\ devices' \in Seq(RowType) /\ Len(devices') = n + 1
      /\ \A i \in 1..n : devices'[i] = devices[i]
      /\ devices'[n + 1] = row
  BY <1>3, <1>4
<1>6. TypeOK'
  <2>1. call' \in [Call -> CallState]
    BY <1>2 DEF Moves
  <2>2. \A d \in Call : call'[d].pc = "done" <=> call'[d].reply # "none"
    BY <1>1, <1>2 DEF Moves, TypeOK
  <2> QED
    BY <1>1, <1>5, <2>1, <2>2 DEF TypeOK
<1>7. \A i \in 1..n : devices[i].user = row.user /\ devices[i].key = row.key => FALSE
  BY DEF Rows
<1>8. \A i \in 1..n : devices[i].by # c /\ devices[i].by \in Call
  BY <1>1, RowTypes
<1> HIDE DEF row
<1>9. row.user = call[c].user /\ row.key = call[c].key /\ row.token = call[c].token /\ row.by = c
  BY DEF row
<1>10. RowInv'
  <2>1. ASSUME NEW i \in 1..(n + 1)
        PROVE  LET r == devices'[i]
                   d == call'[r.by]
               IN /\ d.pc \in {"record", "done"} /\ ~d.late
                  /\ d.user = r.user /\ d.key = r.key /\ d.token = r.token
    <3>1. CASE i = n + 1
      <4>1. devices'[i] = row /\ ~call[c].late
        BY <1>1, <1>5, <3>1 DEF CallInv
      <4> QED
        BY <1>2, <1>9, <4>1 DEF Moves
    <3>2. CASE i \in 1..n
      <4>1. devices'[i] = devices[i] /\ call'[devices[i].by] = call[devices[i].by]
        BY <1>2, <1>5, <1>8, <3>2 DEF Moves
      <4> QED
        BY <1>1, <3>2, <4>1 DEF RowInv
    <3> QED
      BY <1>4, <3>1, <3>2
  <2>2. ASSUME NEW i \in 1..(n + 1), NEW j \in 1..(n + 1),
               devices'[i].user = devices'[j].user, devices'[i].key = devices'[j].key
        PROVE  i = j
    <3>1. CASE i \in 1..n /\ j \in 1..n
      <4>1. devices'[i] = devices[i] /\ devices'[j] = devices[j]
        BY <1>5, <3>1
      <4> QED
        BY <1>1, <2>2, <3>1, <4>1 DEF RowInv
    <3>2. CASE i \in 1..n /\ j = n + 1
      BY <1>5, <1>7, <2>2, <3>2
    <3>3. CASE i = n + 1 /\ j \in 1..n
      BY <1>5, <1>7, <2>2, <3>3
    <3> QED
      BY <1>4, <3>1, <3>2, <3>3
  <2>3. ASSUME NEW i \in 1..(n + 1)
        PROVE  \E j \in 1..(n + 1) :
                 /\ devices'[j].key = devices'[i].key
                 /\ \A h \in 1..(n + 1) : devices'[h].key = devices'[i].key => h <= j
    <3>1. CASE devices'[i].key = row.key
      BY <1>4, <1>5, <3>1
    <3>2. CASE devices'[i].key # row.key
      <4>1. i \in 1..n
        BY <1>4, <1>5, <3>2
      <4>2. PICK j \in 1..n : /\ devices[j].key = devices[i].key
                              /\ \A h \in 1..n : devices[h].key = devices[i].key => h <= j
        BY <1>1, <4>1 DEF RowInv
      <4>3. j \in 1..(n + 1) /\ devices'[j].key = devices'[i].key
        BY <1>4, <1>5, <4>1, <4>2
      <4>4. ASSUME NEW h \in 1..(n + 1), devices'[h].key = devices'[i].key PROVE h <= j
        <5>1. h \in 1..n
          BY <1>4, <1>5, <3>2, <4>4
        <5>2. devices[h].key = devices[i].key
          BY <1>5, <4>1, <4>4, <5>1
        <5> QED
          BY <4>2, <5>1, <5>2
      <4> QED
        BY <4>3, <4>4
    <3> QED
      BY <3>1, <3>2
  <2>4. 1..Len(devices') = 1..(n + 1)
    BY <1>5
  <2> HIDE DEF n
  <2>5. \A i \in 1..Len(devices') :
          LET r == devices'[i]
              d == call'[r.by]
          IN /\ d.pc \in {"record", "done"} /\ ~d.late
             /\ d.user = r.user /\ d.key = r.key /\ d.token = r.token
    BY <2>1, <2>4
  <2>6. \A i, j \in 1..Len(devices') :
          devices'[i].user = devices'[j].user /\ devices'[i].key = devices'[j].key => i = j
    BY <2>2, <2>4
  <2>7. \A i \in 1..Len(devices') : \E j \in 1..Len(devices') :
          /\ devices'[j].key = devices'[i].key
          /\ \A h \in 1..Len(devices') : devices'[h].key = devices'[i].key => h <= j
    BY <2>3, <2>4, Zenon
  <2> QED
    BY <2>5, <2>6, <2>7 DEF RowInv
<1>11. CallInv'
  <2>1. n + 1 \in 1..Len(devices') /\ devices'[n + 1].by = c
    BY <1>4, <1>5, <1>9
  <2>2. CallFine(c)
    BY <1>1 DEF CallInv, CallFine
  <2>3. CallFine(c)'
    BY <1>2, <2>1, <2>2 DEF CallFine, Moves
  <2>4. \A i \in 1..Len(devices) : i \in 1..Len(devices') /\ devices'[i].by = devices[i].by
    BY <1>4, <1>5
  <2> QED
    BY <1>1, <1>2, <2>3, <2>4, CallsKeep DEF Moves
<1>12. SpentMeansEnrolled'
  <2>1. \A i \in 1..n : i \in 1..Len(devices') /\ devices'[i] = devices[i]
    BY <1>4, <1>5
  <2>2. Rows \subseteq Rows'
    BY <2>1 DEF Rows
  <2> QED
    BY <1>1, <2>2 DEF SpentMeansEnrolled
<1> QED
  BY <1>6, <1>10, <1>11, <1>12 DEF IInv

(* The token is recorded: the call has the row that shows for it.          *)
LEMMA RecordStep ==
  ASSUME IInv, NEW c \in Call, RecordToken(c) PROVE IInv'
<1>1. TypeOK /\ RowInv /\ CallInv /\ SpentMeansEnrolled
  BY DEF IInv
<1>2. /\ UNCHANGED <<users, held, expired, devices>> /\ call[c].pc = "record"
      /\ used' = used \cup {call[c].token}
  BY DEF RecordToken
<1>3. PICK r \in {"201", "500", "lost"} : Answer(c, r)
  BY DEF RecordToken
<1>4. Moves(c, "done", r)
  BY <1>1, <1>2, <1>3, CallAnswers DEF Reply
<1>5. call[c].token \in held /\ ~call[c].late
  BY <1>1, <1>2 DEF CallInv
<1>6. PICK i \in 1..Len(devices) : devices[i].by = c
  BY <1>1, <1>2 DEF CallInv
<1>7. TypeOK'
  <2>1. call' \in [Call -> CallState]
    BY <1>4 DEF Moves
  <2>2. \A d \in Call : call'[d].pc = "done" <=> call'[d].reply # "none"
    BY <1>1, <1>4 DEF Moves, TypeOK
  <2> QED
    BY <1>1, <1>2, <1>5, <2>1, <2>2 DEF TypeOK
<1>8. RowInv'
  <2>1. ASSUME NEW h \in 1..Len(devices)
        PROVE  LET d == devices[h].by
               IN /\ call'[d].pc \in {"record", "done"}
                  /\ call'[d].user = call[d].user /\ call'[d].key = call[d].key
                  /\ call'[d].token = call[d].token /\ call'[d].late = call[d].late
    <3>1. devices[h].by \in Call /\ call[devices[h].by].pc \in {"record", "done"}
      BY <1>1, RowTypes
    <3> QED
      BY <1>4, <3>1 DEF Moves
  <2> QED
    BY <1>1, <1>2, <2>1, RowsKeep
<1>9. CallInv'
  <2>1. CallFine(c)'
    BY <1>2, <1>4, <1>5, <1>6 DEF CallFine, Moves
  <2> QED
    BY <1>1, <1>2, <1>4, <2>1, CallsKeep DEF Moves
<1>10. SpentMeansEnrolled'
  <2>1. Rows' = Rows
    BY <1>2 DEF Rows
  <2>2. devices[i] \in Rows /\ devices[i].token = call[c].token
    BY <1>1, <1>6 DEF Rows, RowInv
  <2> QED
    BY <1>1, <1>2, <2>1, <2>2 DEF SpentMeansEnrolled
<1> QED
  BY <1>7, <1>8, <1>9, <1>10 DEF IInv

(* A user is created; its token may reach a client.                        *)
LEMMA CreateStep ==
  ASSUME IInv, NEW u \in User, CreateUser(u) PROVE IInv'
<1>1. TypeOK /\ RowInv /\ CallInv /\ SpentMeansEnrolled
  BY DEF IInv
<1>2. /\ users' = users \cup {u} /\ held \subseteq held' /\ held' \subseteq held \cup {u}
      /\ UNCHANGED <<expired, devices, used, call>>
  BY DEF CreateUser
<1>3. TypeOK'
  <2> DEFINE RowType == [user : users, key : Key, token : held, by : Call]
             NewType == [user : users', key : Key, token : held', by : Call]
  <2>1. devices \in Seq(NewType)
    <3>1. devices \in Seq(RowType)
      BY <1>1 DEF TypeOK
    <3>2. RowType \subseteq NewType
      BY <1>2
    <3> HIDE DEF RowType, NewType
    <3> QED
      BY <3>1, <3>2
  <2>2. /\ held' \subseteq users' \cup Other /\ users' \subseteq User
        /\ expired' \subseteq users' \cup Other /\ used' \subseteq held'
    BY <1>1, <1>2 DEF TypeOK
  <2>3. /\ call' \in [Call -> CallState]
        /\ \A c \in Call : call'[c].pc = "done" <=> call'[c].reply # "none"
    BY <1>1, <1>2 DEF TypeOK
  <2> QED
    BY <1>2, <2>1, <2>2, <2>3 DEF TypeOK
<1>4. RowInv' /\ SpentMeansEnrolled'
  BY <1>1, <1>2 DEF RowInv, SpentMeansEnrolled, Rows
<1>5. CallInv'
  BY <1>1, <1>2 DEF CallInv
<1> QED
  BY <1>3, <1>4, <1>5 DEF IInv

LEMMA NextIInv == IInv /\ [Next]_vars => IInv'
<1> SUFFICES ASSUME IInv, [Next]_vars PROVE IInv'
  OBVIOUS
<1>1. TypeOK /\ CallInv
  BY DEF IInv
<1>2. ASSUME NEW u \in User, CreateUser(u) PROVE IInv'
  BY <1>2, CreateStep
<1>3. ASSUME NEW u \in User, Expire(u) PROVE IInv'
  BY <1>3 DEF Expire, IInv, TypeOK, RowInv, CallInv, SpentMeansEnrolled, Rows
<1>4. ASSUME NEW c \in Call, NEW u \in User, NEW k \in Key, NEW t \in held, Begin(c, u, k, t)
      PROVE  IInv'
  BY <1>4, BeginStep
<1>5. ASSUME NEW c \in Call, CheckToken(c) PROVE IInv'
  <2>1. call[c].pc = "check" /\ UNCHANGED <<users, held, expired, devices, used>>
    BY <1>5 DEF CheckToken, UnchangedTables
  <2>2. CASE Answer(c, "401")
    <3>1. Moves(c, "done", "401")
      BY <1>1, <2>1, <2>2, CallAnswers DEF Reply
    <3> QED
      BY <2>1, <3>1, QuietStep DEF Reply
  <2>3. CASE call[c].token \notin used /\ Go(c, "insert")
    <3>1. Moves(c, "insert", "none")
      BY <1>1, <2>1, <2>3, CallGoes
    <3>2. ~call[c].late
      BY <1>1, <2>1, <2>3 DEF CallInv
    <3> QED
      BY <2>1, <3>1, <3>2, QuietStep DEF Reply
  <2> QED
    BY <1>5, <2>2, <2>3 DEF CheckToken
<1>6. ASSUME NEW c \in Call, InsertDevice(c) PROVE IInv'
  <2>1. call[c].pc = "insert" /\ UNCHANGED <<users, held, expired, used>>
    BY <1>6 DEF InsertDevice
  <2>2. ASSUME NEW r \in {"400", "500"}, Answer(c, r), UNCHANGED devices PROVE IInv'
    <3>1. Moves(c, "done", r)
      BY <1>1, <2>1, <2>2, CallAnswers DEF Reply
    <3> QED
      BY <2>1, <2>2, <3>1, QuietStep DEF Reply
  <2>3. CASE /\ call[c].user \in users
             /\ ~\E r \in Rows : r.user = call[c].user /\ r.key = call[c].key
             /\ Go(c, "record")
             /\ devices' = Append(devices, [user |-> call[c].user, key |-> call[c].key,
                                            token |-> call[c].token, by |-> c])
    BY <2>1, <2>3, InsertStep
  <2> QED
    BY <1>6, <2>2, <2>3 DEF InsertDevice
<1>7. ASSUME NEW c \in Call, RecordToken(c) PROVE IInv'
  BY <1>7, RecordStep
<1>8. ASSUME NEW c \in Call, StatementFails(c) \/ CutOff(c) PROVE IInv'
  <2>1. /\ call[c].pc \in {"check", "insert", "record"}
        /\ UNCHANGED <<users, held, expired, devices, used>>
    BY <1>8 DEF StatementFails, CutOff, UnchangedTables
  <2>2. PICK r \in {"500", "lost"} : Answer(c, r)
    BY <1>8 DEF StatementFails, CutOff
  <2>3. Moves(c, "done", r)
    BY <1>1, <2>1, <2>2, CallAnswers DEF Reply
  <2> QED
    BY <2>1, <2>3, QuietStep DEF Reply
<1>9. CASE UNCHANGED vars
  BY <1>9 DEF vars, IInv, TypeOK, RowInv, CallInv, SpentMeansEnrolled, Rows
<1> QED
  BY <1>2, <1>3, <1>4, <1>5, <1>6, <1>7, <1>8, <1>9 DEF Next

(* The tables and the calls keep their types, every row is its call's, and *)
(* a used token has a row: the inductive invariant holds in every state.   *)
THEOREM EnrollmentInductive == Spec => []IInv
<1> QED
  BY InitIInv, NextIInv, PTL DEF Spec

-----------------------------------------------------------------------------
(* A call that began after its token was recorded enrols nobody.           *)
THEOREM SpentTokensAreRefused == Spec => []SpentTokenEnrollsNobody
<1>1. IInv => SpentTokenEnrollsNobody
  BY DEF IInv, RowInv, SpentTokenEnrollsNobody
<1> QED
  BY <1>1, EnrollmentInductive, PTL

(* No failure of a statement, and no call cut off, uses a token up without *)
(* a device to show for it.                                                *)
THEOREM SpentTokensHaveDevices == Spec => []SpentMeansEnrolled
<1>1. IInv => SpentMeansEnrolled
  BY DEF IInv
<1> QED
  BY <1>1, EnrollmentInductive, PTL

(* Of the rows with a key that has one, AuthenticatedDevice finds the last *)
(* one.                                                                    *)
LEMMA AuthenticatedLast ==
  ASSUME RowInv, NEW i \in 1..Len(devices)
  PROVE  \E j \in 1..Len(devices) :
           devices[j].key = devices[i].key /\ AuthenticatedAs(devices[i].key) = {devices[j].user}
<1> DEFINE k == devices[i].key
           mine == {h \in 1..Len(devices) : devices[h].key = k}
           last == CHOOSE h \in mine : \A j \in mine : j <= h
<1>1. \E h \in mine : \A j \in mine : j <= h
  BY DEF RowInv
<1>2. last \in mine
  BY <1>1
<1>3. AuthenticatedAs(k) = {devices[last].user}
  BY <1>2 DEF AuthenticatedAs
<1> QED
  BY <1>2, <1>3

(* What a 201 says is true for good: the device is in the user's bundle,   *)
(* its token is used up, and requests signed with its key are the user's   *)
(* until somebody enrols the key for another user.                         *)
THEOREM ConfirmedDevicesAreEnrolled == Spec => []ConfirmedMeansEnrolled
<1>1. ASSUME IInv, NEW c \in Call, call[c].reply = "201"
      PROVE  /\ \E r \in Rows : r.by = c
             /\ call[c].token \in used
             /\ call[c].key \in Bundle(call[c].user)
             /\ \/ AuthenticatedAs(call[c].key) = {call[c].user}
                \/ \E r \in Rows : r.key = call[c].key /\ r.user # call[c].user /\ r.by # c
  <2>1. RowInv /\ CallInv
    BY <1>1 DEF IInv
  <2>2. call[c].token \in used
    BY <1>1, <2>1 DEF CallInv
  <2>3. PICK i \in 1..Len(devices) : devices[i].by = c
    BY <1>1, <2>1 DEF CallInv
  <2>4. devices[i].user = call[c].user /\ devices[i].key = call[c].key
    BY <2>1, <2>3 DEF RowInv
  <2>5. devices[i] \in Rows
    BY DEF Rows
  <2>6. call[c].key \in Bundle(call[c].user)
    BY <2>4, <2>5 DEF Bundle
  <2>7. PICK j \in 1..Len(devices) :
          devices[j].key = call[c].key /\ AuthenticatedAs(call[c].key) = {devices[j].user}
    BY <2>1, <2>4, AuthenticatedLast
  <2>8. devices[j] \in Rows /\ (devices[j].by = c => devices[j].user = call[c].user)
    BY <2>1 DEF Rows, RowInv
  <2> QED
    BY <2>2, <2>3, <2>5, <2>6, <2>7, <2>8
<1>2. IInv => ConfirmedMeansEnrolled
  BY <1>1 DEF ConfirmedMeansEnrolled
<1> QED
  BY <1>2, EnrollmentInductive, PTL

(* A device that a failed or lost call left behind is there for good: no   *)
(* other call with its user and key is ever told 201.                      *)
THEOREM HalfEnrolledDevicesAreFinal == Spec => []HalfEnrolledIsFinal
<1>1. ASSUME IInv, NEW c \in Call, NEW r \in Rows, r.by = c,
             NEW d \in Call \ {c}, call[d].reply = "201"
      PROVE  <<call[d].user, call[d].key>> # <<call[c].user, call[c].key>>
  <2>1. RowInv /\ CallInv
    BY <1>1 DEF IInv
  <2>2. PICK i \in 1..Len(devices) : devices[i].by = c
    BY <1>1 DEF Rows
  <2>3. PICK j \in 1..Len(devices) : devices[j].by = d
    BY <1>1, <2>1 DEF CallInv
  <2>4. i # j
    BY <2>2, <2>3
  <2>5. /\ devices[i].user = call[c].user /\ devices[i].key = call[c].key
        /\ devices[j].user = call[d].user /\ devices[j].key = call[d].key
    BY <2>1, <2>2, <2>3 DEF RowInv
  <2>6. ~(devices[i].user = devices[j].user /\ devices[i].key = devices[j].key)
    BY <2>1, <2>4 DEF RowInv
  <2> QED
    BY <2>5, <2>6
<1>2. IInv => HalfEnrolledIsFinal
  BY <1>1 DEF HalfEnrolledIsFinal
<1> QED
  BY <1>2, EnrollmentInductive, PTL
=============================================================================
