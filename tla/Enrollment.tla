----------------------------- MODULE Enrollment -----------------------------
(***************************************************************************)
(* Users and their devices: POST /users/create hands out a token valid for *)
(* five minutes, POST /users/:id/devices enrols a device with it.  The     *)
(* handler checks the token, inserts the device and records the token as   *)
(* used, in three statements; calls interleave and may be cut off between  *)
(* them.  The device table then serves key bundles and authenticates.      *)
(*                                                                         *)
(* A token is known by the user it was made for.  A client may also bring  *)
(* a string that is no token of this node: it never decodes.               *)
(***************************************************************************)
EXTENDS Naturals, Sequences

CONSTANTS
  User,   \* users who may be created; their tokens
  Other,  \* strings that were never handed out as a token
  Key,    \* identity keys of devices
  Call    \* calls of create_device, each made once

ASSUME EnrollmentAssumption == User \cap Other = {}

VARIABLES
  users,    \* table users
  held,     \* what clients may bring as a token
  expired,  \* tokens that no longer decode
  devices,  \* table devices, by created_at; by: the call, token: its token
  used,     \* table used_tokens
  call      \* the calls; late: the token had been used when the call began

vars == <<users, held, expired, devices, used, call>>

(* "lost": the handler was dropped, or the process ended.                  *)
Reply == {"none", "201", "400", "401", "500", "lost"}

Waiting == [pc |-> "waiting", reply |-> "none"]

CallState ==
  {Waiting} \cup
  [pc : {"check", "insert", "record", "done"}, reply : Reply,
   user : User, key : Key, token : User \cup Other, late : BOOLEAN]

TypeOK ==
  /\ held \subseteq users \cup Other /\ users \subseteq User
  /\ expired \subseteq users \cup Other
  /\ devices \in Seq([user : users, key : Key, token : held, by : Call])
  /\ used \subseteq held
  /\ call \in [Call -> CallState]
  /\ \A c \in Call : call[c].pc = "done" <=> call[c].reply # "none"

Init ==
  /\ users = {} /\ held = Other /\ expired = Other
  /\ devices = <<>>
  /\ used = {}
  /\ call = [c \in Call |-> Waiting]

Rows == {devices[i] : i \in 1..Len(devices)}

Answer(c, r) == call' = [call EXCEPT ![c].pc = "done", ![c].reply = r]
Go(c, pc) == call' = [call EXCEPT ![c].pc = pc]

UnchangedTables == UNCHANGED <<users, devices, used>>

-----------------------------------------------------------------------------
(* Faulty variants: nothing uses them, see README.                         *)

(* The token is used up by the check.                                      *)
CheckTokenSpends(c) ==
  /\ call[c].pc = "check"
  /\ IF call[c].token \in used \/ (call[c].token \notin expired /\ call[c].token # call[c].user)
     THEN Answer(c, "401") /\ UNCHANGED used
     ELSE Go(c, "insert") /\ used' = used \cup {call[c].token}
  /\ UNCHANGED <<users, held, expired, devices>>

(* Only live tokens are looked up.                                         *)
CheckTokenLive(c) ==
  /\ call[c].pc = "check"
  /\ IF call[c].token \notin expired
        /\ (call[c].token \in used \/ call[c].token # call[c].user)
     THEN Answer(c, "401")
     ELSE Go(c, "insert")
  /\ UnchangedTables
  /\ UNCHANGED <<held, expired>>

(* A failure to record the token is only logged.                           *)
RecordTokenFailsSilently(c) ==
  /\ call[c].pc = "record"
  /\ Answer(c, "201")
  /\ UnchangedTables
  /\ UNCHANGED <<held, expired>>

(* The insert replaces the row of a device that is enrolled already.       *)
InsertOrReplace(c) ==
  /\ call[c].pc = "insert"
  /\ LET new == [user |-> call[c].user, key |-> call[c].key, token |-> call[c].token, by |-> c]
         Same(r) == r.user = new.user /\ r.key = new.key
     IN IF new.user \notin users
        THEN Answer(c, "400") /\ UNCHANGED devices
        ELSE /\ Go(c, "record")
             /\ devices' = IF \E r \in Rows : Same(r)
                           THEN [i \in 1..Len(devices) |-> IF Same(devices[i]) THEN new ELSE devices[i]]
                           ELSE Append(devices, new)
  /\ UNCHANGED <<users, held, expired, used>>

(* The foreign key on the user is missing.                                 *)
InsertForAnyone(c) ==
  /\ call[c].pc = "insert"
  /\ Go(c, "record")
  /\ devices' = Append(devices, [user |-> call[c].user, key |-> call[c].key,
                                 token |-> call[c].token, by |-> c])
  /\ UNCHANGED <<users, held, expired, used>>

-----------------------------------------------------------------------------
(* A name is taken once: a client whose answer is lost has no token, and a *)
(* second try is a conflict.                                               *)
CreateUser(u) ==
  /\ u \notin users
  /\ users' = users \cup {u}
  /\ held' \in {held, held \cup {u}}
  /\ UNCHANGED <<expired, devices, used, call>>

Expire(t) ==
  /\ t \in users \ expired
  /\ expired' = expired \cup {t}
  /\ UNCHANGED <<users, held, devices, used, call>>

Begin(c, u, k, t) ==
  /\ call[c].pc = "waiting"
  /\ call' = [call EXCEPT ![c] = [pc |-> "check", reply |-> "none", user |-> u, key |-> k,
                                  token |-> t, late |-> t \in used]]
  /\ UnchangedTables
  /\ UNCHANGED <<held, expired>>

(* A token that decodes must be the user's; one that does not is let pass. *)
(* A prekey that the device's key did not sign is refused here, too.       *)
CheckToken(c) ==
  /\ call[c].pc = "check"
  /\ \/ Answer(c, "401")
     \/ /\ call[c].token \notin used
        /\ call[c].token \in expired \/ call[c].token = call[c].user
        /\ Go(c, "insert")
  /\ UnchangedTables
  /\ UNCHANGED <<held, expired>>

(* The user is a foreign key, and the user with the key is unique.         *)
InsertDevice(c) ==
  /\ call[c].pc = "insert"
  /\ \/ /\ call[c].user \notin users
        /\ Answer(c, "400")
        /\ UNCHANGED devices
     \/ /\ \E r \in Rows : r.user = call[c].user /\ r.key = call[c].key
        /\ Answer(c, "500")
        /\ UNCHANGED devices
     \/ /\ call[c].user \in users
        /\ ~\E r \in Rows : r.user = call[c].user /\ r.key = call[c].key
        /\ Go(c, "record")
        /\ devices' = Append(devices, [user |-> call[c].user, key |-> call[c].key,
                                       token |-> call[c].token, by |-> c])
  /\ UNCHANGED <<users, held, expired, used>>

(* The row may be written although the call is cut off or told otherwise.  *)
RecordToken(c) ==
  /\ call[c].pc = "record"
  /\ used' = used \cup {call[c].token}
  /\ \E r \in {"201", "500", "lost"} : Answer(c, r)
  /\ UNCHANGED <<users, held, expired, devices>>

(* Any of the three statements may fail; a device that is inserted stays.  *)
StatementFails(c) ==
  /\ call[c].pc \in {"check", "insert", "record"}
  /\ Answer(c, "500")
  /\ UnchangedTables
  /\ UNCHANGED <<held, expired>>

CutOff(c) ==
  /\ call[c].pc \in {"check", "insert", "record"}
  /\ Answer(c, "lost")
  /\ UnchangedTables
  /\ UNCHANGED <<held, expired>>

Next ==
  \/ \E u \in User : CreateUser(u) \/ Expire(u)
  \/ \E c \in Call : \/ \E u \in User, k \in Key, t \in held : Begin(c, u, k, t)
                     \/ CheckToken(c) \/ InsertDevice(c) \/ RecordToken(c)
                     \/ StatementFails(c) \/ CutOff(c)

Spec == Init /\ [][Next]_vars

-----------------------------------------------------------------------------
(* get_device_bundle: the keys of every device of a user.                  *)
Bundle(u) == {r.key : r \in {q \in Rows : q.user = u}}

(* AuthenticatedDevice: of the rows with a key, the one created last.      *)
AuthenticatedAs(k) ==
  LET mine == {i \in 1..Len(devices) : devices[i].key = k}
  IN IF mine = {} THEN {} ELSE {devices[CHOOSE i \in mine : \A j \in mine : j <= i].user}

(* A call that began after its token was recorded enrols nobody.  Only     *)
(* calls that overlap, or follow on one that was cut off or failed after   *)
(* its insert, make one token enrol several devices.                       *)
SpentTokenEnrollsNobody ==
  \A i \in 1..Len(devices) : ~call[devices[i].by].late

(* A 201 is true and stays true: the row is the call's own, the token is   *)
(* used up, the user's bundle has the key, and requests signed with it are *)
(* the user's until somebody enrols the key for another user.              *)
ConfirmedMeansEnrolled ==
  \A c \in Call : call[c].reply = "201" =>
    /\ \E r \in Rows : r.by = c
    /\ call[c].token \in used
    /\ call[c].key \in Bundle(call[c].user)
    /\ \/ AuthenticatedAs(call[c].key) = {call[c].user}
       \/ \E r \in Rows : r.key = call[c].key /\ r.user # call[c].user /\ r.by # c

(* No failure uses a token up without a device to show for it.             *)
SpentMeansEnrolled ==
  \A t \in used : \E r \in Rows : r.token = t

(* A call that fails or is lost after its insert leaves a device that is   *)
(* enrolled for good: no later call with the same keys is ever confirmed,  *)
(* whatever token it brings.                                               *)
HalfEnrolledIsFinal ==
  \A c \in Call : call[c].reply \in {"500", "lost"} /\ (\E r \in Rows : r.by = c) =>
    \A d \in Call \ {c} :
      call[d].reply = "201" => <<call[d].user, call[d].key>> # <<call[c].user, call[c].key>>

(* Why they hold.  A device keeps what its call gave it, and its call had  *)
(* passed the check; a user has a key once, and of the rows with a key one *)
(* is the last.                                                            *)
RowInv ==
  /\ \A i \in 1..Len(devices) :
       LET r == devices[i]
           c == call[r.by]
       IN /\ c.pc \in {"record", "done"} /\ ~c.late
          /\ c.user = r.user /\ c.key = r.key /\ c.token = r.token
  /\ \A i, j \in 1..Len(devices) :
       devices[i].user = devices[j].user /\ devices[i].key = devices[j].key => i = j
  /\ \A i \in 1..Len(devices) : \E j \in 1..Len(devices) :
       /\ devices[j].key = devices[i].key
       /\ \A h \in 1..Len(devices) : devices[h].key = devices[i].key => h <= j

(* A call brings a token some client may have.  One begun late stays so,  *)
(* and does not pass the check; one that is past its insert has a row, and *)
(* one that was confirmed used its token.                                  *)
CallInv ==
  \A c \in Call :
    /\ call[c].pc # "waiting" => /\ call[c].token \in held
                                 /\ call[c].late => call[c].token \in used
    /\ call[c].pc \in {"insert", "record"} => ~call[c].late
    /\ call[c].pc = "record" \/ call[c].reply = "201" =>
         \E i \in 1..Len(devices) : devices[i].by = c
    /\ call[c].reply = "201" => call[c].token \in used

(* The inductive invariant of EnrollmentProofs.tla.                        *)
IInv == TypeOK /\ RowInv /\ CallInv /\ SpentMeansEnrolled
=============================================================================
