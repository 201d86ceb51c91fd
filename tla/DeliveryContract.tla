--------------------------- MODULE DeliveryContract ---------------------------
(***************************************************************************)
(* What POST /messages promises for a remote recipient, whatever tasks,    *)
(* polls, calls and handlers carry it out: an accepted message reaches the *)
(* recipient's node one device at a time and each device once; the sender  *)
(* calls it delivered only when every device has it.  A message given up   *)
(* may still turn out delivered, and the other way around, because a late  *)
(* attempt overwrites what an earlier one recorded.                        *)
(***************************************************************************)
CONSTANTS Entry, Lid, Targets   \* Targets[e]: the devices entry e is for

VARIABLES
  phase,  \* [Entry -> {"none", "pending", "delivered", "failed"}]
  inbox   \* set of <<logical id, device>> the recipient's node holds

Complete(e) == \A d \in Targets[e] : <<Lid[e], d>> \in inbox

Init == /\ phase = [e \in Entry |-> "none"]
        /\ inbox = {}

Accept(e) == /\ phase[e] = "none"
             /\ phase' = [phase EXCEPT ![e] = "pending"]
             /\ UNCHANGED inbox

Deliver(e, d) == /\ phase[e] # "none"
                 /\ <<Lid[e], d>> \notin inbox
                 /\ inbox' = inbox \cup {<<Lid[e], d>>}
                 /\ UNCHANGED phase

(* One answer confirms one entry; an acknowledgement of a logical id       *)
(* confirms every entry that carries it.                                   *)
Confirm(E) == /\ \A e \in E : phase[e] # "none" /\ Complete(e)
              /\ phase' = [e \in Entry |-> IF e \in E THEN "delivered" ELSE phase[e]]
              /\ UNCHANGED inbox

GiveUp(e) == /\ phase[e] # "none"
             /\ phase' = [phase EXCEPT ![e] = "failed"]
             /\ UNCHANGED inbox

Next == \/ \E e \in Entry : Accept(e) \/ GiveUp(e)
        \/ \E e \in Entry : \E d \in Targets[e] : Deliver(e, d)
        \/ \E E \in SUBSET Entry : Confirm(E)

Spec == Init /\ [][Next]_<<phase, inbox>>
=============================================================================
