---------------------------- MODULE MCFederation ----------------------------
(* Federation.tla on two messages of one sender to one recipient: the       *)
(* values MCFederation*.cfg give to its constants.                          *)
EXTENDS Federation, TLC

CONSTANTS e1, e2, l1, l2, alice, alice2, Alice, bob, carol, d1, d2

TaskSymmetry == Permutations(Task)

(* alice and alice2 are addresses on two nodes, Alice the name of both.     *)
MCNameOf == [a \in Address |-> Alice]
FromOne == [e \in Entry |-> alice]
FromTwo == [e \in Entry |-> IF e = e1 THEN alice ELSE alice2]
ToBob == [e \in Entry |-> bob]
ToBobAndCarol == [e \in Entry |-> IF e = e1 THEN bob ELSE carol]
OwnLid == [e \in Entry |-> IF e = e1 THEN l1 ELSE l2]
SameLid == [e \in Entry |-> l1]
BothDevices == [e \in Entry |-> <<d1, d2>>]
DeviceEach == [e \in Entry |-> IF e = e1 THEN <<d1>> ELSE <<d2>>]
MixedDevices == [e \in Entry |-> IF e = e1 THEN <<d1, d2>> ELSE <<d1>>]
=============================================================================
