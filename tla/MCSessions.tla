----------------------------- MODULE MCSessions ------------------------------
(* Sessions.tla on a pool of two connections: alice's call to bob's two     *)
(* devices, a second call of hers to a device that does not exist, and a    *)
(* remote call of carol; two confirmations of one row, one of which names   *)
(* bob's other device.                                                      *)
EXTENDS Sessions

CONSTANTS c1, c2, c3, q1, q2, a, b1, b2, nodev, c, alice, bob, carol

MCUserOf == [d \in Device |-> IF d = a THEN alice ELSE IF d = c THEN carol ELSE bob]
MCSender == [x \in Create |-> IF x = c3 THEN c ELSE a]
MCRecipients == [x \in Create |-> IF x = c1 THEN <<b1, b2>>
                                  ELSE IF x = c2 THEN <<nodev>> ELSE <<b2>>]
MCTarget == [q \in Confirm |-> <<c1, 1>>]
MCConfirmer == [q \in Confirm |-> b1]
MCBody == [q \in Confirm |-> IF q = q1 THEN <<a, b1>> ELSE <<a, b2>>]
=============================================================================
