------------------------------ MODULE MCMailbox ------------------------------
(* Mailbox.tla on a message to two devices and its resend under the same    *)
(* logical id, what a peer forwards, and fetches of one of the devices.     *)
EXTENDS Mailbox, TLC

CONSTANTS p1, p2, l1, l2, d1, d2

MCLid == [p \in Post |-> l1]
MCDevices == [p \in Post |-> <<d1, d2>>]
MCCaller == [f \in Fetch |-> d1]
MCSymmetry == Permutations(Fetch) \cup Permutations(Post)
=============================================================================
