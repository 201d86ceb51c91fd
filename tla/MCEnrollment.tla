---------------------------- MODULE MCEnrollment ----------------------------
(* Enrollment.tla: three calls, two users, two keys, one unknown string.    *)
EXTENDS Enrollment, TLC

CallSymmetry == Permutations(Call)
=============================================================================
