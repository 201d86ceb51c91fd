----------------------------- MODULE MCNodeAuth -----------------------------
(* NodeAuth.tla with time limits at the least distance its assumption       *)
(* allows: one tick less of Retention and a late copy gets in.              *)
EXTENDS NodeAuth, TLC

MCSymmetry == Permutations(Handler) \cup Permutations(Request)
=============================================================================
