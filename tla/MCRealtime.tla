----------------------------- MODULE MCRealtime -----------------------------
(* Realtime.tla for a client of one of two users: clients share only what  *)
(* the listener writes, so one shows what any of them meets.                *)
EXTENDS Realtime

CONSTANTS a, b, c1

MCUserOf == [c \in Client |-> a]
=============================================================================
