----------------------------- MODULE MCActorKeys -----------------------------
(* A small instance of ActorKeys for TLC.  Threads share nothing but SPIRE,   *)
(* so that one of them shows what each of them does.                          *)
EXTENDS ActorKeys

CONSTANT t1   \* a worker thread
=============================================================================
