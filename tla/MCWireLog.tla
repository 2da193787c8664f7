----------------------------- MODULE MCWireLog ------------------------------
(* A small instance of WireLog for TLC: a table of two traces, three in use. *)
EXTENDS WireLog, TLC

CONSTANTS t1, t2, t3, jwt

OneJwt == {<<jwt>>}
TraceSymmetry == Permutations(Traces)
=============================================================================
