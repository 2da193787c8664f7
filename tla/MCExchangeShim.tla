--------------------------- MODULE MCExchangeShim ---------------------------
(* A small instance of ExchangeShim for TLC: one bound and one unbound caller
   token on one route, a proof of the bound one and a proof made for the other. *)
EXTENDS ExchangeShim

CONSTANTS bound, plain, inspect, p1, p2

MCTargets == {bound, plain} \X {inspect}
MCProofFor == [p \in Proofs |-> IF p = p1 THEN <<bound, inspect>> ELSE <<plain, inspect>>]
=============================================================================
