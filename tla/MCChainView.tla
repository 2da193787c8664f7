---------------------------- MODULE MCChainView -----------------------------
(* Small instances of TokenLedger for TLC: two logins, of one user or of two. *)
EXTENDS TokenLedger

CONSTANTS login1, login2, alice, carol

WalkBound == [caching_on \in BOOLEAN |-> IF caching_on THEN 0 ELSE 1]
LoginSymmetry == Permutations(Sessions) \cup Permutations(Users)
=============================================================================
