---------------------------- MODULE MCDpopReplay ----------------------------
(* Small instances of DpopReplay for TLC: every proof is for target t1; a call
   for target t2 that carries one of them is a mismatch. *)
EXTENDS DpopReplay, TLC

CONSTANTS w1, w2, p1, p2, p3, t1, t2

MCProofFor == [p \in Proofs |-> t1]
Symmetry == Permutations({w1, w2}) \cup Permutations({p1, p2, p3})
=============================================================================
