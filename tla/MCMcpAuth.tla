----------------------------- MODULE MCMcpAuth ------------------------------
(* Small instances of McpAuth for TLC. *)
EXTENDS McpAuth, TLC

CONSTANTS q1, q2, curityIdsvr, foreign

QuestionSymmetry == Permutations(Questions)
=============================================================================
