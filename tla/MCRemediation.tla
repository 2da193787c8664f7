--------------------------- MODULE MCRemediation ----------------------------
(* A small instance of Remediation for TLC. *)
EXTENDS Remediation

CONSTANTS tab1, tab2,  \* browser sessions, of the same user or of two
          o1           \* room for one run whose call broke off

\* tab1 asks up to three times, tab2 at most once, first.
AskBound == [tab \in Tabs |-> IF tab = tab1 THEN 3 ELSE 1]
=============================================================================
