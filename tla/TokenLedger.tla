---------------------------- MODULE TokenLedger -----------------------------
(***************************************************************************)
(* The delegation ledger of the web page (token-view.ts and                *)
(* delegation-ledger.tsx) over the chains ChainView produces.              *)
(*                                                                         *)
(* A row of the chain is a decoded token; nothing in it says which token   *)
(* it was exchanged from.  The ledger infers the parent from the act       *)
(* claims, and warns where the new actor is not the one the parent named.  *)
(***************************************************************************)
EXTENDS ChainView, FiniteSetsExt
-----------------------------------------------------------------------------
NoParent == 0

\* Mutant of FindParentIndex: the farthest row that fits.
FindParentIndex_first(rows, i) ==
    LET want == Front(rows[i].act)
        fits == {j \in 1..(i-1) : rows[i].act # <<>> /\ rows[j].act = want}
    IN  IF fits = {} THEN NoParent ELSE Min(fits)

\* The nearest earlier row whose act chain is this one's without its newest actor.
FindParentIndex(rows, i) ==
    LET want == Front(rows[i].act)
        fits == {j \in 1..(i-1) : rows[i].act # <<>> /\ rows[j].act = want}
    IN  IF fits = {} THEN NoParent ELSE Max(fits)

\* buildLedger: the position on the spine, from 0; a leaf has none.
Number(rows, i) == Cardinality({j \in 1..(i-1) : ~rows[j].leaf})

\* "hop n" by which a row names its parent: its number, or its index.
ParentNumber(rows, p) == IF rows[p].leaf THEN p - 1 ELSE Number(rows, p)

\* diffAgainst and the act line of a row: the new actor is marked as named by the
\* parent's may_act, or a warning is displayed, or the parent names no one.
Mark(rows, i, p) ==
    CASE p = NoParent -> "root"
      [] p # NoParent /\ rows[p].mayAct = Curity!NoOne -> "appended"
      [] p # NoParent /\ rows[p].mayAct = Last(rows[i].act) -> "named"
      [] OTHER -> "warning"

\* flowOfChain: the flow the page names above the ledger.
FlowOfChain(chain) ==
    IF Len(chain) < 2 THEN "undefined"
    ELSE IF \E r \in Range(chain) : \/ r.hop \in {"gateway/mcp-ops", "mcp-ops"}
                                    \/ ClientOf(r.hop) = "specialist"
                                    \/ r.hop = "copilot/specialist"
         THEN "privileged" ELSE "read"
-----------------------------------------------------------------------------
(***************************************************************************)
(* Properties.                                                             *)
(***************************************************************************)
\* Row i is displayed as named by its parent p, and the number it gives for the
\* parent is displayed at the token it was exchanged from.
RowIsTrue(chain, i, p) ==
    LET number == ParentNumber(chain, p)
    IN  /\ Mark(chain, i, p) = "named"
        /\ \A j \in DOMAIN chain :
              ~chain[j].leaf /\ Number(chain, j) = number =>
                  chain[j].hop = SubjectHop(chain[i].hop, PathOf(chain[i].tok))

\* The ledger is true of every chain of one question, cut short or not, live or
\* from memory.  (Rows of another question, which the services below may add,
\* can raise a false warning.)  Whatever the chain, "a parent is always on the
\* spine".
LedgerFaithful ==
    \A s \in Sessions : \A chain \in ChainsShown(s) :
        LET ofOne == \E f \in DOMAIN flows : \A i \in DOMAIN chain \ {1} : chain[i].tok = Token(s, f)
        IN  \A i \in DOMAIN chain \ {1} :
                LET p == FindParentIndex(chain, i)
                IN  /\ p # NoParent => ~chain[p].leaf
                    /\ ofOne => RowIsTrue(chain, i, p)

\* Flow f has used every server of its path, and the tokens in the slots are its own.
UsedAll(f) ==
    \A h \in Range(StepsOf(flows[f].path)) \cup Servers(flows[f].path) :
        Filled(h) /\ slots[h].tok.by = f

\* Whatever else the slots hold is of questions that were answered before f began.
Undisturbed(f) ==
    \A h \in Helpers : Filled(h) => slots[h].tok.by \in {f} \cup flows[f].after

RowsOf(f, hops) == [i \in DOMAIN hops |-> Row(hops[i], Token(flows[f].session, f))]
ReadHops == <<"copilot/mcp", "gateway/mcp-inspect", "mcp-inspect">>
PrivilegedHops == <<"specialist/inspect", "gateway/mcp-inspect", "mcp-inspect",
                    "specialist/ops", "gateway/mcp-ops", "mcp-ops">>
WholeHops(path, leaf) ==
    IF path = "read" THEN leaf \o ReadHops
    ELSE <<"copilot/specialist">> \o leaf \o PrivilegedHops

LeafOf(path) == IF path = "read" THEN <<"copilot/llm">> ELSE <<"specialist/llm">>

\* The token with whose stamp the leaf is compared was acquired again.
StampedAgain(path) ==
    slots[IF path = "read" THEN "copilot/mcp" ELSE "specialist/ops"].tok.nth # 0

\* Without caching, the chain after a question that used every server, and before
\* another disturbs it, is that question's: every hop once, in the order the ledger
\* needs, under the name of the right flow.  Only the leaf may be missing, and only
\* after a 401: the token it is compared with is then stamped again, after it.
WholeChain ==
    ~caching => \A f \in DOMAIN flows :
        (UsedAll(f) /\ Undisturbed(f)) =>
            LET s == flows[f].session
                path == flows[f].path
                chain == Chain(s, BelowRows(s))
            IN  /\ \/ Tail(chain) = RowsOf(f, WholeHops(path, LeafOf(path)))
                   \/ StampedAgain(path) /\ Tail(chain) = RowsOf(f, WholeHops(path, <<>>))
                /\ FlowOfChain(chain) = path
                /\ \A i \in DOMAIN chain \ {1} : RowIsTrue(chain, i, FindParentIndex(chain, i))
=============================================================================
