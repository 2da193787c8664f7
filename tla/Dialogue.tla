------------------------------ MODULE Dialogue ------------------------------
(***************************************************************************)
(* What the demo promises to the one who asks: the abstract specification  *)
(* of Remediation.  Nothing of tokens, services, caches or failures of     *)
(* single steps is left, only who is logged in at which level in a tab,    *)
(* what was asked, and which answers may come back.                        *)
(***************************************************************************)
EXTENDS Curity

CONSTANT Tabs   \* browser sessions

VARIABLES login,      \* per tab, who is logged in and at which level
          question    \* per tab, the question asked last

dialogue == <<login, question>>
-----------------------------------------------------------------------------
Logins == [sub : Users, acr : Acrs]
Routes == {"read", "privileged", "probe"}
MayWrite(l) == AddRoles(l.sub) \cap WriteRoles # {}

\* by is the login at which the question was asked; raised says that mcp-ops
\* asked for more authentication while it was answered.
NoQuestion == [answer |-> "idle"]
Asked(l, route) == [by |-> l, route |-> route, raised |-> FALSE, answer |-> "none"]
Pending(q) == q.answer = "none"

\* The answers a question may get.  Failure is always possible.  A privileged one
\* is denied to exactly those who may not write, carried out or attempted only
\* for those who may, and challenged only if MFA is what was missing or mcp-ops
\* asked for more.
Answers(q) ==
    {"failed"}
    \cup (CASE q.route = "read" -> {"ok"}
            [] q.route = "probe" -> {"tools"}
            [] q.route = "privileged" /\ ~MayWrite(q.by) -> {"denied"}
            [] q.route = "privileged" /\ MayWrite(q.by) ->
                  {"sorry"} \cup (IF q.by.acr = "mfa" THEN {"ok"} ELSE {"step-up"})
                            \cup (IF q.raised THEN {"step-up"} ELSE {}))
-----------------------------------------------------------------------------
Ask(tab, route) ==
    /\ ~Pending(question[tab])
    /\ question' = [question EXCEPT ![tab] = Asked(login[tab], route)]
    /\ UNCHANGED login

\* mcp-ops asks for more, of a question that passed every other gate.
Raise(tab) ==
    /\ Pending(question[tab])
    /\ question[tab].route = "privileged" /\ question[tab].by.acr = "mfa"
    /\ question' = [question EXCEPT ![tab].raised = TRUE]
    /\ UNCHANGED login

Answer(tab) ==
    /\ Pending(question[tab])
    /\ \E a \in Answers(question[tab]) : question' = [question EXCEPT ![tab].answer = a]
    /\ UNCHANGED login

\* A challenge is taken up: the same user at the higher level, the question again.
StepUp(tab) ==
    /\ question[tab].answer = "step-up"
    /\ login' = [login EXCEPT ![tab].acr = "mfa"]
    /\ question' = [question EXCEPT ![tab] = Asked(login'[tab], "privileged")]

\* Someone logs in, at the lower level, while nothing is pending.
Relogin(tab, u) ==
    /\ ~Pending(question[tab])
    /\ login' = [login EXCEPT ![tab] = [sub |-> u, acr |-> "html-form"]]
    /\ question' = [question EXCEPT ![tab] = NoQuestion]

Init ==
    /\ login \in [Tabs -> {l \in Logins : l.acr = "html-form"}]
    /\ question = [tab \in Tabs |-> NoQuestion]

Next ==
    \E tab \in Tabs :
        \/ \E route \in Routes : Ask(tab, route)
        \/ Raise(tab)
        \/ Answer(tab)
        \/ StepUp(tab)
        \/ \E u \in Users : Relogin(tab, u)

\* What may happen; and that every question is answered.
Safety == Init /\ [][Next]_dialogue
Spec == Safety /\ \A tab \in Tabs : WF_dialogue(Answer(tab))
=============================================================================
