-------------------------- MODULE RemediationProofs -------------------------
(***************************************************************************)
(* Proofs about Remediation, for any number of tabs, orphans and users,    *)
(* with and without caching, whatever level mcp-ops is deployed with.      *)
(***************************************************************************)
EXTENDS Remediation, FiniteSetTheorems, TLAPS

\* The tokens a session may hold, and the one the specialist gets for each.
LoginTokens == {PlainLogin(u) : u \in Users} \cup {SteppedUp(u) : u \in Users}
SpFor(t) == Mint(ToSpecialist, "copilot", t, Scopes)
-----------------------------------------------------------------------------
(* The rows of the policy, and what they give to the tokens of a session. *)

\* The rows of CLIENT_POLICY that the two agents use.
LEMMA Rows ==
    /\ ToSpecialist = Grant("copilot", "agent-specialist", Scopes, "specialist")
    /\ CopilotToMcp = Grant("copilot", "mcp-gateway", {"inspect:read"}, "agentgateway")
    /\ SpecialistToMcp = Grant("specialist", "mcp-gateway", {"inspect:read", "ops:write"},
                               "agentgateway")
<1>1. ASSUME NEW g \in CLIENT_POLICY
      PROVE  /\ g.client = "copilot" /\ g.aud = "agent-specialist" =>
                  g = Grant("copilot", "agent-specialist", Scopes, "specialist")
             /\ g.client = "copilot" /\ g.aud = "mcp-gateway" =>
                  g = Grant("copilot", "mcp-gateway", {"inspect:read"}, "agentgateway")
             /\ g.client = "specialist" /\ g.aud = "mcp-gateway" =>
                  g = Grant("specialist", "mcp-gateway", {"inspect:read", "ops:write"},
                            "agentgateway")
  BY DEF CLIENT_POLICY, Grant
<1>2. /\ \E g \in CLIENT_POLICY : g.client = "copilot" /\ g.aud = "agent-specialist"
      /\ \E g \in CLIENT_POLICY : g.client = "copilot" /\ g.aud = "mcp-gateway"
      /\ \E g \in CLIENT_POLICY : g.client = "specialist" /\ g.aud = "mcp-gateway"
  BY DEF CLIENT_POLICY, Grant
<1> QED BY <1>1, <1>2 DEF GrantFor, ToSpecialist, CopilotToMcp, SpecialistToMcp

\* The claims of a session's token.
LEMMA LoginClaims ==
    \A t \in LoginTokens :
        /\ t.sub \in Users
        /\ t.acr \in {"html-form", "mfa"}
        /\ t.scopes = IF t.acr = "mfa" THEN Scopes ELSE LoginScopes
        /\ t.roles = AddRoles(t.sub)
        /\ t.mayAct = "copilot"
        /\ t = IF t.acr = "mfa" THEN SteppedUp(t.sub) ELSE PlainLogin(t.sub)
<1>1. ASSUME NEW u \in Users
      PROVE  /\ PlainLogin(u).sub = u /\ PlainLogin(u).acr = "html-form"
             /\ PlainLogin(u).roles = AddRoles(u) /\ PlainLogin(u).mayAct = "copilot"
             /\ SteppedUp(u).sub = u /\ SteppedUp(u).acr = "mfa"
             /\ SteppedUp(u).roles = AddRoles(u) /\ SteppedUp(u).mayAct = "copilot"
  BY DEF PlainLogin, SteppedUp, LoginToken
<1>2. ASSUME NEW u \in Users
      PROVE  PlainLogin(u).scopes = LoginScopes /\ SteppedUp(u).scopes = Scopes
  BY DEF PlainLogin, SteppedUp, LoginToken, Releasable, LoginScopes, Scopes
<1> QED BY <1>1, <1>2 DEF LoginTokens

\* The token of a session is determined by its subject and its level, which is
\* why the key of the cache is enough.
LEMMA KeyDetermines ==
    \A t, s \in LoginTokens : CacheKey(t) = CacheKey(s) => t = s
BY LoginClaims DEF CacheKey

\* The token for the specialist: who gets one, and what it carries.
LEMMA SpClaims ==
    ASSUME NEW t \in LoginTokens
    PROVE  /\ Granted(ToSpecialist, "copilot", t, Scopes) <=> MayWrite(t.sub)
           /\ Refusal(ToSpecialist, t, Scopes) = "access_denied"
           /\ Granted(CopilotToMcp, "copilot", t, {"inspect:read"})
           /\ SpFor(t).sub = t.sub
           /\ SpFor(t).acr = t.acr
           /\ SpFor(t).scopes = t.scopes
           /\ SpFor(t).roles = AddRoles(t.sub)
           /\ SpFor(t).mayAct = "specialist"
<1> USE LoginClaims, Rows
<1>1. Narrowed(ToSpecialist, t, Scopes) = t.scopes
  BY DEF Narrowed, Requested, Grant, Scopes, LoginScopes
<1>2. t.scopes # {} /\ \A s \in t.scopes : Releasable(s, t.acr)
  BY DEF Scopes, LoginScopes, Releasable
<1>3. RoleGate(ToSpecialist, t, Scopes) <=> MayWrite(t.sub)
  BY DEF RoleGate, Requested, Grant, Scopes, MayWrite
<1>4. Granted(ToSpecialist, "copilot", t, Scopes) <=> MayWrite(t.sub)
  BY <1>1, <1>2, <1>3 DEF Granted, MayActPermits, Grant
<1>5. Granted(CopilotToMcp, "copilot", t, {"inspect:read"})
  <2>1. Narrowed(CopilotToMcp, t, {"inspect:read"}) = {"inspect:read"}
    BY DEF Narrowed, Requested, Grant, Scopes, LoginScopes
  <2>2. RoleGate(CopilotToMcp, t, {"inspect:read"})
    BY DEF RoleGate, Requested, Grant
  <2> QED BY <2>1, <2>2 DEF Granted, MayActPermits, Grant, Releasable
<1>6. Refusal(ToSpecialist, t, Scopes) = "access_denied"
  BY <1>1, <1>2 DEF Refusal
<1>7. /\ SpFor(t).sub = t.sub /\ SpFor(t).acr = t.acr /\ SpFor(t).roles = AddRoles(t.sub)
      /\ SpFor(t).scopes = t.scopes /\ SpFor(t).mayAct = "specialist"
  BY <1>1 DEF SpFor, Mint, Grant
<1> QED BY <1>4, <1>5, <1>6, <1>7

\* What the specialist's own exchanges make of it.
LEMMA SpExchanges ==
    ASSUME NEW t \in LoginTokens, MayWrite(t.sub)
    PROVE  /\ Granted(SpecialistToMcp, "specialist", SpFor(t), {"ops:write"}) <=> t.acr = "mfa"
           /\ t.acr # "mfa" => Refusal(SpecialistToMcp, SpFor(t), {"ops:write"}) = "invalid_scope"
           /\ Granted(SpecialistToMcp, "specialist", SpFor(t), {"inspect:read"})
<1> DEFINE sp == SpFor(t)
<1>1. /\ sp.acr = t.acr /\ sp.scopes = (IF t.acr = "mfa" THEN Scopes ELSE LoginScopes)
      /\ sp.roles \cap WriteRoles # {} /\ sp.mayAct = "specialist" /\ t.acr \in {"html-form", "mfa"}
  BY SpClaims, LoginClaims DEF MayWrite
<1> HIDE DEF sp
<1> USE <1>1, Rows
<1>2. Narrowed(SpecialistToMcp, sp, {"ops:write"}) = IF t.acr = "mfa" THEN {"ops:write"} ELSE {}
  BY DEF Narrowed, Requested, Grant, Scopes, LoginScopes
<1>3. Narrowed(SpecialistToMcp, sp, {"inspect:read"}) = {"inspect:read"}
  BY DEF Narrowed, Requested, Grant, Scopes, LoginScopes
<1>4. Granted(SpecialistToMcp, "specialist", sp, {"ops:write"}) <=> t.acr = "mfa"
  BY <1>2 DEF Granted, RoleGate, MayActPermits, Grant, Releasable
<1>5. Granted(SpecialistToMcp, "specialist", sp, {"inspect:read"})
  BY <1>3 DEF Granted, RoleGate, MayActPermits, Grant, Releasable
<1>6. t.acr # "mfa" => Refusal(SpecialistToMcp, sp, {"ops:write"}) = "invalid_scope"
  BY <1>2 DEF Refusal
<1> QED BY <1>4, <1>5, <1>6 DEF sp
-----------------------------------------------------------------------------
(***************************************************************************)
(* The inductive invariant.  What is known of a run depends on how far it  *)
(* got, so every conjunct is about the program counter: whose token the    *)
(* specialist works with, which gates are behind the run, which MCP        *)
(* clients are connected, and what the verdict in `out` can be.            *)
(***************************************************************************)
CopilotPcs == {"verify", "lookup", "mint", "mcp", "llm", "open", "list", "generate"}
ProbePcs == {"p-verify", "p-discover", "p-ops", "p-open", "p-list"}
Pcs == CopilotPcs \cup ProbePcs \cup SpecialistPcs \cup {"idle", "a2a", "reply", "answered"}

Toolsets == {"inspect", "read", "write"}
Sinks == {"no", "opening", "loop"}
Outs == {"none", "ok", "error", "step-up", "unverified", "access_denied", "outage"}
Tiers == {"none", "ok", "error", "outage"}
Anss == {"none", "ok", "failed", "denied", "sorry", "step-up", "tools"}

Run == [pc : Pcs, route : Routes, tok : LoginTokens \cup {NoToken},
        sp : {SpFor(t) : t \in LoginTokens} \cup {NoToken},
        held : SUBSET Toolsets, sink : Sinks, out : Outs, tier : Tiers, did : Nat, ans : Anss]

\* The states of a run between its question and its answer.
Working(pc) == pc \notin {"idle", "answered"}

\* The token the specialist works with is the asking user's, at the level of the
\* question; it exists only for those who may write.
TokenPart(r) ==
    /\ IF r.pc = "idle" THEN r.sp = NoToken ELSE r.tok \in LoginTokens
    /\ r.sp = NoToken \/ r.sp = SpFor(r.tok)
    /\ r.pc \in SpecialistPcs \cup ProbePcs \cup {"a2a", "reply"} =>
          r.sp = SpFor(r.tok) /\ MayWrite(r.tok.sub)

\* Which route leads where.
RoutePart(r) ==
    /\ r.pc \in {"mcp", "llm", "open", "list", "generate"} => r.route = "read"
    /\ r.pc \in {"lookup", "mint"} => r.route # "read"
    /\ r.pc \in SpecialistPcs \cup {"a2a", "reply"} => r.route = "privileged"
    /\ r.pc \in ProbePcs => r.route = "probe"

\* The gates behind a run that got past the acr pre-check, and what it did.
PrivilegePart(r) ==
    /\ r.pc \in {"x-inspect", "x-open-r", "x-list-r", "x-open-w", "x-list-w", "x-llm", "x-loop",
                 "p-ops", "p-open", "p-list"}
          => r.tok.acr = "mfa"
    /\ r.sink # "no" \/ r.did > 0 => r.tok.acr = "mfa" /\ MayWrite(r.tok.sub)
    /\ r.sink # "no" \/ r.did > 0 => r.route = "privileged" /\ r.ans # "denied"
    /\ r.sink # "no" => r.pc \in {"x-loop", "x-publish", "reply", "answered"}
    /\ r.did > 0 => r.pc \in {"x-loop", "x-publish", "reply", "answered"}
    /\ r.pc = "x-loop" => r.sink # "opening"

\* The verdict: none until the specialist or the probe is through, then one the
\* gates justify.
VerdictPart(r) ==
    /\ Working(r.pc) => r.ans = "none"
    /\ Working(r.pc) /\ r.pc \notin {"x-publish", "reply"} => r.out = "none"
    /\ r.pc \in {"x-publish", "reply"} => r.out \in {"ok", "error", "step-up", "unverified"}
    /\ r.route # "probe" => r.out # "access_denied"
    /\ r.out = "ok" => r.tok.acr = "mfa" /\ MayWrite(r.tok.sub)
    /\ r.out = "step-up" => MayWrite(r.tok.sub) /\ (r.tok.acr # "mfa" <=> r.sink = "no")
    /\ r.out = "step-up" => r.sink # "opening"
    /\ r.out = "access_denied" => ~MayWrite(r.tok.sub)
    /\ r.sink = "loop" /\ r.out # "none" => r.out = "step-up"

\* The answer follows from the verdict.
AnswerPart(r) ==
    /\ r.pc = "idle" => r.ans = "none" /\ r.out = "none" /\ r.held = {}
    /\ r.pc = "answered" => r.ans # "none"
    /\ r.ans = "step-up" => r.out = "step-up" /\ r.route = "privileged"
    /\ r.ans = "ok" /\ r.route = "privileged" => r.out = "ok"
    /\ r.ans = "ok" => r.route # "probe"
    /\ r.ans = "sorry" => r.route = "privileged" /\ MayWrite(r.tok.sub)
    /\ r.ans = "denied" => r.route = "privileged" /\ ~MayWrite(r.tok.sub)
    /\ r.ans = "tools" => r.route = "probe" /\ r.tier # "none"
    /\ r.ans = "tools" => r.out \in {"ok", "step-up", "access_denied", "error", "outage"}

\* The MCP clients connected.
HeldPart(r) ==
    /\ r.pc \in {"list", "generate"} => r.held = {"inspect"}
    /\ r.pc \in {"x-list-r", "x-open-w"} => r.held = {"read"}
    /\ r.pc \in {"x-list-w", "x-llm", "x-loop"} => r.held = {"read", "write"}
    /\ r.pc = "p-list" => r.held = {"write"}
    /\ r.pc \in {"x-publish", "reply", "answered"} =>
          r.held = {} \/ (\E c \in Toolsets : r.held = {c})
    /\ r.pc \in {"x-publish", "reply"} /\ r.held # {} => r.out = "error"
    /\ r.pc = "answered" /\ r.held # {} => r.out = "error" \/ r.ans = "failed"
    /\ Working(r.pc) /\ r.pc \notin {"list", "generate", "x-list-r", "x-open-w", "x-list-w",
                                     "x-llm", "x-loop", "p-list", "x-publish", "reply"}
          => r.held = {}

RunInv(r) ==
    /\ r \in Run
    /\ TokenPart(r)
    /\ RoutePart(r)
    /\ PrivilegePart(r)
    /\ VerdictPart(r)
    /\ AnswerPart(r)
    /\ HeldPart(r)

\* An entry of the cache is what Curity mints for the session its key stands for.
EntryInv(e) ==
    \E t \in LoginTokens : MayWrite(t.sub) /\ e = [key |-> CacheKey(t), tok |-> SpFor(t)]

IndInv ==
    /\ session \in [Tabs -> LoginTokens]
    /\ run \in [Tabs \cup Orphans -> Run]
    /\ \A x \in Tabs \cup Orphans : RunInv(run[x])
    /\ \A e \in cache : EntryInv(e)
-----------------------------------------------------------------------------
(* Every step preserves the invariant. *)

\* The run of x becomes q; the rest is as it was.
Becomes(x, q) ==
    /\ run' = [run EXCEPT ![x] = q]
    /\ UNCHANGED <<session, cache>>

\* A step that changes one run to a good one, the session and the cache to good ones.
LEMMA RunChanges ==
    ASSUME IndInv, NEW x \in Tabs \cup Orphans, NEW q, RunInv(q),
           run' = [run EXCEPT ![x] = q],
           session' \in [Tabs -> LoginTokens],
           \A e \in cache' : EntryInv(e)
    PROVE  IndInv'
BY DEF IndInv, RunInv

\* A step that changes one run only.
LEMMA OneRun ==
    ASSUME IndInv, NEW x \in Tabs \cup Orphans, NEW q, RunInv(q), Becomes(x, q)
    PROVE  IndInv'
BY RunChanges DEF IndInv, Becomes

\* A question that was just asked.
LEMMA FreshInv ==
    ASSUME NEW t \in LoginTokens, NEW route \in Routes
    PROVE  RunInv(Fresh(t, route))
BY DEF RunInv, Run, TokenPart, RoutePart, PrivilegePart, VerdictPart, AnswerPart, HeldPart,
       Fresh, Toolsets, Sinks, Outs, Tiers, Anss, Pcs, CopilotPcs, ProbePcs, SpecialistPcs, Working

\* A tab that has not asked yet, and an orphan that is free.
LEMMA IdleInv == RunInv(Idle)
BY DEF RunInv, Run, TokenPart, RoutePart, PrivilegePart, VerdictPart, AnswerPart, HeldPart,
       Idle, Fresh, Toolsets, Sinks, Outs, Tiers, Anss, Pcs, CopilotPcs, ProbePcs, SpecialistPcs,
       Routes, Working

\* The invariant holds when the system starts.
LEMMA InitInv == Init => IndInv
BY IdleInv DEF Init, IndInv, RunInv, LoginTokens

\* The browser and the BFF.
LEMMA BrowserInv ==
    ASSUME IndInv, NEW tab \in Tabs, Browser(tab) PROVE IndInv'
<1> DEFINE sub == session[tab].sub
<1>1. session[tab] \in LoginTokens /\ session \in [Tabs -> LoginTokens]
      /\ \A e \in cache : EntryInv(e)
  BY DEF IndInv
<1>2. ASSUME NEW route \in Routes, Ask(tab, route) PROVE IndInv'
  <2>1. RunInv(Fresh(session[tab], route))
    BY <1>1, FreshInv
  <2> QED BY <1>2, <2>1, OneRun DEF Ask, Becomes
<1>3. CASE StepUp(tab)
  <2>1. SteppedUp(sub) \in LoginTokens
    BY <1>1, LoginClaims DEF LoginTokens
  <2>2. RunInv(Fresh(SteppedUp(sub), "privileged"))
    BY <2>1, FreshInv DEF Routes
  <2>3. session' \in [Tabs -> LoginTokens] /\ cache' = cache
        /\ run' = [run EXCEPT ![tab] = Fresh(SteppedUp(sub), "privileged")]
    BY <1>1, <1>3, <2>1 DEF StepUp
  <2> QED BY <1>1, <2>2, <2>3, RunChanges
<1>4. ASSUME NEW u \in Users, Relogin(tab, u) PROVE IndInv'
  <2>1. session' \in [Tabs -> LoginTokens] /\ cache' = cache
        /\ run' = [run EXCEPT ![tab] = Idle]
    BY <1>1, <1>4 DEF Relogin, LoginTokens
  <2> QED BY <1>1, <2>1, IdleInv, RunChanges
<1> QED BY <1>2, <1>3, <1>4 DEF Browser

\* The copilot answers with an error before it has called the specialist.
LEMMA FailedInv ==
    ASSUME NEW r, RunInv(r), r.pc \in CopilotPcs
    PROVE  RunInv([r EXCEPT !.pc = "answered", !.ans = "failed"])
<1> DEFINE q == [r EXCEPT !.pc = "answered", !.ans = "failed"]
<1>1. q \in Run
  <2>1. "answered" \in Pcs /\ "failed" \in Anss
    BY DEF Pcs, Anss
  <2> QED BY <2>1 DEF RunInv, Run
<1> USE DEF CopilotPcs, ProbePcs, SpecialistPcs, Routes, Working, Toolsets
<1>2. TokenPart(q) /\ RoutePart(q) /\ PrivilegePart(q)
  BY DEF RunInv, Run, TokenPart, RoutePart, PrivilegePart
<1>3. VerdictPart(q) /\ AnswerPart(q)
  BY DEF RunInv, Run, VerdictPart, AnswerPart
<1>4. HeldPart(q)
  BY DEF RunInv, Run, HeldPart
<1> QED BY <1>1, <1>2, <1>3, <1>4 DEF RunInv

\* The end of a probe.  The verdict is one its gates justify.
LEMMA ProbeEndsInv ==
    ASSUME NEW r, RunInv(r), r.route = "probe", r.pc \in {"mint"} \cup ProbePcs,
           NEW verdict \in {"ok", "error", "step-up", "access_denied", "outage"},
           verdict = "ok" => r.pc = "p-list",
           verdict = "step-up" => r.tok.acr # "mfa" /\ r.pc \in ProbePcs,
           verdict = "access_denied" => ~MayWrite(r.tok.sub),
           verdict = "outage" => r.pc \in {"mint", "p-ops"},
           NEW read \in {"ok", "error", "outage"}, NEW held,
           held = IF verdict = "ok" THEN {} ELSE r.held
    PROVE  RunInv([r EXCEPT !.pc = "answered", !.ans = "tools", !.out = verdict, !.tier = read,
                            !.held = held])
<1> DEFINE q == [r EXCEPT !.pc = "answered", !.ans = "tools", !.out = verdict, !.tier = read,
                          !.held = held]
<1>1. held \in SUBSET Toolsets
  BY DEF RunInv, Run
<1>2. q \in Run
  <2>1. "answered" \in Pcs /\ "tools" \in Anss /\ verdict \in Outs /\ read \in Tiers
    BY DEF Pcs, Anss, Outs, Tiers
  <2> QED BY <1>1, <2>1 DEF RunInv, Run
<1> USE DEF CopilotPcs, ProbePcs, SpecialistPcs, Routes, Working
<1>3. TokenPart(q) /\ RoutePart(q)
  BY DEF RunInv, Run, TokenPart, RoutePart
<1>4. PrivilegePart(q) /\ VerdictPart(q)
  BY DEF RunInv, Run, TokenPart, RoutePart, PrivilegePart, VerdictPart
<1>5. AnswerPart(q)
  BY DEF RunInv, Run, AnswerPart
<1>6. HeldPart(q)
  <2>1. held = {} \/ (held = {"write"} /\ r.pc = "p-list")
    <3>1. CASE r.pc = "p-list"
      BY <3>1 DEF RunInv, HeldPart
    <3>2. CASE r.pc # "p-list"
      BY <3>2 DEF RunInv, HeldPart
    <3> QED BY <3>1, <3>2
  <2>2. q.held = held /\ q.pc = "answered" /\ q.ans = "tools" /\ q.out = verdict
    BY DEF RunInv, Run
  <2>3. held # {} => verdict = "error"
    BY <2>1 DEF RunInv, HeldPart, PrivilegePart, TokenPart
  <2> QED BY <2>1, <2>2, <2>3 DEF HeldPart, Toolsets
<1> QED BY <1>2, <1>3, <1>4, <1>5, <1>6 DEF RunInv

\* The verdict on the read tier is never a refusal by Curity.
LEMMA ReadTierValue == \A t \in LoginTokens : ReadTier(t) = {"ok", "error", "outage"}
BY SpClaims DEF ReadTier

\* So is the state after the copilot has the token for the specialist.
LEMMA WithTokenInv ==
    ASSUME NEW r, RunInv(r), r.pc \in {"lookup", "mint"}, MayWrite(r.tok.sub)
    PROVE  RunInv(WithToken(r, SpFor(r.tok)))
<1> DEFINE q == WithToken(r, SpFor(r.tok))
<1> USE DEF Pcs, CopilotPcs, ProbePcs, SpecialistPcs, Routes, Working, WithToken
<1>1. q \in Run
  BY DEF RunInv, Run, TokenPart
<1>2. TokenPart(q) /\ RoutePart(q)
  BY DEF RunInv, Run, TokenPart, RoutePart
<1>3. PrivilegePart(q) /\ VerdictPart(q) /\ AnswerPart(q) /\ HeldPart(q)
  BY DEF RunInv, Run, PrivilegePart, VerdictPart, AnswerPart, HeldPart
<1> QED BY <1>1, <1>2, <1>3 DEF RunInv

\* The steps at whose end the run only moves on, with what it takes to get there.
Forward(r, pc) ==
    \/ <<r.pc, pc>> \in {<<"lookup", "mint">>, <<"a2a", "x-verify">>, <<"mcp", "llm">>,
                         <<"llm", "open">>, <<"list", "generate">>}
    \/ r.pc = "verify" /\ pc = "mcp" /\ r.route = "read"
    \/ r.pc = "verify" /\ pc = "lookup" /\ r.route # "read"
    \/ <<r.pc, pc>> \in {<<"x-verify", "x-discover">>, <<"x-discover", "x-ops">>,
                         <<"x-inspect", "x-open-r">>, <<"x-list-r", "x-open-w">>,
                         <<"x-list-w", "x-llm">>, <<"x-llm", "x-loop">>, <<"x-publish", "reply">>}
    \/ r.pc = "x-ops" /\ pc = "x-inspect" /\ r.tok.acr = "mfa"
    \/ <<r.pc, pc>> \in {<<"p-verify", "p-discover">>, <<"p-ops", "p-open">>}
    \/ r.pc = "p-discover" /\ pc = "p-ops" /\ r.tok.acr = "mfa"

\* Moving on keeps what is known of a run.
LEMMA ForwardInv ==
    ASSUME NEW r, RunInv(r), NEW pc, Forward(r, pc)
    PROVE  RunInv([r EXCEPT !.pc = pc])
<1> DEFINE q == [r EXCEPT !.pc = pc]
<1>1. q \in Run
  <2>1. pc \in Pcs
    BY DEF Forward, Pcs, CopilotPcs, ProbePcs, SpecialistPcs
  <2> QED BY <2>1 DEF RunInv, Run
<1>2. /\ q.pc = pc /\ q.route = r.route /\ q.tok = r.tok /\ q.sp = r.sp /\ q.held = r.held
      /\ q.sink = r.sink /\ q.out = r.out /\ q.did = r.did /\ q.ans = r.ans /\ q.tier = r.tier
  BY DEF RunInv, Run
<1> HIDE DEF q
<1> USE DEF CopilotPcs, ProbePcs, SpecialistPcs, Working
<1>3. TokenPart(q) /\ RoutePart(q)
  BY <1>2 DEF RunInv, Forward, TokenPart, RoutePart
<1>4. PrivilegePart(q)
  BY <1>2 DEF RunInv, Forward, TokenPart, RoutePart, PrivilegePart
<1>5. VerdictPart(q)
  BY <1>2 DEF RunInv, Forward, VerdictPart
<1>6. AnswerPart(q)
  BY <1>2 DEF RunInv, Forward, AnswerPart, VerdictPart
<1>7. HeldPart(q)
  BY <1>2 DEF RunInv, Forward, HeldPart
<1> QED BY <1>1, <1>3, <1>4, <1>5, <1>6, <1>7 DEF RunInv, q

\* The call of the specialist breaks off: the copilot holds nothing of its own.
LEMMA BrokenInv ==
    ASSUME NEW r, RunInv(r), r.pc \in SpecialistPcs \cup {"a2a", "reply"}
    PROVE  RunInv(Broken(r))
<1> DEFINE q == Broken(r)
<1>1. q \in Run
  <2>1. "answered" \in Pcs /\ "failed" \in Anss /\ {} \in SUBSET Toolsets
    BY DEF Pcs, Anss
  <2> QED BY <2>1 DEF RunInv, Run, Broken
<1>2. /\ q.pc = "answered" /\ q.route = r.route /\ q.tok = r.tok /\ q.sp = r.sp /\ q.held = {}
      /\ q.sink = r.sink /\ q.out = r.out /\ q.did = r.did /\ q.ans = "failed"
  BY DEF RunInv, Run, Broken
<1> HIDE DEF q
<1> USE DEF CopilotPcs, ProbePcs, SpecialistPcs, Working
<1>3. TokenPart(q) /\ RoutePart(q) /\ PrivilegePart(q) /\ HeldPart(q)
  BY <1>2 DEF RunInv, TokenPart, RoutePart, PrivilegePart, HeldPart
<1>4. VerdictPart(q) /\ AnswerPart(q)
  BY <1>2 DEF RunInv, VerdictPart, AnswerPart
<1> QED BY <1>1, <1>3, <1>4 DEF RunInv, q

\* The verdicts the specialist may return from where it is.
Justified(r, out) ==
    \/ out = "error" /\ r.sink # "loop"
    \/ out = "step-up" /\ r.pc = "x-ops" /\ r.tok.acr # "mfa"
    \/ r.pc = "x-loop" /\ r.sink = "no" /\ out = "ok"
    \/ r.pc = "x-loop" /\ r.sink = "loop" /\ out = "step-up"

\* remediate() returns a verdict, with what a challenge leaves in the sink.
LEMMA EndedInv ==
    ASSUME NEW r, RunInv(r), r.pc \in SpecialistPcs \ {"x-verify", "x-publish"},
           NEW out, Justified(r, out), NEW held, held = r.held \cap Unlisted(r.pc),
           NEW sink,
           sink = r.sink \/ (out = "error" /\ sink = "opening" /\ r.pc \in {"x-open-w", "x-list-w"})
    PROVE  RunInv([r EXCEPT !.pc = "x-publish", !.out = out, !.sink = sink, !.held = held])
<1> DEFINE q == [r EXCEPT !.pc = "x-publish", !.out = out, !.sink = sink, !.held = held]
<1>1. held \in SUBSET Toolsets /\ (held = {} \/ \E c \in Toolsets : held = {c})
      /\ (held # {} => r.pc \in {"x-list-r", "x-list-w"})
  BY DEF RunInv, Run, Toolsets, Unlisted
<1>2. q \in Run
  <2>1. "x-publish" \in Pcs /\ out \in Outs /\ sink \in Sinks
    BY DEF Pcs, SpecialistPcs, Outs, Sinks, Justified, RunInv, Run
  <2> QED BY <1>1, <2>1 DEF RunInv, Run
<1>3. /\ q.pc = "x-publish" /\ q.route = r.route /\ q.tok = r.tok /\ q.sp = r.sp /\ q.held = held
      /\ q.sink = sink /\ q.out = out /\ q.did = r.did /\ q.ans = r.ans
  BY DEF RunInv, Run
<1> HIDE DEF q
<1> USE DEF CopilotPcs, ProbePcs, SpecialistPcs, Working
<1>4. TokenPart(q) /\ RoutePart(q)
  BY <1>3 DEF RunInv, TokenPart, RoutePart
<1>5. PrivilegePart(q)
  BY <1>3 DEF RunInv, TokenPart, RoutePart, PrivilegePart, VerdictPart
<1>6. VerdictPart(q)
  BY <1>3 DEF RunInv, Run, Sinks, Justified, TokenPart, RoutePart, PrivilegePart, VerdictPart
<1>7. AnswerPart(q)
  BY <1>3 DEF RunInv, AnswerPart, VerdictPart
<1>8. HeldPart(q)
  BY <1>1, <1>3 DEF RunInv, HeldPart, Justified, PrivilegePart
<1> QED BY <1>2, <1>4, <1>5, <1>6, <1>7, <1>8 DEF RunInv, q

\* A run that only moves on.
LEMMA Moves ==
    ASSUME IndInv, NEW x \in Tabs \cup Orphans, NEW pc, Forward(run[x], pc), Goto(x, pc),
           UNCHANGED <<session, cache>>
    PROVE  IndInv'
<1>1. RunInv([run[x] EXCEPT !.pc = pc])
  BY ForwardInv DEF IndInv
<1>2. Becomes(x, [run[x] EXCEPT !.pc = pc])
  BY DEF Goto, Becomes
<1> QED BY <1>1, <1>2, OneRun

\* The copilot gives up.
LEMMA Fails ==
    ASSUME IndInv, NEW x \in Tabs \cup Orphans, run[x].pc \in CopilotPcs, Answer(x, "failed"),
           UNCHANGED <<session, cache>>
    PROVE  IndInv'
<1>1. RunInv([run[x] EXCEPT !.pc = "answered", !.ans = "failed"])
  BY FailedInv DEF IndInv
<1>2. Becomes(x, [run[x] EXCEPT !.pc = "answered", !.ans = "failed"])
  BY DEF Answer, Becomes
<1> QED BY <1>1, <1>2, OneRun

\* The executor returns.
LEMMA Ends ==
    ASSUME IndInv, NEW x \in Tabs \cup Orphans,
           run[x].pc \in SpecialistPcs \ {"x-verify", "x-publish"},
           NEW out, Justified(run[x], out), Ended(x, out), UNCHANGED <<session, cache>>
    PROVE  IndInv'
<1> DEFINE r == run[x]
           held == r.held \cap Unlisted(r.pc)
           q == [r EXCEPT !.pc = "x-publish", !.out = out, !.held = held]
<1>1. r \in Run /\ RunInv(r)
  BY DEF IndInv
<1>2. q = [r EXCEPT !.pc = "x-publish", !.out = out, !.sink = r.sink, !.held = held]
  BY <1>1 DEF Run
<1>3. RunInv([r EXCEPT !.pc = "x-publish", !.out = out, !.sink = r.sink, !.held = held])
  <2> HIDE DEF r
  <2>1. Justified(r, out) /\ r.pc \in SpecialistPcs \ {"x-verify", "x-publish"}
    BY DEF r
  <2> QED BY <1>1, <2>1, EndedInv
<1>4. Becomes(x, q)
  BY DEF Ended, Becomes
<1> QED BY <1>2, <1>3, <1>4, OneRun

\* A probe ends.
LEMMA Probed ==
    ASSUME IndInv, NEW x \in Tabs \cup Orphans, run[x].route = "probe",
           run[x].pc \in {"mint"} \cup ProbePcs,
           NEW verdict \in {"ok", "error", "step-up", "access_denied", "outage"},
           verdict = "ok" => run[x].pc = "p-list",
           verdict = "step-up" => run[x].tok.acr # "mfa" /\ run[x].pc \in ProbePcs,
           verdict = "access_denied" => ~MayWrite(run[x].tok.sub),
           verdict = "outage" => run[x].pc \in {"mint", "p-ops"},
           ProbeEnds(x, verdict), UNCHANGED <<session, cache>>
    PROVE  IndInv'
<1> DEFINE r == run[x]
           held == IF verdict = "ok" THEN {} ELSE r.held
<1>1. RunInv(r) /\ r.tok \in LoginTokens
  BY DEF IndInv, RunInv, TokenPart, ProbePcs
<1>2. PICK read \in ReadTier(r.tok) :
        run' = [run EXCEPT ![x].pc = "answered", ![x].ans = "tools", ![x].out = verdict,
                           ![x].tier = read, ![x].held = IF verdict = "ok" THEN {} ELSE @]
  BY DEF ProbeEnds
<1>3. read \in {"ok", "error", "outage"}
  BY <1>1, ReadTierValue
<1>4. RunInv([r EXCEPT !.pc = "answered", !.ans = "tools", !.out = verdict, !.tier = read,
                       !.held = held])
  <2>1. /\ r.route = "probe" /\ r.pc \in {"mint"} \cup ProbePcs
        /\ verdict = "ok" => r.pc = "p-list"
        /\ verdict = "step-up" => r.tok.acr # "mfa" /\ r.pc \in ProbePcs
        /\ verdict = "access_denied" => ~MayWrite(r.tok.sub)
        /\ verdict = "outage" => r.pc \in {"mint", "p-ops"}
    BY DEF r
  <2>2. held = IF verdict = "ok" THEN {} ELSE r.held
    BY DEF held
  <2> HIDE DEF r, held
  <2> QED BY <1>1, <1>3, <2>1, <2>2, ProbeEndsInv
<1>5. Becomes(x, [r EXCEPT !.pc = "answered", !.ans = "tools", !.out = verdict, !.tier = read,
                           !.held = held])
  BY <1>2 DEF Becomes
<1> QED BY <1>4, <1>5, OneRun

\* obtainSpecialistToken fails, with a refusal only if Curity refused.
LEMMA NoTokenInv ==
    ASSUME IndInv, NEW x \in Tabs, run[x].pc = "mint",
           NEW code \in {"outage", "error", "access_denied"},
           code = "access_denied" => ~MayWrite(run[x].tok.sub),
           NoSpecialistToken(x, code), UNCHANGED <<session, cache>>
    PROVE  IndInv'
<1> DEFINE r == run[x]
           ans == IF code = "access_denied" THEN "denied" ELSE "failed"
           q == [r EXCEPT !.pc = "answered", !.ans = ans]
<1>1. RunInv(r) /\ r.tok \in LoginTokens /\ r.route \in {"probe", "privileged"}
  BY DEF IndInv, RunInv, Run, TokenPart, RoutePart, Routes
<1>2. CASE r.route = "probe"
  BY <1>1, <1>2, Probed DEF NoSpecialistToken
<1>3. CASE r.route = "privileged" /\ code # "access_denied"
  BY <1>1, <1>3, Fails DEF NoSpecialistToken, CopilotPcs
<1>4. CASE r.route = "privileged" /\ code = "access_denied"
  <2>1. Becomes(x, q)
    BY <1>4 DEF NoSpecialistToken, Answer, Becomes
  <2>2. q \in Run
    <3>1. "answered" \in Pcs /\ ans \in Anss
      BY DEF Pcs, Anss
    <3> QED BY <1>1, <3>1 DEF RunInv, Run
  <2>3. /\ q.pc = "answered" /\ q.route = "privileged" /\ q.tok = r.tok /\ q.sp = r.sp
        /\ q.held = r.held /\ q.sink = r.sink /\ q.out = r.out /\ q.did = r.did /\ q.ans = "denied"
    BY <1>1, <1>4 DEF RunInv, Run
  <2> HIDE DEF q, r
  <2>4. r.pc = "mint" /\ ~MayWrite(r.tok.sub) /\ RunInv(r)
    BY <1>1, <1>4 DEF r
  <2> USE DEF CopilotPcs, ProbePcs, SpecialistPcs, Working
  <2>5. TokenPart(q) /\ RoutePart(q) /\ PrivilegePart(q)
    BY <2>3, <2>4 DEF RunInv, Run, TokenPart, RoutePart, PrivilegePart
  <2>6. VerdictPart(q) /\ AnswerPart(q) /\ HeldPart(q)
    BY <2>3, <2>4 DEF RunInv, VerdictPart, AnswerPart, HeldPart
  <2>7. RunInv(q)
    BY <2>2, <2>5, <2>6 DEF RunInv
  <2> QED BY <2>1, <2>7, OneRun
<1> QED BY <1>1, <1>2, <1>3, <1>4

\* What the invariant says of the run a step is about.
LEMMA ThisRun ==
    ASSUME IndInv, NEW x \in Tabs \cup Orphans
    PROVE  run[x] \in Run /\ RunInv(run[x])
BY DEF IndInv

\* authMiddleware and the choice of the route.
LEMMA VerifyInv ==
    ASSUME IndInv, NEW tab \in Tabs, Verify(tab) PROVE IndInv'
<1>1. CASE Goto(tab, IF run[tab].route = "read" THEN "mcp" ELSE "lookup")
  <2>1. Forward(run[tab], IF run[tab].route = "read" THEN "mcp" ELSE "lookup")
    BY DEF Verify, Forward
  <2> QED BY <1>1, <2>1, Moves DEF Verify
<1>2. CASE Answer(tab, "failed")
  BY <1>2, Fails DEF Verify, CopilotPcs
<1> QED BY <1>1, <1>2 DEF Verify

\* A hit of the cache is what Curity would mint: the key determines the session.
LEMMA LookupInv ==
    ASSUME IndInv, NEW tab \in Tabs, Lookup(tab) PROVE IndInv'
<1> DEFINE r == run[tab]
<1>1. RunInv(r) /\ r.pc = "lookup" /\ r.tok \in LoginTokens
  BY ThisRun DEF Lookup, RunInv, TokenPart
<1>2. CASE Goto(tab, "mint")
  <2>1. Forward(r, "mint")
    BY <1>1 DEF Forward
  <2> QED BY <1>2, <2>1, Moves DEF Lookup
<1>3. ASSUME NEW e \in cache, e.key = CacheKey(r.tok),
             run' = [run EXCEPT ![tab] = WithToken(@, e.tok)]
      PROVE  IndInv'
  <2>1. PICK t \in LoginTokens : MayWrite(t.sub) /\ e = [key |-> CacheKey(t), tok |-> SpFor(t)]
    BY <1>3 DEF IndInv, EntryInv
  <2>2. t = r.tok
    BY <1>1, <1>3, <2>1, KeyDetermines
  <2>3. RunInv(WithToken(r, SpFor(r.tok)))
    BY <1>1, <2>1, <2>2, WithTokenInv
  <2>4. Becomes(tab, WithToken(r, SpFor(r.tok)))
    BY <1>3, <2>1, <2>2 DEF Lookup, Becomes
  <2> QED BY <2>3, <2>4, OneRun
<1> QED BY <1>2, <1>3 DEF Lookup

\* The exchange for the specialist: granted, refused by Curity, or failed.
LEMMA MintSpecialistInv ==
    ASSUME IndInv, NEW tab \in Tabs, MintSpecialist(tab) PROVE IndInv'
<1> DEFINE r == run[tab]
           t == r.tok
<1>1. RunInv(r) /\ r.pc = "mint" /\ t \in LoginTokens
  BY ThisRun DEF MintSpecialist, RunInv, TokenPart
<1>2. CASE /\ Granted(ToSpecialist, "copilot", t, Scopes)
           /\ run' = [run EXCEPT ![tab] = WithToken(@, SpFor(t))]
           /\ cache' = IF Caching
                       THEN {e \in cache : e.key # CacheKey(t)}
                              \cup {[key |-> CacheKey(t), tok |-> SpFor(t)]}
                       ELSE cache
  <2>1. MayWrite(t.sub)
    BY <1>1, <1>2, SpClaims
  <2>2. RunInv(WithToken(r, SpFor(t)))
    BY <1>1, <2>1, WithTokenInv
  <2>3. \A e \in cache' : EntryInv(e)
    BY <1>1, <1>2, <2>1 DEF IndInv, EntryInv
  <2>4. session' \in [Tabs -> LoginTokens]
    BY DEF MintSpecialist, IndInv
  <2> QED BY <1>2, <2>2, <2>3, <2>4, RunChanges
<1>3. CASE /\ ~Granted(ToSpecialist, "copilot", t, Scopes)
           /\ NoSpecialistToken(tab, Refusal(ToSpecialist, t, Scopes))
           /\ UNCHANGED cache
  <2>1. ~MayWrite(t.sub) /\ Refusal(ToSpecialist, t, Scopes) = "access_denied"
    BY <1>1, <1>3, SpClaims
  <2>2. NoSpecialistToken(tab, "access_denied") /\ UNCHANGED <<session, cache>>
    BY <1>3, <2>1 DEF MintSpecialist
  <2> QED BY <1>1, <2>1, <2>2, NoTokenInv
<1>4. ASSUME NEW code \in {"outage", "error"}, NoSpecialistToken(tab, code), UNCHANGED cache
      PROVE  IndInv'
  BY <1>1, <1>4, NoTokenInv DEF MintSpecialist
<1> QED BY <1>2, <1>3, <1>4 DEF MintSpecialist, SpFor

\* The call breaks off; an orphan goes on with what the run was.
LEMMA CallFailsInv ==
    ASSUME IndInv, NEW tab \in Tabs, CallFails(tab) PROVE IndInv'
<1>1. RunInv(run[tab]) /\ RunInv(Broken(run[tab]))
  BY ThisRun, BrokenInv DEF CallFails
<1>2. session' = session /\ \A e \in cache' : EntryInv(e)
  BY DEF CallFails, IndInv
<1>3. CASE run' = [run EXCEPT ![tab] = Broken(@)]
  BY <1>1, <1>2, <1>3, RunChanges DEF IndInv
<1>4. ASSUME NEW o \in Orphans, run' = [run EXCEPT ![tab] = Broken(@), ![o] = run[tab]]
      PROVE  IndInv'
  <2>1. run' \in [Tabs \cup Orphans -> Run]
    BY <1>1, <1>4 DEF IndInv, RunInv
  <2>2. \A x \in Tabs \cup Orphans : run'[x] \in {run[x], run[tab], Broken(run[tab])}
    BY <1>4 DEF IndInv
  <2> QED BY <1>1, <1>2, <2>1, <2>2 DEF IndInv
<1> QED BY <1>3, <1>4 DEF CallFails

\* The copilot turns the verdict of the executor into its answer.
LEMMA ReplyInv ==
    ASSUME IndInv, NEW tab \in Tabs, Reply(tab) PROVE IndInv'
<1> DEFINE r == run[tab]
           ans == Reported(r.out)
           q == [r EXCEPT !.pc = "answered", !.ans = ans]
<1>1. RunInv(r) /\ r.pc = "reply"
  BY ThisRun DEF Reply
<1>2. /\ ans \in {"step-up", "ok", "sorry"}
      /\ ans = "step-up" <=> r.out = "step-up"
      /\ ans = "ok" <=> r.out = "ok"
  BY DEF Reported
<1>3. Becomes(tab, q)
  BY DEF Reply, Answer, Becomes
<1> HIDE DEF r, ans
<1>4. q \in Run
  <2>1. "answered" \in Pcs /\ ans \in Anss
    BY <1>2 DEF Pcs, Anss
  <2> QED BY <1>1, <2>1 DEF RunInv, Run
<1>5. /\ q.pc = "answered" /\ q.route = r.route /\ q.tok = r.tok /\ q.sp = r.sp
      /\ q.held = r.held /\ q.sink = r.sink /\ q.out = r.out /\ q.did = r.did /\ q.ans = ans
  BY <1>1 DEF RunInv, Run
<1> HIDE DEF q
<1> USE DEF ProbePcs, SpecialistPcs, Working
<1>6. TokenPart(q) /\ RoutePart(q) /\ PrivilegePart(q)
  BY <1>1, <1>2, <1>5 DEF RunInv, TokenPart, RoutePart, PrivilegePart
<1>7. VerdictPart(q)
  BY <1>1, <1>5 DEF RunInv, VerdictPart
<1>8. AnswerPart(q)
  BY <1>1, <1>2, <1>5 DEF RunInv, TokenPart, RoutePart, AnswerPart
<1>9. HeldPart(q)
  BY <1>1, <1>5 DEF RunInv, HeldPart
<1>10. RunInv(q)
  BY <1>4, <1>6, <1>7, <1>8, <1>9 DEF RunInv
<1> QED BY <1>3, <1>10, OneRun

\* The two exchanges of the read route.
LEMMA ReadTokensInv ==
    ASSUME IndInv, NEW tab \in Tabs, ReadTokens(tab) PROVE IndInv'
<1>1. CASE run[tab].pc = "mcp" /\ Goto(tab, "llm")
  BY <1>1, Moves DEF ReadTokens, Forward
<1>2. CASE run[tab].pc = "llm" /\ Goto(tab, "open")
  BY <1>2, Moves DEF ReadTokens, Forward
<1>3. CASE run[tab].pc \in {"mcp", "llm"} /\ Answer(tab, "failed")
  BY <1>3, Fails DEF ReadTokens, CopilotPcs
<1> QED BY <1>1, <1>2, <1>3 DEF ReadTokens

\* A client is connected: the steps that open a toolset, with what is then held.
Opening(r, pc, held) ==
    \/ r.pc = "open" /\ pc = "list" /\ held = {"inspect"}
    \/ r.pc = "x-open-r" /\ pc = "x-list-r" /\ held = {"read"}
    \/ r.pc = "x-open-w" /\ pc = "x-list-w" /\ held = r.held \cup {"write"}
    \/ r.pc = "p-open" /\ pc = "p-list" /\ held = {"write"}

\* Connecting a client keeps what is known of a run.
LEMMA Opens ==
    ASSUME IndInv, NEW x \in Tabs \cup Orphans, NEW pc, NEW held, Opening(run[x], pc, held),
           run' = [run EXCEPT ![x].pc = pc, ![x].held = held], UNCHANGED <<session, cache>>
    PROVE  IndInv'
<1> DEFINE r == run[x]
           q == [r EXCEPT !.pc = pc, !.held = held]
<1>1. RunInv(r) /\ Opening(r, pc, held)
  BY ThisRun
<1>2. Becomes(x, q)
  BY DEF Becomes
<1> HIDE DEF r
<1>3. held \subseteq Toolsets /\ pc \in Pcs
  BY <1>1 DEF Opening, RunInv, Run, Toolsets, Pcs, CopilotPcs, SpecialistPcs, ProbePcs
<1>4. q \in Run
  BY <1>1, <1>3 DEF RunInv, Run
<1>5. /\ q.pc = pc /\ q.route = r.route /\ q.tok = r.tok /\ q.sp = r.sp
      /\ q.held = held /\ q.sink = r.sink /\ q.out = r.out /\ q.did = r.did /\ q.ans = r.ans
      /\ q.tier = r.tier
  BY <1>1 DEF RunInv, Run
<1> HIDE DEF q
<1> USE DEF ProbePcs, SpecialistPcs, Working
<1>6. TokenPart(q) /\ RoutePart(q) /\ PrivilegePart(q)
  BY <1>1, <1>5 DEF Opening, RunInv, TokenPart, RoutePart, PrivilegePart
<1>7. VerdictPart(q) /\ AnswerPart(q)
  BY <1>1, <1>5 DEF Opening, RunInv, VerdictPart, AnswerPart
<1>8. HeldPart(q)
  BY <1>1, <1>5 DEF Opening, RunInv, HeldPart
<1>9. RunInv(q)
  BY <1>4, <1>6, <1>7, <1>8 DEF RunInv
<1> QED BY <1>2, <1>9, OneRun

\* The toolset of the read route.
LEMMA ReadToolsetInv ==
    ASSUME IndInv, NEW tab \in Tabs, ReadToolset(tab) PROVE IndInv'
<1>1. CASE run[tab].pc = "open" /\ run' = [run EXCEPT ![tab].pc = "list", ![tab].held = {"inspect"}]
  BY <1>1, Opens DEF ReadToolset, Opening
<1>2. CASE run[tab].pc = "list" /\ Goto(tab, "generate")
  BY <1>2, Moves DEF ReadToolset, Forward
<1>3. CASE run[tab].pc \in {"open", "list"} /\ Answer(tab, "failed")
  BY <1>3, Fails DEF ReadToolset, CopilotPcs
<1> QED BY <1>1, <1>2, <1>3 DEF ReadToolset

\* The LLM of the read route answers, or not, and its toolset is closed.
LEMMA GenerateInv ==
    ASSUME IndInv, NEW tab \in Tabs, Generate(tab) PROVE IndInv'
<1> DEFINE r == run[tab]
<1>1. RunInv(r) /\ r.pc = "generate"
  BY ThisRun DEF Generate
<1>2. PICK ans \in {"ok", "failed"} :
          run' = [run EXCEPT ![tab].pc = "answered", ![tab].ans = ans, ![tab].held = {}]
  BY DEF Generate
<1> DEFINE q == [r EXCEPT !.pc = "answered", !.ans = ans, !.held = {}]
<1>3. Becomes(tab, q)
  BY <1>2 DEF Generate, Becomes
<1> HIDE DEF r
<1>4. q \in Run
  <2>1. "answered" \in Pcs /\ ans \in Anss /\ {} \in SUBSET Toolsets
    BY DEF Pcs, Anss
  <2> QED BY <1>1, <2>1 DEF RunInv, Run
<1> USE DEF CopilotPcs, ProbePcs, SpecialistPcs, Working
<1>5. TokenPart(q) /\ RoutePart(q) /\ PrivilegePart(q)
  BY <1>1 DEF RunInv, Run, TokenPart, RoutePart, PrivilegePart
<1>6. VerdictPart(q) /\ AnswerPart(q) /\ HeldPart(q)
  BY <1>1 DEF RunInv, Run, RoutePart, VerdictPart, AnswerPart, HeldPart
<1>7. RunInv(q)
  BY <1>4, <1>5, <1>6 DEF RunInv
<1> QED BY <1>3, <1>7, OneRun

\* The copilot.
LEMMA CopilotInv ==
    ASSUME IndInv, NEW tab \in Tabs, Copilot(tab) PROVE IndInv'
<1>1. CASE Call(tab)
  BY <1>1, Moves DEF Call, Forward
<1> QED BY <1>1, VerifyInv, LookupInv, MintSpecialistInv, ReplyInv, ReadTokensInv, ReadToolsetInv,
           GenerateInv DEF Copilot

\* The token of a run that is with the specialist or its probe.
LEMMA AtSpecialist ==
    ASSUME IndInv, NEW x \in Tabs \cup Orphans, run[x].pc \in SpecialistPcs \cup ProbePcs
    PROVE  /\ run[x].tok \in LoginTokens
           /\ MayWrite(run[x].tok.sub)
           /\ run[x].sp = SpFor(run[x].tok)
           /\ run[x].sp.acr = run[x].tok.acr
<1>1. /\ run[x].tok \in LoginTokens /\ MayWrite(run[x].tok.sub)
      /\ run[x].sp = SpFor(run[x].tok)
  BY ThisRun DEF RunInv, TokenPart, SpecialistPcs, ProbePcs
<1> QED BY <1>1, SpClaims

\* The specialist verifies the token, or fails the task without a message.
LEMMA XVerifyInv ==
    ASSUME IndInv, NEW x \in Tabs \cup Orphans, XVerify(x) PROVE IndInv'
<1> DEFINE r == run[x]
           q == [r EXCEPT !.pc = "reply", !.out = "unverified"]
<1>1. RunInv(r) /\ r.pc = "x-verify"
  BY ThisRun DEF XVerify
<1>2. CASE Goto(x, "x-discover")
  BY <1>1, <1>2, Moves DEF XVerify, Forward
<1>3. CASE run' = [run EXCEPT ![x].pc = "reply", ![x].out = "unverified"]
  <2>1. Becomes(x, q)
    BY <1>3 DEF XVerify, Becomes
  <2> HIDE DEF r
  <2>2. q \in Run
    <3>1. "reply" \in Pcs /\ "unverified" \in Outs
      BY DEF Pcs, Outs
    <3> QED BY <1>1, <3>1 DEF RunInv, Run
  <2> USE DEF CopilotPcs, ProbePcs, SpecialistPcs, Working
  <2>3. TokenPart(q) /\ RoutePart(q) /\ PrivilegePart(q)
    BY <1>1 DEF RunInv, Run, TokenPart, RoutePart, PrivilegePart
  <2>4. VerdictPart(q) /\ AnswerPart(q) /\ HeldPart(q)
    BY <1>1 DEF RunInv, Run, PrivilegePart, VerdictPart, AnswerPart, HeldPart
  <2>5. RunInv(q)
    BY <2>2, <2>3, <2>4 DEF RunInv
  <2> QED BY <2>1, <2>5, OneRun
<1> QED BY <1>2, <1>3 DEF XVerify

\* The write token, and the acr pre-check.
LEMMA XOpsInv ==
    ASSUME IndInv, NEW x \in Tabs \cup Orphans, XOps(x) PROVE IndInv'
<1> DEFINE r == run[x]
           granted == Granted(SpecialistToMcp, "specialist", r.sp, {"ops:write"})
           refusal == Refusal(SpecialistToMcp, r.sp, {"ops:write"})
<1>1. /\ RunInv(r) /\ r.pc \in {"x-discover", "x-ops"} /\ UNCHANGED <<session, cache>>
  BY ThisRun DEF XOps
<1>2. /\ r.sp.acr = r.tok.acr
      /\ granted <=> r.tok.acr = "mfa"
      /\ r.tok.acr # "mfa" => refusal = "invalid_scope"
  BY <1>1, AtSpecialist, SpExchanges DEF SpecialistPcs
<1>3. r.sink = "no" /\ r.pc \in SpecialistPcs \ {"x-verify", "x-publish"}
  BY <1>1 DEF RunInv, PrivilegePart, SpecialistPcs
<1>4. CASE r.pc = "x-discover" /\ Goto(x, "x-ops")
  BY <1>1, <1>4, Moves DEF Forward
<1>5. CASE r.pc = "x-ops" /\ granted /\ AfterOps(x)
  <2>1. Goto(x, "x-inspect") /\ Forward(r, "x-inspect")
    BY <1>2, <1>5 DEF AfterOps, RequiredAcr, Forward
  <2> QED BY <1>1, <2>1, Moves
<1>6. CASE r.pc = "x-ops" /\ ~granted
           /\ Ended(x, IF refusal = "invalid_scope" THEN "step-up" ELSE "error")
  <2>1. Ended(x, "step-up") /\ Justified(r, "step-up")
    BY <1>2, <1>6 DEF Justified
  <2> QED BY <1>1, <1>3, <2>1, Ends
<1>7. CASE Ended(x, "error")
  <2>1. Justified(r, "error")
    BY <1>3 DEF Justified
  <2> QED BY <1>1, <1>3, <1>7, <2>1, Ends
<1> QED BY <1>4, <1>5, <1>6, <1>7 DEF XOps

\* The read token is never refused here, and the read toolset is opened.
LEMMA XReadInv ==
    ASSUME IndInv, NEW x \in Tabs \cup Orphans, XRead(x) PROVE IndInv'
<1> DEFINE r == run[x]
           granted == Granted(SpecialistToMcp, "specialist", r.sp, {"inspect:read"})
<1>1. /\ RunInv(r) /\ r.pc \in {"x-inspect", "x-open-r", "x-list-r"}
      /\ UNCHANGED <<session, cache>>
  BY ThisRun DEF XRead
<1>2. granted
  BY <1>1, AtSpecialist, SpExchanges DEF SpecialistPcs
<1>3. r.sink = "no" /\ r.pc \in SpecialistPcs \ {"x-verify", "x-publish"}
  BY <1>1 DEF RunInv, PrivilegePart, SpecialistPcs
<1>4. CASE r.pc = "x-inspect" /\ Goto(x, "x-open-r")
  BY <1>1, <1>4, Moves DEF Forward
<1>5. CASE r.pc = "x-open-r" /\ run' = [run EXCEPT ![x].pc = "x-list-r", ![x].held = {"read"}]
  BY <1>1, <1>5, Opens DEF Opening
<1>6. CASE r.pc = "x-list-r" /\ Goto(x, "x-open-w")
  BY <1>1, <1>6, Moves DEF Forward
<1>7. CASE Ended(x, "error")
  <2>1. Justified(r, "error")
    BY <1>3 DEF Justified
  <2> QED BY <1>1, <1>3, <1>7, <2>1, Ends
<1> QED BY <1>2, <1>4, <1>5, <1>6, <1>7 DEF XRead

\* The write toolset, and the challenge it may meet.
LEMMA XWriteInv ==
    ASSUME IndInv, NEW x \in Tabs \cup Orphans, XWrite(x) PROVE IndInv'
<1> DEFINE r == run[x]
           held == r.held \cap Unlisted(r.pc)
<1>1. /\ RunInv(r) /\ r.pc \in {"x-open-w", "x-list-w"} /\ UNCHANGED <<session, cache>>
  BY ThisRun DEF XWrite
<1>2. r.sink = "no" /\ r.pc \in SpecialistPcs \ {"x-verify", "x-publish"} /\ Justified(r, "error")
  BY <1>1 DEF RunInv, PrivilegePart, SpecialistPcs, Justified
<1>3. CASE r.pc = "x-open-w"
           /\ run' = [run EXCEPT ![x].pc = "x-list-w", ![x].held = @ \cup {"write"}]
  <2>1. run' = [run EXCEPT ![x].pc = "x-list-w", ![x].held = r.held \cup {"write"}]
    BY <1>3
  <2> QED BY <1>1, <1>3, <2>1, Opens DEF Opening
<1>4. CASE r.pc = "x-list-w" /\ Goto(x, "x-llm")
  BY <1>1, <1>4, Moves DEF Forward
<1>5. CASE run' = [run EXCEPT ![x].pc = "x-publish", ![x].out = "error", ![x].sink = "opening",
                              ![x].held = @ \cap Unlisted(run[x].pc)]
  <2>1. RunInv([r EXCEPT !.pc = "x-publish", !.out = "error", !.sink = "opening", !.held = held])
    BY <1>1, <1>2, EndedInv
  <2>2. Becomes(x, [r EXCEPT !.pc = "x-publish", !.out = "error", !.sink = "opening",
                             !.held = held])
    BY <1>1, <1>5 DEF Becomes
  <2> QED BY <2>1, <2>2, OneRun
<1>6. CASE Ended(x, "error")
  BY <1>1, <1>2, <1>6, Ends
<1> QED BY <1>3, <1>4, <1>5, <1>6 DEF XWrite

\* The token for the LLM gateway, or an error.
LEMMA XLlmInv ==
    ASSUME IndInv, NEW x \in Tabs \cup Orphans, XLlm(x) PROVE IndInv'
<1>1. RunInv(run[x]) /\ run[x].pc = "x-llm" /\ UNCHANGED <<session, cache>>
  BY ThisRun DEF XLlm
<1>2. Justified(run[x], "error") /\ run[x].pc \in SpecialistPcs \ {"x-verify", "x-publish"}
  BY <1>1 DEF RunInv, PrivilegePart, Justified, SpecialistPcs
<1>3. CASE Goto(x, "x-loop")
  BY <1>1, <1>3, Moves DEF Forward
<1>4. CASE Ended(x, "error")
  BY <1>1, <1>2, <1>4, Ends
<1> QED BY <1>3, <1>4 DEF XLlm

\* A write call, done or challenged.
LEMMA XCallInv ==
    ASSUME IndInv, NEW x \in Tabs \cup Orphans, XCall(x) PROVE IndInv'
<1> DEFINE r == run[x]
<1>1. RunInv(r) /\ r.pc = "x-loop" /\ UNCHANGED <<session, cache>>
  BY ThisRun DEF XCall
<1>2. PICK sink \in {r.sink, "loop"}, did \in {r.did, r.did + 1} :
          Becomes(x, [r EXCEPT !.sink = sink, !.did = did])
  <2>1. CASE run' = [run EXCEPT ![x].sink = "loop"]
    <3>1. [r EXCEPT !.sink = "loop", !.did = r.did] = [r EXCEPT !.sink = "loop"]
      BY <1>1 DEF RunInv, Run
    <3> QED BY <1>1, <2>1, <3>1 DEF Becomes
  <2>2. CASE run' = [run EXCEPT ![x].did = @ + 1]
    <3>1. [r EXCEPT !.sink = r.sink, !.did = r.did + 1] = [r EXCEPT !.did = r.did + 1]
      BY <1>1 DEF RunInv, Run
    <3> QED BY <1>1, <2>2, <3>1 DEF Becomes
  <2> QED BY <2>1, <2>2 DEF XCall
<1> DEFINE q == [r EXCEPT !.sink = sink, !.did = did]
<1> HIDE DEF r
<1>3. q \in Run
  <2>1. sink \in Sinks /\ did \in Nat
    BY <1>1 DEF Sinks, RunInv, Run
  <2> QED BY <1>1, <2>1 DEF RunInv, Run
<1>4. /\ q.pc = r.pc /\ q.route = r.route /\ q.tok = r.tok /\ q.sp = r.sp /\ q.held = r.held
      /\ q.sink = sink /\ q.out = r.out /\ q.did = did /\ q.ans = r.ans /\ q.tier = r.tier
  BY <1>1 DEF RunInv, Run
<1> HIDE DEF q
<1> USE DEF CopilotPcs, ProbePcs, SpecialistPcs, Working
<1>5. TokenPart(q) /\ RoutePart(q)
  BY <1>1, <1>4 DEF RunInv, TokenPart, RoutePart
<1>6. PrivilegePart(q)
  BY <1>1, <1>4 DEF RunInv, TokenPart, RoutePart, PrivilegePart, VerdictPart
<1>7. VerdictPart(q) /\ AnswerPart(q) /\ HeldPart(q)
  BY <1>1, <1>4 DEF RunInv, VerdictPart, AnswerPart, HeldPart
<1>8. RunInv(q)
  BY <1>3, <1>5, <1>6, <1>7 DEF RunInv
<1> QED BY <1>2, <1>8, OneRun DEF q

\* A recorded challenge wins.
LEMMA XLoopEndsInv ==
    ASSUME IndInv, NEW x \in Tabs \cup Orphans, XLoopEnds(x) PROVE IndInv'
<1>1. RunInv(run[x]) /\ run[x].pc = "x-loop" /\ UNCHANGED <<session, cache>>
  BY ThisRun DEF XLoopEnds
<1>2. PICK out \in {"ok", "error"} : Ended(x, LoopResult(run[x], out))
  BY DEF XLoopEnds
<1>3. Justified(run[x], LoopResult(run[x], out))
  BY <1>1 DEF RunInv, Run, Sinks, PrivilegePart, Justified, LoopResult
<1>4. run[x].pc \in SpecialistPcs \ {"x-verify", "x-publish"}
  BY <1>1 DEF SpecialistPcs
<1> QED BY <1>1, <1>2, <1>3, <1>4, Ends

\* The specialist's part of a probe.
LEMMA ProbeInv ==
    ASSUME IndInv, NEW x \in Tabs \cup Orphans,
           PVerify(x) \/ PDiscover(x) \/ POps(x) \/ PList(x)
    PROVE  IndInv'
<1> DEFINE r == run[x]
<1>1. /\ RunInv(r) /\ r.pc \in ProbePcs /\ UNCHANGED <<session, cache>>
  BY ThisRun DEF PVerify, PDiscover, POps, PList, ProbePcs
<1>2. r.route = "probe" /\ r.pc \in {"mint"} \cup ProbePcs
  BY <1>1 DEF RunInv, RoutePart
<1>3. /\ r.sp.acr = r.tok.acr
      /\ Granted(SpecialistToMcp, "specialist", r.sp, {"ops:write"}) <=> r.tok.acr = "mfa"
  BY <1>1, AtSpecialist, SpExchanges
<1>4. CASE ProbeEnds(x, "error")
  BY <1>1, <1>2, <1>4, Probed
<1>5. CASE POps(x) /\ ProbeEnds(x, "outage")
  BY <1>1, <1>2, <1>5, Probed DEF POps
<1>6. CASE PVerify(x) /\ Goto(x, "p-discover")
  BY <1>1, <1>6, Moves DEF PVerify, Forward
<1>7. CASE PDiscover(x) /\ PreCheck(x)
  <2>1. CASE r.tok.acr = "mfa"
    BY <1>1, <1>3, <1>7, <2>1, Moves DEF PDiscover, PreCheck, RequiredAcr, Forward
  <2>2. CASE r.tok.acr # "mfa"
    <3>1. ProbeEnds(x, "step-up")
      BY <1>3, <1>7, <2>2 DEF PreCheck, RequiredAcr
    <3> QED BY <1>1, <1>2, <2>2, <3>1, Probed
  <2> QED BY <2>1, <2>2
<1>8. CASE POps(x) /\ ~ProbeEnds(x, "error") /\ ~ProbeEnds(x, "outage")
  <2>1. r.pc = "p-ops" /\ r.tok.acr = "mfa"
    BY <1>1, <1>8 DEF POps, RunInv, PrivilegePart
  <2>2. Goto(x, "p-open") /\ Forward(r, "p-open")
    BY <1>3, <1>8, <2>1 DEF POps, Forward
  <2> QED BY <1>1, <2>2, Moves
<1>9. CASE PList(x) /\ ~ProbeEnds(x, "error")
  <2>1. CASE r.pc = "p-open" /\ run' = [run EXCEPT ![x].pc = "p-list", ![x].held = {"write"}]
    BY <1>1, <2>1, Opens DEF Opening
  <2>2. CASE r.pc = "p-list" /\ ProbeEnds(x, "ok")
    BY <1>1, <1>2, <2>2, Probed
  <2> QED BY <1>9, <2>1, <2>2 DEF PList
<1> QED BY <1>4, <1>6, <1>7, <1>8, <1>9, <1>5 DEF PVerify, PDiscover

\* The specialist.
LEMMA SpecialistInv ==
    ASSUME IndInv, NEW x \in Tabs \cup Orphans, Specialist(x) PROVE IndInv'
<1>1. CASE XPublish(x)
  BY <1>1, Moves DEF XPublish, Forward
<1> QED BY <1>1, XVerifyInv, XOpsInv, XReadInv, XWriteInv, XLlmInv, XCallInv, XLoopEndsInv, ProbeInv
        DEF Specialist

\* IndInv is inductive.
LEMMA NextInv == IndInv /\ [Next]_vars => IndInv'
<1> SUFFICES ASSUME IndInv, [Next]_vars PROVE IndInv'
  OBVIOUS
<1>1. ASSUME NEW tab \in Tabs, Browser(tab) \/ Copilot(tab) \/ CallFails(tab) PROVE IndInv'
  BY <1>1, BrowserInv, CopilotInv, CallFailsInv
<1>2. ASSUME NEW x \in Tabs \cup Orphans, Specialist(x) PROVE IndInv'
  BY <1>2, SpecialistInv
<1>3. ASSUME NEW o \in Orphans, Forget(o) PROVE IndInv'
  BY <1>3, IdleInv, OneRun DEF Forget, Becomes
<1>4. ASSUME NEW e \in cache, Expire(e) PROVE IndInv'
  BY <1>4 DEF Expire, IndInv
<1>5. ASSUME NEW acr \in OpsAcrs, Redeploy(acr) PROVE IndInv'
  BY <1>5 DEF Redeploy, IndInv
<1>6. CASE UNCHANGED vars
  BY <1>6 DEF vars, IndInv
<1> QED BY <1>1, <1>2, <1>3, <1>4, <1>5, <1>6 DEF Next

\* The inductive invariant holds of every reachable state.
THEOREM Invariance == Spec => []IndInv
BY InitInv, NextInv, PTL DEF Spec
-----------------------------------------------------------------------------
(* What the system promises. *)

\* The specialist asks for MFA only where MFA helps: of a user who may write, of
\* a question that was asked without it.
THEOREM StepUpAlwaysHelps == Spec => []StepUpHelps
<1>1. IndInv => StepUpHelps
  BY DEF IndInv, RunInv, VerdictPart, AnswerPart, StepUpHelps
<1> QED BY <1>1, Invariance, PTL

\* The token the specialist works with is the asking user's, at the level of the
\* session that asked, out of the shared cache too, and in an orphan.
THEOREM TokenIsOwn == Spec => []OwnToken
<1>1. IndInv => OwnToken
  <2> SUFFICES ASSUME IndInv, NEW x \in Tabs \cup Orphans, run[x].sp # NoToken
               PROVE  run[x].sp.sub = run[x].tok.sub /\ run[x].sp.acr = run[x].tok.acr
    BY DEF OwnToken
  <2>1. run[x].sp = SpFor(run[x].tok) /\ run[x].tok \in LoginTokens
    BY DEF IndInv, RunInv, TokenPart
  <2> QED BY <2>1, SpClaims
<1> QED BY <1>1, Invariance, PTL

\* The cluster changes only for a question at acr=mfa by a user with a write role,
\* and never in a run that was denied or challenged by the specialist itself.
THEOREM ChangesAuthorized == Spec => []ChangesAreAuthorized
<1>1. IndInv => ChangesAreAuthorized
  BY DEF IndInv, RunInv, Run, Sinks, PrivilegePart, VerdictPart, AnswerPart, ChangesAreAuthorized
<1> QED BY <1>1, Invariance, PTL

\* A success that is shown is a success of the executor.
THEOREM SuccessIsTrue == Spec => []NoFalseSuccess
<1>1. IndInv => NoFalseSuccess
  BY DEF IndInv, RunInv, AnswerPart, NoFalseSuccess
<1> QED BY <1>1, Invariance, PTL

\* The tool panel tells what a remediation would meet.
THEOREM ProbeIsTruthful == Spec => []ProbeTruthful
<1>1. IndInv => ProbeTruthful
  BY DEF IndInv, RunInv, Run, Tiers, PrivilegePart, VerdictPart, AnswerPart, ProbeTruthful,
     Status
<1> QED BY <1>1, Invariance, PTL

\* Every toolset that was returned is closed; what may stay open is the one client
\* of a failed run whose tools/list failed.
THEOREM ToolsetsAreClosed == Spec => []ToolsetsClosed
<1>1. IndInv => ToolsetsClosed
  <2> SUFFICES ASSUME IndInv, NEW x \in Tabs \cup Orphans, run[x].pc \in {"reply", "answered"}
               PROVE  /\ Cardinality(run[x].held) <= 1
                      /\ run[x].held # {} => run[x].out = "error" \/ run[x].ans = "failed"
    BY DEF ToolsetsClosed
  <2>1. run[x].held = {} \/ \E c \in Toolsets : run[x].held = {c}
    BY DEF IndInv, RunInv, HeldPart
  <2>2. Cardinality(run[x].held) <= 1
    <3>1. CASE run[x].held = {}
      BY <3>1, FS_EmptySet
    <3>2. ASSUME NEW c \in Toolsets, run[x].held = {c} PROVE Cardinality(run[x].held) <= 1
      BY <3>2, FS_Singleton
    <3> QED BY <2>1, <3>1, <3>2
  <2> QED BY <2>2 DEF IndInv, RunInv, HeldPart
<1> QED BY <1>1, Invariance, PTL

\* A challenge raised during the LLM loop reaches the user as a challenge.
THEOREM LoopChallengeAlwaysWins == Spec => []LoopChallengeWins
<1>1. IndInv => LoopChallengeWins
  BY DEF IndInv, RunInv, VerdictPart, LoopChallengeWins
<1> QED BY <1>1, Invariance, PTL
-----------------------------------------------------------------------------
(***************************************************************************)
(* The refinement.  A step of the services either leaves what the user     *)
(* sees, answers, or records a challenge; that an answer is one the        *)
(* dialogue allows follows from the invariant of the state it leads to.    *)
(***************************************************************************)

\* r and q are the same question, before and after a step.
SameQuestion(r, q) == q.tok = r.tok /\ q.route = r.route /\ Working(r.pc) /\ q.pc # "idle"

\* Nothing was recorded; or mcp-ops has just asked for more.
Quiet(r, q) == SameQuestion(r, q) /\ q.sink = r.sink
Raised(r, q) == SameQuestion(r, q) /\ r.sink = "no" /\ q.sink # "no" /\ Working(q.pc)

\* Only the run of x changes, and goes on.
GoesOn(x) ==
    /\ \A y \in Tabs \ {x} : run'[y] = run[y]
    /\ Quiet(run[x], run'[x]) \/ Raised(run[x], run'[x])

\* A probe that ends goes on, in this sense.
LEMMA ProbeGoesOn ==
    ASSUME IndInv, NEW x \in Tabs \cup Orphans, Working(run[x].pc),
           NEW verdict, ProbeEnds(x, verdict)
    PROVE  GoesOn(x)
<1> DEFINE r == run[x]
           held == IF verdict = "ok" THEN {} ELSE r.held
<1>1. run \in [Tabs \cup Orphans -> Run] /\ r \in Run
  BY DEF IndInv
<1>2. PICK read \in ReadTier(r.tok) :
        run' = [run EXCEPT ![x].pc = "answered", ![x].ans = "tools", ![x].out = verdict,
                           ![x].tier = read, ![x].held = IF verdict = "ok" THEN {} ELSE @]
  BY DEF ProbeEnds
<1> DEFINE q == [r EXCEPT !.pc = "answered", !.ans = "tools", !.out = verdict, !.tier = read,
                          !.held = held]
<1>3. run' = [run EXCEPT ![x] = q]
  BY <1>2
<1>4. Quiet(r, q)
  BY <1>1 DEF Run, Quiet, SameQuestion
<1> HIDE DEF q
<1> QED BY <1>1, <1>3, <1>4 DEF GoesOn

\* So does a run that got its token for the specialist.
LEMMA TokenGoesOn ==
    ASSUME IndInv, NEW x \in Tabs \cup Orphans, Working(run[x].pc), NEW sp,
           run' = [run EXCEPT ![x] = WithToken(@, sp)]
    PROVE  GoesOn(x)
<1> DEFINE r == run[x]
           q == WithToken(r, sp)
<1>1. run \in [Tabs \cup Orphans -> Run] /\ r \in Run /\ run' = [run EXCEPT ![x] = q]
  BY DEF IndInv
<1>2. Quiet(r, q)
  BY <1>1 DEF Run, Quiet, SameQuestion, WithToken
<1> HIDE DEF q
<1> QED BY <1>1, <1>2 DEF GoesOn

\* Every step of the copilot is of this kind, a call that breaks off included.
LEMMA CopilotGoesOn ==
    ASSUME IndInv, NEW tab \in Tabs, Copilot(tab) \/ CallFails(tab) PROVE GoesOn(tab)
<1>1. run \in [Tabs \cup Orphans -> Run] /\ run[tab] \in Run
  BY DEF IndInv
<1> USE <1>1 DEF GoesOn, Quiet, SameQuestion, Working, Run
<1>2. CASE Verify(tab) \/ Call(tab) \/ Reply(tab)
  BY <1>2 DEF Verify, Call, Reply, Goto, Answer
<1>3. CASE Lookup(tab)
  <2>1. CASE Goto(tab, "mint")
    BY <1>3, <2>1 DEF Lookup, Goto
  <2>2. ASSUME NEW e, run' = [run EXCEPT ![tab] = WithToken(@, e.tok)] PROVE GoesOn(tab)
    BY <1>3, <2>2, TokenGoesOn DEF Lookup
  <2> QED BY <1>3, <2>1, <2>2 DEF Lookup
<1>4. CASE MintSpecialist(tab)
  <2>1. ASSUME NEW code, NoSpecialistToken(tab, code) PROVE GoesOn(tab)
    <3>1. CASE ProbeEnds(tab, code)
      BY <1>4, <3>1, ProbeGoesOn DEF MintSpecialist
    <3>2. ASSUME NEW ans, Answer(tab, ans) PROVE GoesOn(tab)
      BY <1>4, <3>2 DEF MintSpecialist, Answer
    <3> QED BY <2>1, <3>1, <3>2 DEF NoSpecialistToken
  <2>2. ASSUME NEW sp, run' = [run EXCEPT ![tab] = WithToken(@, sp)] PROVE GoesOn(tab)
    BY <1>4, <2>2, TokenGoesOn DEF MintSpecialist
  <2> QED BY <1>4, <2>1, <2>2 DEF MintSpecialist
<1>5. CASE ReadTokens(tab)
  BY <1>5 DEF ReadTokens, Goto, Answer
<1>6. CASE ReadToolset(tab) \/ Generate(tab)
  BY <1>6 DEF ReadToolset, Generate, Goto, Answer
<1>7. CASE CallFails(tab)
  <2>1. Quiet(run[tab], Broken(run[tab]))
    BY <1>7 DEF CallFails, Broken, SpecialistPcs
  <2>2. /\ run'[tab] = Broken(run[tab])
        /\ \A y \in Tabs \ {tab} : run'[y] = run[y]
    BY <1>7, TabsAssumption DEF CallFails
  <2> QED BY <2>1, <2>2
<1> QED BY <1>2, <1>3, <1>4, <1>5, <1>6, <1>7 DEF Copilot

\* Every step of the specialist is of this kind.
LEMMA SpecialistGoesOn ==
    ASSUME IndInv, NEW x \in Tabs \cup Orphans, Specialist(x) PROVE GoesOn(x)
<1>1. run \in [Tabs \cup Orphans -> Run] /\ run[x] \in Run
  BY DEF IndInv
<1> USE <1>1 DEF GoesOn, Quiet, SameQuestion, Working, Run
<1>2. CASE XVerify(x)
  BY <1>2 DEF XVerify, Goto
<1>3. CASE XOps(x)
  BY <1>3 DEF XOps, AfterOps, Ended, Goto
<1>4. CASE XRead(x)
  BY <1>4 DEF XRead, Ended, Goto
<1>5. CASE XWrite(x)
  <2>1. run[x].sink = "no"
    BY <1>5 DEF XWrite, IndInv, RunInv, PrivilegePart
  <2> QED BY <1>5, <2>1 DEF XWrite, Ended, Goto, Raised
<1>6. CASE XLlm(x) \/ XLoopEnds(x) \/ XPublish(x)
  BY <1>6 DEF XLlm, XLoopEnds, XPublish, Ended, Goto
<1>7. CASE XCall(x)
  BY <1>7 DEF XCall, Raised
<1>8. CASE PVerify(x) \/ PDiscover(x)
  BY <1>8, ProbeGoesOn DEF PVerify, PDiscover, PreCheck, Goto
<1>9. CASE POps(x) \/ PList(x)
  BY <1>9, ProbeGoesOn DEF POps, PList, Goto
<1> QED BY <1>2, <1>3, <1>4, <1>5, <1>6, <1>7, <1>8, <1>9 DEF Specialist

\* The answer of a run is one the dialogue allows.
LEMMA AnswerAllowed ==
    ASSUME NEW r, NEW q, RunInv(r), RunInv(q), Quiet(r, q), q.pc = "answered"
    PROVE  q.ans \in Asking!Answers(QuestionOf(r))
<1> DEFINE Q == QuestionOf(r)
<1>1. /\ Q.by.sub = q.tok.sub /\ Q.by.acr = q.tok.acr /\ Q.route = q.route
      /\ Q.raised = (q.sink # "no")
  BY DEF Quiet, SameQuestion, Working, QuestionOf
<1>2. Asking!MayWrite(Q.by) <=> MayWrite(q.tok.sub)
  BY <1>1 DEF Asking!MayWrite, MayWrite, Asking!AddRoles, AddRoles, Asking!WriteRoles, WriteRoles
<1> HIDE DEF Q
<1>3. /\ q.ans \in Anss \ {"none"} /\ q.route \in Routes
  BY DEF RunInv, Run, AnswerPart
<1>4. /\ q.ans = "step-up" => q.route = "privileged" /\ MayWrite(q.tok.sub)
                              /\ (q.tok.acr # "mfa" <=> q.sink = "no")
      /\ q.ans = "ok" /\ q.route = "privileged" => MayWrite(q.tok.sub) /\ q.tok.acr = "mfa"
      /\ q.ans = "ok" => q.route # "probe"
      /\ q.ans = "sorry" => q.route = "privileged" /\ MayWrite(q.tok.sub)
      /\ q.ans = "denied" => q.route = "privileged" /\ ~MayWrite(q.tok.sub)
      /\ q.ans = "tools" => q.route = "probe"
  BY DEF RunInv, VerdictPart, AnswerPart
<1>5. q.ans \in Asking!Answers(Q)
  <2>1. CASE Q.route = "read"
    BY <1>1, <1>3, <1>4, <2>1 DEF Asking!Answers, Anss
  <2>2. CASE Q.route = "probe"
    BY <1>1, <1>3, <1>4, <2>2 DEF Asking!Answers, Anss
  <2>3. CASE Q.route = "privileged" /\ ~Asking!MayWrite(Q.by)
    BY <1>1, <1>2, <1>3, <1>4, <2>3 DEF Asking!Answers, Anss
  <2>4. CASE Q.route = "privileged" /\ Asking!MayWrite(Q.by)
    BY <1>1, <1>2, <1>3, <1>4, <2>4 DEF Asking!Answers, Anss
  <2> QED BY <1>1, <1>3, <2>1, <2>2, <2>3, <2>4 DEF Routes
<1> QED BY <1>5 DEF Q

\* What the user of a run that goes on sees.
LEMMA Seen ==
    ASSUME NEW r, NEW q, RunInv(r), RunInv(q)
    PROVE  /\ Working(r.pc) => Asking!Pending(QuestionOf(r))
           /\ Quiet(r, q) /\ Working(q.pc) => QuestionOf(q) = QuestionOf(r)
           /\ Quiet(r, q) /\ q.pc = "answered" =>
                 QuestionOf(q) = [QuestionOf(r) EXCEPT !.answer = q.ans]
           /\ Raised(r, q) => QuestionOf(q) = [QuestionOf(r) EXCEPT !.raised = TRUE]
<1> USE DEF QuestionOf, Quiet, Raised, SameQuestion, Working
<1>1. Working(r.pc) => r.ans = "none"
  BY DEF RunInv, VerdictPart
<1>2. Working(q.pc) => q.ans = "none"
  BY DEF RunInv, VerdictPart
<1>3. Working(r.pc) => Asking!Pending(QuestionOf(r))
  BY <1>1 DEF Asking!Pending
<1>4. Quiet(r, q) /\ Working(q.pc) => QuestionOf(q) = QuestionOf(r)
  BY <1>1, <1>2
<1>5. Quiet(r, q) /\ q.pc = "answered" => QuestionOf(q) = [QuestionOf(r) EXCEPT !.answer = q.ans]
  BY <1>1
<1>6. Raised(r, q) => QuestionOf(q) = [QuestionOf(r) EXCEPT !.raised = TRUE]
  <2> SUFFICES ASSUME Raised(r, q) PROVE QuestionOf(q) = [QuestionOf(r) EXCEPT !.raised = TRUE]
    OBVIOUS
  <2> DEFINE by == [sub |-> r.tok.sub, acr |-> r.tok.acr]
             Question(raised) ==
                 [by |-> by, route |-> r.route, raised |-> raised, answer |-> "none"]
  <2>1. /\ (r.sink # "no") = FALSE /\ (q.sink # "no") = TRUE
        /\ r.ans = "none" /\ q.ans = "none" /\ r.pc # "idle" /\ q.pc # "idle"
        /\ q.tok = r.tok /\ q.route = r.route
    BY <1>1, <1>2
  <2>2. PICK old, new : old = FALSE /\ new = TRUE
    OBVIOUS
  <2>3. QuestionOf(r) = Question(old) /\ QuestionOf(q) = Question(new)
    BY <2>1, <2>2, Zenon
  <2>4. Question(new) = [Question(old) EXCEPT !.raised = new]
    OBVIOUS
  <2>5. QuestionOf(q) = [QuestionOf(r) EXCEPT !.raised = new]
    BY <2>3, <2>4, Zenon
  <2> QED BY <2>2, <2>5, Zenon
<1> QED BY <1>3, <1>4, <1>5, <1>6

\* A step of the services is a step of the dialogue, or none.
LEMMA ServicesImplement ==
    ASSUME IndInv, IndInv', NEW x \in Tabs \cup Orphans, GoesOn(x), UNCHANGED session
    PROVE  [Asking!Next]_(Asking!dialogue)
<1> DEFINE Q == [tab \in Tabs |-> QuestionOf(run[tab])]
           L == [tab \in Tabs |-> [sub |-> session[tab].sub, acr |-> session[tab].acr]]
<1>1. L' = L
  OBVIOUS
<1>2. CASE \A tab \in Tabs : QuestionOf(run'[tab]) = QuestionOf(run[tab])
  BY <1>1, <1>2 DEF Asking!dialogue
<1>3. CASE x \notin Tabs
  BY <1>1, <1>2, <1>3 DEF GoesOn
<1>4. CASE x \in Tabs
  <2> DEFINE r == run[x]
             q == run'[x]
  <2>1. RunInv(r) /\ RunInv(q)
    BY DEF IndInv
  <2>2. \A y \in Tabs \ {x} : run'[y] = run[y]
    BY DEF GoesOn
  <2>3. CASE Quiet(r, q) /\ Working(q.pc)
    BY <1>2, <2>1, <2>2, <2>3, Seen
  <2>4. CASE Quiet(r, q) /\ q.pc = "answered"
    <3>1. q.ans \in Asking!Answers(Q[x]) /\ Asking!Pending(Q[x])
      BY <1>4, <2>1, <2>4, AnswerAllowed, Seen DEF Quiet, SameQuestion
    <3>2. QuestionOf(q) = [Q[x] EXCEPT !.answer = q.ans]
      BY <1>4, <2>1, <2>4, Seen
    <3>3. Q' = [Q EXCEPT ![x].answer = q.ans]
      BY <1>4, <2>2, <3>2
    <3>4. Asking!Answer(x)
      BY <1>1, <3>1, <3>3 DEF Asking!Answer
    <3> QED BY <1>4, <3>4 DEF Asking!Next
  <2>5. CASE Raised(r, q)
    <3>1. Asking!Pending(Q[x])
      BY <1>4, <2>1, <2>5, Seen DEF Raised, SameQuestion
    <3>2. Q[x].route = "privileged" /\ Q[x].by.acr = "mfa"
      BY <1>4, <2>1, <2>5 DEF Raised, SameQuestion, Working, QuestionOf, RunInv, PrivilegePart
    <3>3. QuestionOf(q) = [Q[x] EXCEPT !.raised = TRUE]
      BY <1>4, <2>1, <2>5, Seen
    <3>4. Q' = [Q EXCEPT ![x].raised = TRUE]
      BY <1>4, <2>2, <3>3
    <3>5. Asking!Raise(x)
      BY <1>1, <3>1, <3>2, <3>4 DEF Asking!Raise
    <3> QED BY <1>4, <3>5 DEF Asking!Next
  <2> QED BY <2>3, <2>4, <2>5 DEF GoesOn, Quiet, SameQuestion, Working
<1> QED BY <1>3, <1>4

\* A question, a step-up and a login are those of the dialogue.
LEMMA BrowserImplements ==
    ASSUME IndInv, NEW tab \in Tabs, Browser(tab)
    PROVE  Asking!Next
<1> DEFINE Q == [t \in Tabs |-> QuestionOf(run[t])]
           L == [t \in Tabs |-> [sub |-> session[t].sub, acr |-> session[t].acr]]
<1>1. session \in [Tabs -> LoginTokens] /\ session[tab] \in LoginTokens
      /\ run \in [Tabs \cup Orphans -> Run] /\ RunInv(run[tab])
  BY DEF IndInv
<1>2. \A t \in LoginTokens : \A route :
          QuestionOf(Fresh(t, route)) = Asking!Asked([sub |-> t.sub, acr |-> t.acr], route)
  BY DEF QuestionOf, Fresh, Asking!Asked
<1>3. run[tab].pc \in {"idle", "answered"} => ~Asking!Pending(Q[tab])
  BY <1>1 DEF Asking!Pending, QuestionOf, RunInv, AnswerPart
<1>4. ASSUME NEW route \in Routes, Ask(tab, route) PROVE Asking!Next
  <2>1. ~Asking!Pending(Q[tab])
    BY <1>3, <1>4 DEF Ask
  <2>2. Q' = [Q EXCEPT ![tab] = Asking!Asked(L[tab], route)]
    BY <1>1, <1>2, <1>4 DEF Ask
  <2>3. L' = L
    BY <1>4 DEF Ask
  <2>4. Asking!Ask(tab, route)
    BY <2>1, <2>2, <2>3 DEF Asking!Ask
  <2> QED BY <2>4 DEF Asking!Next, Asking!Routes, Routes
<1>5. CASE StepUp(tab)
  <2> DEFINE sub == session[tab].sub
  <2>1. SteppedUp(sub) \in LoginTokens /\ SteppedUp(sub).sub = sub /\ SteppedUp(sub).acr = "mfa"
    BY <1>1, LoginClaims DEF LoginTokens, SteppedUp, LoginToken
  <2>2. L' = [L EXCEPT ![tab].acr = "mfa"]
    BY <1>1, <1>5, <2>1 DEF StepUp
  <2>3. L'[tab] = [sub |-> SteppedUp(sub).sub, acr |-> SteppedUp(sub).acr]
    BY <1>1, <1>5, <2>1 DEF StepUp
  <2>4. Q' = [Q EXCEPT ![tab] = Asking!Asked(L'[tab], "privileged")]
    BY <1>1, <1>2, <1>5, <2>1, <2>3 DEF StepUp
  <2>5. Q[tab].answer = "step-up"
    BY <1>5 DEF StepUp, QuestionOf
  <2>6. Asking!StepUp(tab)
    BY <2>2, <2>4, <2>5 DEF Asking!StepUp
  <2> QED BY <2>6 DEF Asking!Next
<1>6. ASSUME NEW u \in Users, Relogin(tab, u) PROVE Asking!Next
  <2>1. ~Asking!Pending(Q[tab])
    BY <1>3, <1>6 DEF Relogin
  <2>2. L' = [L EXCEPT ![tab] = [sub |-> u, acr |-> "html-form"]]
    BY <1>1, <1>6 DEF Relogin, PlainLogin, LoginToken
  <2>3. Q' = [Q EXCEPT ![tab] = Asking!NoQuestion]
    BY <1>1, <1>6 DEF Relogin, QuestionOf, Idle, Fresh, Asking!NoQuestion
  <2>4. Asking!Relogin(tab, u)
    BY <2>1, <2>2, <2>3 DEF Asking!Relogin
  <2> QED BY <2>4 DEF Asking!Next
<1> QED BY <1>4, <1>5, <1>6 DEF Browser

\* The system starts where the dialogue does.
LEMMA InitImplements == Init => Asking!Init
<1> SUFFICES ASSUME Init PROVE Asking!Init
  OBVIOUS
<1>1. \A tab \in Tabs : QuestionOf(run[tab]) = Asking!NoQuestion
  BY DEF Init, Idle, Fresh, QuestionOf, Asking!NoQuestion
<1>2. \A tab \in Tabs : session[tab].sub \in Users /\ session[tab].acr = "html-form"
  BY DEF Init, PlainLogin, LoginToken
<1> QED BY <1>1, <1>2 DEF Asking!Init, Asking!Logins, Asking!Acrs

\* Every step of the system is a step of the dialogue, or changes nothing of it.
LEMMA NextImplements == IndInv /\ IndInv' /\ [Next]_vars => [Asking!Next]_(Asking!dialogue)
<1> SUFFICES ASSUME IndInv, IndInv', [Next]_vars PROVE [Asking!Next]_(Asking!dialogue)
  OBVIOUS
<1>1. ASSUME NEW tab \in Tabs, Browser(tab) PROVE [Asking!Next]_(Asking!dialogue)
  BY <1>1, BrowserImplements
<1>2. ASSUME NEW tab \in Tabs, Copilot(tab) \/ CallFails(tab)
      PROVE  [Asking!Next]_(Asking!dialogue)
  <2>1. UNCHANGED session
    BY <1>2 DEF Copilot, CallFails, Verify, Lookup, MintSpecialist, Call, Reply, ReadTokens,
                ReadToolset, Generate
  <2> QED BY <1>2, <2>1, CopilotGoesOn, ServicesImplement
<1>3. ASSUME NEW x \in Tabs \cup Orphans, Specialist(x) PROVE [Asking!Next]_(Asking!dialogue)
  <2>1. UNCHANGED session
    BY <1>3 DEF Specialist, XVerify, XOps, XRead, XWrite, XLlm, XCall, XLoopEnds, XPublish, PVerify,
                PDiscover, POps, PList
  <2> QED BY <1>3, <2>1, SpecialistGoesOn, ServicesImplement
<1>4. ASSUME NEW o \in Orphans, Forget(o) PROVE UNCHANGED Asking!dialogue
  BY <1>4, TabsAssumption DEF Forget, IndInv, Asking!dialogue
<1>5. CASE UNCHANGED <<session, run>>
  BY <1>5 DEF Asking!dialogue
<1> QED BY <1>1, <1>2, <1>3, <1>4, <1>5 DEF Next, Expire, Redeploy, vars

\* All of the services, caches and failures implement the dialogue.
THEOREM ImplementsDialogueSafety == Spec => Asking!Safety
BY Invariance, InitImplements, NextImplements, PTL DEF Spec, Asking!Safety
=============================================================================
