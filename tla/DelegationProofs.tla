-------------------------- MODULE DelegationProofs --------------------------
(***************************************************************************)
(* Proofs about Delegation, for every set of users, every namespace and    *)
(* every bound.                                                            *)
(*                                                                         *)
(* None of the safety properties is inductive.  The strengthening says of  *)
(* every minted token how it came about (TokenInv) and of every call       *)
(* behind the gateway and every effect which gates it has passed.          *)
(***************************************************************************)
EXTENDS Delegation, TLAPS

\* The workload a token for audience a names in may_act.
NextActor(a) ==
    CASE a = "agent-copilot"    -> "copilot"
      [] a = "agent-specialist" -> "specialist"
      [] a = "mcp-gateway"      -> "agentgateway"
      [] a = "mcp-inspect"      -> "mcp-inspect"
      [] a = "mcp-ops"          -> "mcp-ops"
      [] OTHER                  -> NoOne

\* Workload w may have traded a token for audience a for one for audience b,
\* and the scopes survive that trade.
Hop(a, w, b, scopes) ==
    \E g \in CLIENT_POLICY :
        /\ g.client = w
        /\ g.aud = b
        /\ scopes \subseteq g.scopes
        /\ NextActor(a) \in {NoOne, w}

\* The act chain and the audiences of the ancestors fit together hop by hop,
\* and the scopes left over passed the cap of every hop.
Lineage(t) ==
    /\ Len(t.via) = Len(t.act) + 1
    /\ t.via[1] = "agent-copilot"
    /\ t.via[Len(t.via)] = t.aud
    /\ t.mayAct = NextActor(t.aud)
    /\ \A i \in 1 .. Len(t.act) :
          Hop(t.via[i], t.act[Len(t.act) + 1 - i], t.via[i + 1], t.scopes)

Inherited(t) ==
    /\ t.acr = t.login.acr
    /\ t.scopes \subseteq t.login.scopes
    /\ t.roles = AddRoles(t.sub)
    /\ "ops:write" \in t.login.scopes => t.login.acr = "mfa"
    /\ "ops:write" \in t.scopes /\ t.act # <<>> => t.roles \cap WriteRoles # {}

TokenInv(t) == t \in Token /\ Inherited(t) /\ Lineage(t)

\* What is known of a call behind the gateway, by the server it waits at.
RequestInv(r) ==
    /\ r.tok \in issued
    /\ r.at \in {"mcp-ops", "ops-api"} => r.tool \in WriteTools
    /\ r.at \in {"mcp-inspect", "inspect-api"} => r.tool \in ReadTools
    /\ r.at = "ops-api" => ToolAllowed(r.tool, r.tok)

\* The gates behind an effect.
EffectInv(e) ==
    /\ e.tok \in issued
    /\ e.tool \in WriteTools => OpsApiAdmits(e.tok) /\ ToolAllowed(e.tool, e.tok)
    /\ e.tool \in ReadTools => InspectApiAdmits(e.tok)

\* The inductive invariant.
IndInv ==
    /\ TypeOK
    /\ \A t \in issued : TokenInv(t)
    /\ \A r \in requests : RequestInv(r)
    /\ \A e \in effects : EffectInv(e)
-----------------------------------------------------------------------------
(* Facts about the policy table and the tokens minted from it. *)

\* Every row of CLIENT_POLICY is well formed and its mayAct depends only on
\* the audience.
LEMMA PolicyFacts ==
    \A g \in CLIENT_POLICY :
        /\ g.client \in Clients
        /\ g.aud \in Audiences \ {"agent-copilot"}
        /\ g.scopes \subseteq Scopes
        /\ g.mayAct = NextActor(g.aud)
        /\ g.mayAct \in Clients \cup {NoOne}
BY DEF CLIENT_POLICY, Grant, Clients, Audiences, Scopes, NextActor, NoOne

\* Which rows name which audience, and what they allow.
LEMMA PolicyRows ==
    \A g \in CLIENT_POLICY :
        /\ g.client = "copilot" =>
             \/ g.aud = "agent-specialist"
             \/ g.aud = "mcp-gateway" /\ g.scopes = {"inspect:read"}
             \/ g.aud = "llm-gateway" /\ g.scopes = {"llm:invoke"}
        /\ g.client = "specialist" =>
             \/ g.aud = "mcp-gateway"
             \/ g.aud = "llm-gateway" /\ g.scopes = {"llm:invoke"}
        /\ g.client = "agentgateway" =>
             \/ g.aud = "mcp-inspect" /\ g.scopes = {"inspect:read"}
             \/ g.aud = "mcp-ops" /\ g.scopes = {"ops:write"}
        /\ g.client = "mcp-ops" => g.aud = "ops-api"
        /\ g.client = "mcp-inspect" => g.aud = "inspect-api"
        /\ g.aud \in {"llm-gateway", "mcp-inspect", "inspect-api"} =>
             "ops:write" \notin g.scopes
        /\ g.aud = "mcp-gateway" => g.client \in {"copilot", "specialist"}
BY DEF CLIENT_POLICY, Grant, Scopes, NoOne

\* The rows the gateway and the MCP servers use exist.
LEMMA RowChoices ==
    /\ \A tool : GatewayGrant(tool) \in CLIENT_POLICY
    /\ OpsApiGrant \in CLIENT_POLICY
    /\ InspectApiGrant \in CLIENT_POLICY
<1>1. ASSUME NEW a \in {"mcp-ops", "mcp-inspect"}
      PROVE  \E g \in CLIENT_POLICY : g.client = "agentgateway" /\ g.aud = a
  BY DEF CLIENT_POLICY, Grant
<1>2. \E g \in CLIENT_POLICY : g.client = "mcp-ops"
  BY DEF CLIENT_POLICY, Grant
<1>3. \E g \in CLIENT_POLICY : g.client = "mcp-inspect"
  BY DEF CLIENT_POLICY, Grant
<1>4. ASSUME NEW tool PROVE GatewayGrant(tool) \in CLIENT_POLICY
  <2>1. RouteAud(tool) \in {"mcp-ops", "mcp-inspect"}
    BY DEF RouteAud
  <2> QED BY <1>1, <2>1 DEF GatewayGrant
<1> QED BY <1>2, <1>3, <1>4 DEF OpsApiGrant, InspectApiGrant

\* The roles a login adds are roles.
LEMMA AddRolesType == \A u : AddRoles(u) \in SUBSET Roles
BY DEF AddRoles, Roles

\* The token of a login satisfies the token invariant.
LEMMA LoginTokenInv ==
    ASSUME NEW u \in Users, NEW acr \in Acrs, NEW req \in SUBSET Scopes
    PROVE  TokenInv(LoginToken(u, acr, req))
<1> DEFINE t == LoginToken(u, acr, req)
           sc == {s \in req : Releasable(s, acr)}
<1> HIDE DEF sc
<1>1. t = [sub |-> u, aud |-> "agent-copilot", scopes |-> sc, act |-> <<>>,
           mayAct |-> "copilot", acr |-> acr, roles |-> AddRoles(u),
           via |-> <<"agent-copilot">>, login |-> [acr |-> acr, scopes |-> sc]]
  BY DEF LoginToken, sc
<1> HIDE DEF t
<1>2. sc \in SUBSET Scopes /\ ("ops:write" \in sc => acr = "mfa")
  BY DEF sc, Releasable
<1>3. t \in Token
  BY <1>1, <1>2, AddRolesType DEF Token, Audiences, Clients
<1>4. Inherited(t)
  BY <1>1, <1>2 DEF Inherited
<1>5. Lineage(t)
  <2>1. NextActor("agent-copilot") = "copilot"
    BY DEF NextActor
  <2> QED BY <1>1, <2>1 DEF Lineage
<1> QED BY <1>3, <1>4, <1>5 DEF TokenInv, t

\* An exchange that Curity grants for such a token mints such a token.
LEMMA MintInv ==
    ASSUME NEW g \in CLIENT_POLICY, NEW w, NEW t, NEW req,
           TokenInv(t), Granted(g, w, t, req)
    PROVE  TokenInv(Mint(g, w, t, req))
<1> DEFINE n == Mint(g, w, t, req)
           sc == Narrowed(g, t, req)
<1> HIDE DEF sc
<1>1. n = [sub |-> t.sub, aud |-> g.aud, scopes |-> sc,
           act |-> <<w>> \o t.act, mayAct |-> g.mayAct, acr |-> t.acr,
           roles |-> t.roles, via |-> Append(t.via, g.aud), login |-> t.login]
  BY DEF Mint, sc
<1> HIDE DEF n
<1>2. t \in Token /\ Inherited(t) /\ Lineage(t)
  BY DEF TokenInv
<1>3. /\ w = g.client
      /\ t.mayAct \in {NoOne, w}
      /\ sc \subseteq t.scopes
      /\ sc \subseteq g.scopes
      /\ "ops:write" \in sc => t.roles \cap WriteRoles # {}
  BY DEF Granted, MayActPermits, sc, Narrowed, RoleGate
<1>4. /\ w \in Clients
      /\ g.aud \in Audiences
      /\ g.mayAct \in Clients \cup {NoOne}
      /\ g.mayAct = NextActor(g.aud)
  BY <1>3, PolicyFacts
<1>5. /\ t.act \in Seq(Clients)
      /\ t.via \in Seq(Audiences)
      /\ t.scopes \in SUBSET Scopes
  BY <1>2 DEF Token
<1>6. /\ n.act \in Seq(Clients)
      /\ Len(n.act) = Len(t.act) + 1
      /\ n.act[1] = w
      /\ \A i \in 1 .. Len(t.act) : n.act[i + 1] = t.act[i]
  BY <1>1, <1>4, <1>5
<1>7. /\ n.via \in Seq(Audiences)
      /\ Len(n.via) = Len(t.via) + 1
      /\ n.via[Len(t.via) + 1] = g.aud
      /\ \A i \in 1 .. Len(t.via) : n.via[i] = t.via[i]
  BY <1>1, <1>4, <1>5
<1>8. n \in Token
  <2>1. sc \in SUBSET Scopes
    BY <1>3, <1>5
  <2>2. /\ t.sub \in Users /\ t.acr \in Acrs /\ t.roles \in SUBSET Roles
        /\ t.login \in [acr : Acrs, scopes : SUBSET Scopes]
    BY <1>2 DEF Token
  <2>3. <<w>> \o t.act \in Seq(Clients) /\ Append(t.via, g.aud) \in Seq(Audiences)
    BY <1>1, <1>6, <1>7
  <2> QED BY <1>1, <1>4, <2>1, <2>2, <2>3 DEF Token
<1>9. Inherited(n)
  BY <1>1, <1>2, <1>3 DEF Inherited
<1>10. Lineage(n)
  <2>1. /\ Len(t.via) = Len(t.act) + 1
        /\ t.via[1] = "agent-copilot"
        /\ t.via[Len(t.via)] = t.aud
        /\ t.mayAct = NextActor(t.aud)
        /\ \A i \in 1 .. Len(t.act) :
              Hop(t.via[i], t.act[Len(t.act) + 1 - i], t.via[i + 1], t.scopes)
    BY <1>2 DEF Lineage
  <2>2. /\ Len(n.via) = Len(n.act) + 1
        /\ n.via[1] = "agent-copilot"
        /\ n.via[Len(n.via)] = n.aud
        /\ n.mayAct = NextActor(n.aud)
    BY <1>1, <1>4, <1>5, <1>6, <1>7, <2>1
  <2>3. ASSUME NEW i \in 1 .. Len(n.act)
        PROVE  Hop(n.via[i], n.act[Len(n.act) + 1 - i], n.via[i + 1], n.scopes)
    <3>1. CASE i = Len(n.act)
      <4>1. n.via[i] = t.aud /\ n.act[Len(n.act) + 1 - i] = w /\ n.via[i + 1] = g.aud
        BY <3>1, <1>5, <1>6, <1>7, <2>1
      <4>2. Hop(t.aud, w, g.aud, sc)
        BY <1>3, <2>1 DEF Hop
      <4> QED BY <4>1, <4>2, <1>1
    <3>2. CASE i # Len(n.act)
      <4>1. i \in 1 .. Len(t.act)
        BY <3>2, <1>5, <1>6
      <4>2. /\ n.via[i] = t.via[i]
            /\ n.via[i + 1] = t.via[i + 1]
            /\ n.act[Len(n.act) + 1 - i] = t.act[Len(t.act) + 1 - i]
        <5> DEFINE j == Len(t.act) + 1 - i
        <5>1. i \in Nat /\ Len(t.act) \in Nat
          BY <4>1, <1>5
        <5>2. j \in 1 .. Len(t.act) /\ Len(n.act) + 1 - i = j + 1
          BY <4>1, <5>1, <1>6
        <5>3. i \in 1 .. Len(t.via) /\ i + 1 \in 1 .. Len(t.via)
          BY <4>1, <5>1, <2>1
        <5>4. n.act[j + 1] = t.act[j]
          BY <5>2, <1>6
        <5> QED BY <5>2, <5>3, <5>4, <1>7
      <4>3. Hop(t.via[i], t.act[Len(t.act) + 1 - i], t.via[i + 1], t.scopes)
        BY <4>1, <2>1
      <4>4. n.scopes \subseteq t.scopes
        BY <1>1, <1>3
      <4> QED BY <4>2, <4>3, <4>4 DEF Hop
    <3> QED BY <3>1, <3>2
  <2> QED BY <2>2, <2>3 DEF Lineage
<1> QED BY <1>8, <1>9, <1>10 DEF TokenInv, n
-----------------------------------------------------------------------------
(* The invariant. *)

\* The invariant holds before the first login.
LEMMA InitInv == Init => IndInv
BY DEF Init, IndInv, TypeOK

\* Tokens only accumulate: what is known of a call or an effect stays known.
LEMMA MoreTokens ==
    ASSUME IndInv, issued \subseteq issued',
           \A t \in issued' : TokenInv(t),
           requests' \subseteq requests \/ \A r \in requests' \ requests :
               /\ RequestInv(r)'
               /\ r.at \in {"mcp-ops", "mcp-inspect", "ops-api", "inspect-api"}
               /\ r.tool \in Tools
               /\ r = [at |-> r.at, tool |-> r.tool, tok |-> r.tok],
           effects' \subseteq effects \/ \A e \in effects' \ effects :
               /\ EffectInv(e)'
               /\ e.tool \in Tools
               /\ e = [tool |-> e.tool, tok |-> e.tok]
    PROVE  IndInv'
<1>1. issued' \subseteq Token
  BY DEF TokenInv
<1>2. \A r \in requests' : RequestInv(r)'
  <2> SUFFICES ASSUME NEW r \in requests' PROVE RequestInv(r)'
    OBVIOUS
  <2>1. CASE r \in requests
    BY <2>1 DEF IndInv, RequestInv
  <2> QED BY <2>1
<1>3. \A e \in effects' : EffectInv(e)'
  <2> SUFFICES ASSUME NEW e \in effects' PROVE EffectInv(e)'
    OBVIOUS
  <2>1. CASE e \in effects
    BY <2>1 DEF IndInv, EffectInv
  <2> QED BY <2>1
<1>4. TypeOK'
  <2>1. \A r \in requests' : r \in [at : {"mcp-ops", "mcp-inspect", "ops-api", "inspect-api"},
                                    tool : Tools, tok : Token]
    <3> SUFFICES ASSUME NEW r \in requests'
                 PROVE  r \in [at : {"mcp-ops", "mcp-inspect", "ops-api", "inspect-api"},
                               tool : Tools, tok : Token]
      OBVIOUS
    <3>1. r.tok \in Token
      BY <1>1, <1>2 DEF RequestInv
    <3>2. CASE r \in requests
      BY <3>2 DEF IndInv, TypeOK
    <3>3. CASE r \notin requests
      BY <3>1, <3>3
    <3> QED BY <3>2, <3>3
  <2>2. \A e \in effects' : e \in [tool : Tools, tok : Token]
    <3> SUFFICES ASSUME NEW e \in effects' PROVE e \in [tool : Tools, tok : Token]
      OBVIOUS
    <3>1. e.tok \in Token
      BY <1>1, <1>3 DEF EffectInv
    <3>2. CASE e \in effects
      BY <3>2 DEF IndInv, TypeOK
    <3>3. CASE e \notin effects
      BY <3>1, <3>3
    <3> QED BY <3>2, <3>3
  <2> QED BY <1>1, <2>1, <2>2 DEF TypeOK
<1> QED BY <1>2, <1>3, <1>4 DEF IndInv

\* A call through the gateway preserves the invariant.
LEMMA GatewayInv ==
    ASSUME IndInv, NEW t \in issued, NEW tool \in Tools, NEW ns, Gateway(t, tool, ns)
    PROVE  IndInv'
<1> DEFINE g == GatewayGrant(tool)
           req == {RouteScope(tool)}
           tok == Mint(g, "agentgateway", t, req)
           r == [at |-> RouteAud(tool), tool |-> tool, tok |-> tok]
<1>1. TokenInv(tok)
  <2>1. g \in CLIENT_POLICY /\ TokenInv(t) /\ Granted(g, "agentgateway", t, req)
    BY RowChoices DEF Gateway, IndInv
  <2> HIDE DEF g, req
  <2> QED BY <2>1, MintInv
<1>2. issued' = issued \cup {tok} /\ UNCHANGED effects
  BY DEF Gateway
<1>3. requests' = requests \cup {r} \/ requests' = requests
  BY DEF Gateway
<1> HIDE DEF tok
<1>4. RequestInv(r)'
  BY <1>2 DEF RequestInv, RouteAud, Tools, WriteTools, ReadTools
<1>5. r.at \in {"mcp-ops", "mcp-inspect"}
  BY DEF RouteAud
<1>6. \A x \in issued' : TokenInv(x)
  BY <1>1, <1>2 DEF IndInv
<1> QED BY <1>2, <1>3, <1>4, <1>5, <1>6, MoreTokens

\* mcp-ops's handling of a call preserves the invariant.
LEMMA McpOpsInv ==
    ASSUME IndInv, NEW r \in requests, McpOps(r)
    PROVE  IndInv'
<1> DEFINE req == {"ops:write"}
           tok == Mint(OpsApiGrant, "mcp-ops", r.tok, req)
           n == [at |-> "ops-api", tool |-> r.tool, tok |-> tok]
<1>1. /\ r.at = "mcp-ops" /\ RequestInv(r) /\ r.tool \in Tools
      /\ TokenInv(r.tok) /\ UNCHANGED effects
  BY DEF McpOps, IndInv, RequestInv, TypeOK
<1>2. CASE requests' = requests \ {r} /\ UNCHANGED issued
  BY <1>1, <1>2, MoreTokens DEF IndInv
<1>3. CASE /\ ToolAllowed(r.tool, r.tok)
           /\ Granted(OpsApiGrant, "mcp-ops", r.tok, req)
           /\ issued' = issued \cup {tok}
           /\ requests' = (requests \ {r}) \cup {n}
  <2>1. TokenInv(tok)
    BY <1>1, <1>3, RowChoices, MintInv
  <2>2. tok.roles = r.tok.roles
    BY DEF Mint
  <2>3. ToolAllowed(r.tool, tok)
    BY <1>3, <2>2 DEF ToolAllowed
  <2> HIDE DEF tok
  <2>4. RequestInv(n)'
    BY <1>1, <1>3, <2>3 DEF RequestInv, ToolAllowed
  <2>5. \A x \in issued' : TokenInv(x)
    BY <1>3, <2>1 DEF IndInv
  <2> QED BY <1>1, <1>3, <2>4, <2>5, MoreTokens
<1> QED BY <1>2, <1>3 DEF McpOps, CallOpsApi

\* mcp-inspect's handling of a call preserves the invariant.
LEMMA McpInspectInv ==
    ASSUME IndInv, NEW r \in requests, McpInspect(r)
    PROVE  IndInv'
<1> DEFINE req == {"inspect:read"}
           tok == Mint(InspectApiGrant, "mcp-inspect", r.tok, req)
           n == [at |-> "inspect-api", tool |-> r.tool, tok |-> tok]
<1>1. /\ r.at = "mcp-inspect" /\ RequestInv(r) /\ r.tool \in Tools
      /\ TokenInv(r.tok) /\ UNCHANGED effects
  BY DEF McpInspect, IndInv, RequestInv, TypeOK
<1>2. CASE requests' = requests \ {r} /\ UNCHANGED issued
  BY <1>1, <1>2, MoreTokens DEF IndInv
<1>3. CASE /\ Granted(InspectApiGrant, "mcp-inspect", r.tok, req)
           /\ issued' = issued \cup {tok}
           /\ requests' = (requests \ {r}) \cup {n}
  <2>1. TokenInv(tok)
    BY <1>1, <1>3, RowChoices, MintInv
  <2> HIDE DEF tok
  <2>2. RequestInv(n)'
    BY <1>1, <1>3 DEF RequestInv
  <2>3. \A x \in issued' : TokenInv(x)
    BY <1>3, <2>1 DEF IndInv
  <2> QED BY <1>1, <1>3, <2>2, <2>3, MoreTokens
<1> QED BY <1>2, <1>3 DEF McpInspect, CallInspectApi

\* A change made by ops-api preserves the invariant.
LEMMA OpsApiInv ==
    ASSUME IndInv, NEW r \in requests, OpsApi(r)
    PROVE  IndInv'
<1> DEFINE e == [tool |-> r.tool, tok |-> r.tok]
<1>1. /\ r.at = "ops-api" /\ RequestInv(r) /\ r.tool \in Tools
      /\ requests' \subseteq requests /\ UNCHANGED issued
  BY DEF OpsApi, IndInv, TypeOK
<1>2. CASE UNCHANGED effects
  BY <1>1, <1>2, MoreTokens DEF IndInv
<1>3. CASE OpsApiAdmits(r.tok) /\ effects' = effects \cup {e}
  <2>1. EffectInv(e)'
    <3>1. r.tool \in WriteTools /\ r.tool \notin ReadTools
      BY <1>1 DEF RequestInv, WriteTools, ReadTools
    <3> QED BY <1>1, <1>3, <3>1 DEF EffectInv, RequestInv, ToolAllowed, OpsApiAdmits
  <2> QED BY <1>1, <1>3, <2>1, MoreTokens DEF IndInv
<1> QED BY <1>2, <1>3 DEF OpsApi, Patch

\* A read made by inspect-api preserves the invariant.
LEMMA InspectApiInv ==
    ASSUME IndInv, NEW r \in requests, InspectApi(r)
    PROVE  IndInv'
<1> DEFINE e == [tool |-> r.tool, tok |-> r.tok]
<1>1. /\ r.at = "inspect-api" /\ RequestInv(r) /\ r.tool \in Tools
      /\ requests' \subseteq requests /\ UNCHANGED issued
  BY DEF InspectApi, IndInv, TypeOK
<1>2. CASE UNCHANGED effects
  BY <1>1, <1>2, MoreTokens DEF IndInv
<1>3. CASE InspectApiAdmits(r.tok) /\ effects' = effects \cup {e}
  <2>1. EffectInv(e)'
    <3>1. r.tool \in ReadTools /\ r.tool \notin WriteTools
      BY <1>1 DEF RequestInv, WriteTools, ReadTools
    <3> QED BY <1>1, <1>3, <3>1 DEF EffectInv, RequestInv, InspectApiAdmits
  <2> QED BY <1>1, <1>3, <2>1, MoreTokens DEF IndInv
<1> QED BY <1>2, <1>3 DEF InspectApi, Read

\* Every step preserves the invariant.
LEMMA NextInv == IndInv /\ [Next]_vars => IndInv'
<1> SUFFICES ASSUME IndInv, [Next]_vars PROVE IndInv'
  OBVIOUS
<1>1. ASSUME NEW u \in Users, NEW acr \in Acrs, NEW req \in SUBSET Scopes,
             Login(u, acr, req)
      PROVE  IndInv'
  <2>1. issued' = issued \cup {LoginToken(u, acr, req)} /\ UNCHANGED <<requests, effects>>
    BY <1>1 DEF Login
  <2>2. TokenInv(LoginToken(u, acr, req))
    BY LoginTokenInv
  <2> QED BY <2>1, <2>2, MoreTokens DEF IndInv
<1>2. ASSUME NEW g \in CLIENT_POLICY, NEW w \in Clients, NEW t \in issued,
             NEW req \in SUBSET Scopes, Exchange(g, w, t, req)
      PROVE  IndInv'
  <2>1. issued' = issued \cup {Mint(g, w, t, req)} /\ UNCHANGED <<requests, effects>>
    BY <1>2 DEF Exchange
  <2>2. TokenInv(Mint(g, w, t, req))
    BY <1>2, MintInv DEF Exchange, IndInv
  <2> QED BY <2>1, <2>2, MoreTokens DEF IndInv
<1>3. ASSUME NEW t \in issued, NEW tool \in Tools, NEW ns \in Namespaces,
             Gateway(t, tool, ns)
      PROVE  IndInv'
  BY <1>3, GatewayInv
<1>4. ASSUME NEW r \in requests, McpOps(r) PROVE IndInv'
  BY <1>4, McpOpsInv
<1>5. ASSUME NEW r \in requests, McpInspect(r) PROVE IndInv'
  BY <1>5, McpInspectInv
<1>6. ASSUME NEW r \in requests, OpsApi(r) PROVE IndInv'
  BY <1>6, OpsApiInv
<1>7. ASSUME NEW r \in requests, InspectApi(r) PROVE IndInv'
  BY <1>7, InspectApiInv
<1>8. CASE UNCHANGED vars
  BY <1>8, MoreTokens DEF vars, IndInv
<1> QED BY <1>1, <1>2, <1>3, <1>4, <1>5, <1>6, <1>7, <1>8 DEF Next

(* IndInv is an invariant of the delegation chain: every minted token's claims
   and lineage fit together and every pending call passed the gates before it. *)
THEOREM Invariance == Spec => []IndInv
BY InitInv, NextInv, PTL DEF Spec

(* Type correctness: every token minted, call forwarded and effect recorded is
   of its type. *)
THEOREM TypeCorrect == Spec => []TypeOK
<1>1. IndInv => TypeOK
  BY DEF IndInv
<1> QED BY <1>1, Invariance, PTL

(* Exchanges only narrow: user, authentication level and roles of the login
   survive every chain of exchanges and no scope is ever gained. *)
THEOREM ExchangesOnlyNarrow == Spec => []OnlyNarrows
<1>1. IndInv => OnlyNarrows
  BY DEF IndInv, TokenInv, Inherited, OnlyNarrows
<1> QED BY <1>1, Invariance, PTL

(* No write without MFA and a write role, no image change without sre. *)
THEOREM WritesAuthorized == Spec => []EffectAuthority
<1>1. ASSUME IndInv, NEW e \in effects, e.tool \in WriteTools
      PROVE  /\ e.tok.login.acr = "mfa"
             /\ "ops:write" \in e.tok.login.scopes
             /\ AddRoles(e.tok.sub) \cap WriteRoles # {}
             /\ e.tool = "set_deployment_image" => "sre" \in AddRoles(e.tok.sub)
  <2>1. Inherited(e.tok) /\ OpsApiAdmits(e.tok) /\ ToolAllowed(e.tool, e.tok)
    BY <1>1 DEF IndInv, EffectInv, TokenInv
  <2>2. /\ "ops:write" \in e.tok.scopes
        /\ e.tok.act # <<>>
    BY <2>1 DEF OpsApiAdmits, OpsApiChain
  <2>3. /\ e.tok.roles = AddRoles(e.tok.sub)
        /\ "ops:write" \in e.tok.login.scopes
        /\ e.tok.login.acr = "mfa"
        /\ e.tok.roles \cap WriteRoles # {}
    BY <2>1, <2>2 DEF Inherited
  <2>4. e.tool = "set_deployment_image" => "sre" \in e.tok.roles
    BY <2>1 DEF ToolAllowed, ToolRequiredRoles
  <2> QED BY <2>3, <2>4
<1>2. IndInv => EffectAuthority
  BY <1>1 DEF EffectAuthority
<1> QED BY <1>2, Invariance, PTL

(* ops:write is confined to users who may write, to acr=mfa and, at the
   gateway, to the specialist. *)
THEOREM PrivilegeStaysConfined == Spec => []PrivilegeConfined
<1>1. ASSUME IndInv, NEW t \in issued, "ops:write" \in t.scopes
      PROVE  /\ t.login.acr = "mfa"
             /\ t.act # <<>> => AddRoles(t.sub) \cap WriteRoles # {}
             /\ t.aud = "mcp-gateway" => Head(t.act) = "specialist"
             /\ t.aud \notin {"llm-gateway", "mcp-inspect", "inspect-api"}
  <2>1. t \in Token /\ Inherited(t) /\ Lineage(t)
    BY <1>1 DEF IndInv, TokenInv
  <2>2. t.act \in Seq(Clients) /\ t.via \in Seq(Audiences)
    BY <2>1 DEF Token
  <2>3. /\ t.login.acr = "mfa"
        /\ t.act # <<>> => AddRoles(t.sub) \cap WriteRoles # {}
    BY <1>1, <2>1 DEF Inherited
  <2>4. CASE t.act = <<>>
    <3>1. t.aud = "agent-copilot"
      BY <2>1, <2>2, <2>4 DEF Lineage
    <3> QED BY <3>1, <2>3
  <2>5. CASE t.act # <<>>
    <3> DEFINE k == Len(t.act)
    <3>1. k \in Nat /\ k \in 1 .. k /\ k + 1 - k = 1 /\ Len(t.via) = k + 1
      BY <2>1, <2>2, <2>5 DEF Lineage
    <3>2. Hop(t.via[k], t.act[1], t.aud, t.scopes)
      BY <2>1, <3>1 DEF Lineage
    <3>3. PICK g \in CLIENT_POLICY : g.client = t.act[1] /\ g.aud = t.aud
                                     /\ t.scopes \subseteq g.scopes
      BY <3>2 DEF Hop
    <3>4. "ops:write" \in g.scopes
      BY <1>1, <3>3
    <3>5. g.aud \notin {"llm-gateway", "mcp-inspect", "inspect-api"}
      BY <3>4, PolicyRows
    <3>6. g.aud = "mcp-gateway" => g.client = "specialist"
      BY <3>4, PolicyRows
    <3> QED BY <2>2, <2>3, <2>5, <3>3, <3>5, <3>6
  <2> QED BY <2>4, <2>5
<1>2. IndInv => PrivilegeConfined
  BY <1>1 DEF PrivilegeConfined
<1> QED BY <1>2, Invariance, PTL

\* A hop the copilot may take first, and one after which a workload other than
\* the copilot goes on.
LEMMA FirstHop ==
    ASSUME NEW a, NEW s, NEW w \in {"specialist", "agentgateway"}, NEW x, NEW scopes,
           Hop(x, "copilot", a, scopes), s \in scopes, s # "llm:invoke",
           NextActor(a) \in {NoOne, w}
    PROVE  a = IF w = "specialist" THEN "agent-specialist" ELSE "mcp-gateway"
<1>1. PICK g \in CLIENT_POLICY : g.client = "copilot" /\ g.aud = a /\ scopes \subseteq g.scopes
  BY DEF Hop
<1>2. a \in {"agent-specialist", "mcp-gateway"}
  BY <1>1, PolicyRows
<1>3. NextActor("agent-specialist") = "specialist" /\ NextActor("mcp-gateway") = "agentgateway"
  BY DEF NextActor
<1> QED BY <1>2, <1>3 DEF NoOne

\* The only audiences the specialist and the gateway can reach with a scope.
LEMMA LaterHops ==
    ASSUME NEW a, NEW x, NEW scopes
    PROVE  /\ Hop(x, "specialist", a, scopes) /\ (\E s \in scopes : s # "llm:invoke")
                => a = "mcp-gateway"
           /\ Hop(x, "agentgateway", a, scopes) /\ "ops:write" \in scopes => a = "mcp-ops"
           /\ Hop(x, "agentgateway", a, scopes) /\ "inspect:read" \in scopes
                => a = "mcp-inspect"
BY PolicyRows DEF Hop

\* The hops of a token with a chain of three or four actors, one by one.
LEMMA HopByHop ==
    ASSUME NEW t, TokenInv(t)
    PROVE  /\ \A a, b, c : t.act = <<a, b, c>> =>
                /\ t.via = <<"agent-copilot", t.via[2], t.via[3], t.aud>>
                /\ Hop("agent-copilot", c, t.via[2], t.scopes)
                /\ Hop(t.via[2], b, t.via[3], t.scopes)
           /\ \A a, b, c, d : t.act = <<a, b, c, d>> =>
                /\ t.via = <<"agent-copilot", t.via[2], t.via[3], t.via[4], t.aud>>
                /\ Hop("agent-copilot", d, t.via[2], t.scopes)
                /\ Hop(t.via[2], c, t.via[3], t.scopes)
                /\ Hop(t.via[3], b, t.via[4], t.scopes)
<1>1. /\ t.via \in Seq(Audiences)
      /\ Len(t.via) = Len(t.act) + 1
      /\ t.via[1] = "agent-copilot"
      /\ t.via[Len(t.via)] = t.aud
  BY DEF TokenInv, Token, Lineage
<1>2. ASSUME NEW i \in 1 .. Len(t.act)
      PROVE  Hop(t.via[i], t.act[Len(t.act) + 1 - i], t.via[i + 1], t.scopes)
  BY DEF TokenInv, Lineage
<1>3. ASSUME NEW a, NEW b, NEW c, t.act = <<a, b, c>>
      PROVE  /\ t.via = <<"agent-copilot", t.via[2], t.via[3], t.aud>>
             /\ Hop("agent-copilot", c, t.via[2], t.scopes)
             /\ Hop(t.via[2], b, t.via[3], t.scopes)
  <2>1. Len(t.act) = 3 /\ t.act[3] = c /\ t.act[2] = b
    BY <1>3
  <2>2. t.via = <<"agent-copilot", t.via[2], t.via[3], t.aud>>
    BY <1>1, <2>1
  <2>3. Hop(t.via[1], t.act[3], t.via[2], t.scopes)
    BY <2>1, <1>2
  <2>4. Hop(t.via[2], t.act[2], t.via[3], t.scopes)
    BY <2>1, <1>2
  <2> QED BY <1>1, <2>1, <2>2, <2>3, <2>4
<1>4. ASSUME NEW a, NEW b, NEW c, NEW d, t.act = <<a, b, c, d>>
      PROVE  /\ t.via = <<"agent-copilot", t.via[2], t.via[3], t.via[4], t.aud>>
             /\ Hop("agent-copilot", d, t.via[2], t.scopes)
             /\ Hop(t.via[2], c, t.via[3], t.scopes)
             /\ Hop(t.via[3], b, t.via[4], t.scopes)
  <2>1. Len(t.act) = 4 /\ t.act[4] = d /\ t.act[3] = c /\ t.act[2] = b
    BY <1>4
  <2>2. t.via = <<"agent-copilot", t.via[2], t.via[3], t.via[4], t.aud>>
    BY <1>1, <2>1
  <2>3. Hop(t.via[1], t.act[4], t.via[2], t.scopes)
    BY <2>1, <1>2
  <2>4. Hop(t.via[2], t.act[3], t.via[3], t.scopes)
    BY <2>1, <1>2
  <2>5. Hop(t.via[3], t.act[2], t.via[4], t.scopes)
    BY <2>1, <1>2
  <2> QED BY <1>1, <2>1, <2>2, <2>3, <2>4, <2>5
<1> QED BY <1>3, <1>4

(* Chain integrity: whatever an API acts on came the documented way. *)
THEOREM ChainIntegrity == Spec => []NoDetour
<1>1. ASSUME IndInv, NEW e \in effects, e.tool \in WriteTools
      PROVE  e.tok.via = WritePath
  <2> DEFINE t == e.tok
  <2>1. TokenInv(t) /\ OpsApiAdmits(t)
    BY <1>1 DEF IndInv, EffectInv
  <2> HIDE DEF t
  <2>2. /\ t.aud = "ops-api" /\ "ops:write" \in t.scopes
        /\ t.act = <<"mcp-ops", "agentgateway", "specialist", "copilot">>
    BY <2>1 DEF VerifyJwt, OpsApiAdmits, OpsApiChain
  <2>3. /\ t.via = <<"agent-copilot", t.via[2], t.via[3], t.via[4], t.aud>>
        /\ Hop("agent-copilot", "copilot", t.via[2], t.scopes)
        /\ Hop(t.via[2], "specialist", t.via[3], t.scopes)
        /\ Hop(t.via[3], "agentgateway", t.via[4], t.scopes)
    BY <2>1, <2>2, HopByHop
  <2>4. NextActor(t.via[2]) \in {NoOne, "specialist"}
    BY <2>3 DEF Hop
  <2>5. t.via[2] = "agent-specialist"
    BY <2>2, <2>3, <2>4, FirstHop
  <2>6. t.via[3] = "mcp-gateway" /\ t.via[4] = "mcp-ops"
    BY <2>2, <2>3, LaterHops
  <2> QED BY <2>2, <2>3, <2>5, <2>6 DEF WritePath, t
<1>2. ASSUME IndInv, NEW e \in effects, e.tool \in ReadTools
      PROVE  e.tok.via \in ReadPaths
  <2> DEFINE t == e.tok
  <2>1. TokenInv(t) /\ InspectApiAdmits(t)
    BY <1>2 DEF IndInv, EffectInv
  <2> HIDE DEF t
  <2>2. /\ t.aud = "inspect-api" /\ "inspect:read" \in t.scopes
        /\ \/ t.act = <<"mcp-inspect", "agentgateway", "copilot">>
           \/ t.act = <<"mcp-inspect", "agentgateway", "specialist", "copilot">>
    BY <2>1 DEF VerifyJwt, InspectApiAdmits, InspectApiChains
  <2>3. CASE t.act = <<"mcp-inspect", "agentgateway", "copilot">>
    <3>1. /\ t.via = <<"agent-copilot", t.via[2], t.via[3], t.aud>>
          /\ Hop("agent-copilot", "copilot", t.via[2], t.scopes)
          /\ Hop(t.via[2], "agentgateway", t.via[3], t.scopes)
      BY <2>1, <2>3, HopByHop
    <3>2. NextActor(t.via[2]) \in {NoOne, "agentgateway"}
      BY <3>1 DEF Hop
    <3>3. t.via[2] = "mcp-gateway"
      BY <2>2, <3>1, <3>2, FirstHop
    <3>4. t.via[3] = "mcp-inspect"
      BY <2>2, <3>1, LaterHops
    <3> QED BY <2>2, <3>1, <3>3, <3>4 DEF ReadPaths, t
  <2>4. CASE t.act = <<"mcp-inspect", "agentgateway", "specialist", "copilot">>
    <3>1. /\ t.via = <<"agent-copilot", t.via[2], t.via[3], t.via[4], t.aud>>
          /\ Hop("agent-copilot", "copilot", t.via[2], t.scopes)
          /\ Hop(t.via[2], "specialist", t.via[3], t.scopes)
          /\ Hop(t.via[3], "agentgateway", t.via[4], t.scopes)
      BY <2>1, <2>4, HopByHop
    <3>2. NextActor(t.via[2]) \in {NoOne, "specialist"}
      BY <3>1 DEF Hop
    <3>3. t.via[2] = "agent-specialist"
      BY <2>2, <3>1, <3>2, FirstHop
    <3>4. t.via[3] = "mcp-gateway" /\ t.via[4] = "mcp-inspect"
      BY <2>2, <3>1, LaterHops
    <3> QED BY <2>2, <3>1, <3>3, <3>4 DEF ReadPaths, t
  <2> QED BY <2>2, <2>3, <2>4
<1>3. IndInv => NoDetour
  <2>1. IndInv => \A e \in effects : e.tool \in WriteTools \cup ReadTools
    BY DEF IndInv, TypeOK, Tools
  <2> QED BY <1>1, <1>2, <2>1 DEF NoDetour
<1> QED BY <1>3, Invariance, PTL
-----------------------------------------------------------------------------
(* The tool panel. *)

\* The rows the gateway and mcp-ops use for a write tool.
LEMMA WriteRows ==
    /\ \A tool \in WriteTools :
          GatewayGrant(tool) = Grant("agentgateway", "mcp-ops", {"ops:write"}, "mcp-ops")
    /\ OpsApiGrant = Grant("mcp-ops", "ops-api", {"ops:write"}, NoOne)
<1>1. ASSUME NEW g \in CLIENT_POLICY
      PROVE  /\ g.client = "agentgateway" /\ g.aud = "mcp-ops" =>
                   g = Grant("agentgateway", "mcp-ops", {"ops:write"}, "mcp-ops")
             /\ g.client = "mcp-ops" => g = Grant("mcp-ops", "ops-api", {"ops:write"}, NoOne)
  BY DEF CLIENT_POLICY, Grant
<1>2. /\ \E g \in CLIENT_POLICY : g.client = "agentgateway" /\ g.aud = "mcp-ops"
      /\ \E g \in CLIENT_POLICY : g.client = "mcp-ops"
  BY DEF CLIENT_POLICY, Grant
<1>3. \A tool \in WriteTools : RouteAud(tool) = "mcp-ops"
  BY DEF RouteAud
<1> QED BY <1>1, <1>2, <1>3 DEF GatewayGrant, OpsApiGrant

\* A token on the path of a probe has the actors of that path.
LEMMA ProbeActors ==
    ASSUME NEW t, TokenInv(t), t.via = ProbePath
    PROVE  t.act = <<"specialist", "copilot">> /\ t.mayAct = "agentgateway"
<1>1. /\ Len(t.act) = 2 /\ t.act \in Seq(Clients)
      /\ t.aud = "mcp-gateway" /\ t.mayAct = NextActor("mcp-gateway")
  <2>1. Len(t.via) = 3 /\ t.via[3] = "mcp-gateway"
    BY DEF ProbePath
  <2>2. t.act \in Seq(Clients) /\ Len(t.act) \in Nat
    BY DEF TokenInv, Token
  <2>3. /\ Len(t.via) = Len(t.act) + 1 /\ t.via[Len(t.via)] = t.aud
        /\ t.mayAct = NextActor(t.aud)
    BY DEF TokenInv, Lineage
  <2>4. Len(t.act) = 2
    <3>1. \A n \in Nat : 3 = n + 1 => n = 2
      OBVIOUS
    <3> QED BY <2>1, <2>2, <2>3, <3>1
  <2>5. t.aud = "mcp-gateway"
    BY <2>1, <2>3
  <2> QED BY <2>2, <2>3, <2>4, <2>5
<1>2. /\ Hop("agent-copilot", t.act[2], "agent-specialist", t.scopes)
      /\ Hop("agent-specialist", t.act[1], "mcp-gateway", t.scopes)
  BY <1>1 DEF TokenInv, Lineage, ProbePath
<1>3. NextActor("agent-copilot") = "copilot" /\ NextActor("agent-specialist") = "specialist"
      /\ NextActor("mcp-gateway") = "agentgateway"
  BY DEF NextActor
<1>4. t.act[2] = "copilot" /\ t.act[1] = "specialist"
  BY <1>2, <1>3 DEF Hop, NoOne
<1> QED BY <1>1, <1>3, <1>4

\* What the panel says of a tool is what the gates behind it do with the call.
LEMMA PanelTruth ==
    ASSUME NEW t, TokenInv(t), t.via = ProbePath, NEW tool \in Listed(t)
    PROVE  Callable(t, tool) <=> CarriedOut(t, tool)
<1> DEFINE req   == {"ops:write"}
           g     == Grant("agentgateway", "mcp-ops", {"ops:write"}, "mcp-ops")
           h     == Grant("mcp-ops", "ops-api", {"ops:write"}, NoOne)
           atMcp == Mint(g, "agentgateway", t, req)
           atApi == Mint(h, "mcp-ops", atMcp, req)
<1>1. /\ tool \in WriteTools /\ McpAuthorization(t, tool) /\ "ops:write" \in t.scopes
  BY DEF Listed, McpAuthorization, RouteScope
<1>2. t.act = <<"specialist", "copilot">> /\ t.mayAct = "agentgateway"
  BY ProbeActors
<1>3. t.acr = "mfa" /\ t.roles \cap WriteRoles # {}
  BY <1>1, <1>2 DEF TokenInv, Inherited
<1>4. Narrowed(g, t, req) = req
  BY <1>1 DEF Narrowed, Requested, Grant
<1>5. Granted(g, "agentgateway", t, req)
  BY <1>2, <1>3, <1>4 DEF Granted, RoleGate, Releasable, MayActPermits, Grant
<1>6. /\ atMcp.aud = "mcp-ops" /\ atMcp.scopes = req /\ atMcp.acr = "mfa"
      /\ atMcp.roles = t.roles /\ atMcp.mayAct = "mcp-ops"
      /\ atMcp.act = <<"agentgateway">> \o t.act
  BY <1>3, <1>4 DEF Mint, Grant
<1>7. atMcp.act = McpOpsChain
  BY <1>2, <1>6 DEF McpOpsChain
<1> HIDE DEF atMcp
<1>8. McpOpsAdmits(atMcp) /\ (ToolAllowed(tool, atMcp) <=> ToolAllowed(tool, t))
  BY <1>6, <1>7 DEF McpOpsAdmits, VerifyJwt, ToolAllowed
<1>9. Narrowed(h, atMcp, req) = req
  BY <1>6 DEF Narrowed, Requested, Grant
<1>10. Granted(h, "mcp-ops", atMcp, req)
  BY <1>3, <1>6, <1>9 DEF Granted, RoleGate, Releasable, MayActPermits, Grant
<1>11. OpsApiAdmits(atApi)
  <2>1. /\ atApi.aud = "ops-api" /\ atApi.scopes = req /\ atApi.acr = "mfa"
        /\ atApi.act = <<"mcp-ops">> \o McpOpsChain
    BY <1>6, <1>7, <1>9 DEF Mint, Grant
  <2>2. <<"mcp-ops">> \o McpOpsChain = OpsApiChain
    <3> DEFINE c == <<"mcp-ops">> \o McpOpsChain
    <3>1. /\ c \in Seq(Clients) /\ Len(c) = 4
          /\ c[1] = "mcp-ops" /\ \A i \in 1 .. 3 : c[i + 1] = McpOpsChain[i]
      BY DEF McpOpsChain, Clients
    <3>2. c[2] = McpOpsChain[1] /\ c[3] = McpOpsChain[2] /\ c[4] = McpOpsChain[3]
      BY <3>1
    <3> HIDE DEF c
    <3>3. c = <<c[1], c[2], c[3], c[4]>>
      BY <3>1
    <3>4. c[2] = "agentgateway" /\ c[3] = "specialist" /\ c[4] = "copilot"
      BY <3>2 DEF McpOpsChain
    <3> QED BY <3>1, <3>3, <3>4 DEF OpsApiChain, c
  <2> QED BY <2>1, <2>2 DEF OpsApiAdmits, VerifyJwt
<1>12. Callable(t, tool) <=> ToolAllowed(tool, t)
  BY DEF Callable, ToolAllowed
<1>13. ToolAllowed(tool, t) => HttpAuthorization(t, tool, "prod")
  BY DEF ToolAllowed, ToolRequiredRoles, HttpAuthorization
<1>14. GatewayGrant(tool) = g /\ OpsApiGrant = h
  BY <1>1, WriteRows
<1>15. CarriedOut(t, tool) <=>
          /\ Granted(g, "agentgateway", t, req)
          /\ HttpAuthorization(t, tool, "prod") /\ McpAuthorization(t, tool)
          /\ McpOpsAdmits(atMcp) /\ ToolAllowed(tool, atMcp)
          /\ Granted(h, "mcp-ops", atMcp, req)
          /\ OpsApiAdmits(atApi)
  BY <1>14 DEF CarriedOut, atMcp
<1> HIDE DEF g, h, req, atApi
<1> QED BY <1>1, <1>5, <1>8, <1>10, <1>11, <1>12, <1>13, <1>15

\* The tool panel marks a tool as callable exactly if every gate behind it, none
\* of which it asks, lets the call pass; for every user and every token that went
\* the way of a probe.
THEOREM PanelIsTruthful == Spec => []PanelMatchesGates
<1>1. IndInv => PanelMatchesGates
  BY PanelTruth DEF IndInv, PanelMatchesGates
<1> QED BY <1>1, Invariance, PTL
=============================================================================
