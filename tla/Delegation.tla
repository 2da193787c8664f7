----------------------------- MODULE Delegation -----------------------------
(***************************************************************************)
(* The on-behalf-of delegation chain.                                      *)
(*                                                                         *)
(* A login gives a user an access token for the copilot.  Every further    *)
(* hop trades the token it received for a narrower one at Curity's RFC     *)
(* 8693 endpoint (k8s/curity/procedures/token-exchange.js), which records  *)
(* the presenting workload in the nested `act` claim and names the next    *)
(* one in `may_act`.  Tool calls enter through agentgateway, go to an MCP  *)
(* server and from there to the API that holds the cluster credentials.    *)
(*                                                                         *)
(* Curity is modelled as a server: any configured client may ask it, with  *)
(* any workload's SVID, to exchange any token ever minted.  What the       *)
(* agents really ask for is a subset of that, so whatever is shown here    *)
(* holds however the agents are programmed.                                *)
(***************************************************************************)
EXTENDS Curity

CONSTANTS Namespaces,   \* values of a tool call's `namespace` argument
          MaxLogins,    \* bound: number of logins
          MaxIssued,    \* bound: number of tokens Curity mints
          MaxRequests   \* bound: tool calls behind the gateway at one time

ASSUME BoundsAssumption == MaxLogins \in Nat /\ MaxIssued \in Nat /\ MaxRequests \in Nat

VARIABLES issued,     \* every access token minted so far
          requests,   \* tool calls the gateway let through, not answered yet
          effects     \* what inspect-api and ops-api did to the cluster

vars == <<issued, requests, effects>>
-----------------------------------------------------------------------------
CanMint == Cardinality(issued) < MaxIssued

\* A browser login, at either authentication level, with any requested scopes.
Login(u, acr, req) ==
    /\ CanMint
    /\ Cardinality({t \in issued : t.act = <<>>}) < MaxLogins
    /\ issued' = issued \cup {LoginToken(u, acr, req)}
    /\ UNCHANGED <<requests, effects>>

\* One call of the token-exchange endpoint.
Exchange(g, w, t, req) ==
    /\ CanMint
    /\ Granted(g, w, t, req)
    /\ issued' = issued \cup {Mint(g, w, t, req)}
    /\ UNCHANGED <<requests, effects>>
-----------------------------------------------------------------------------
(***************************************************************************)
(* Resource servers.                                                       *)
(***************************************************************************)
WriteTools == {"restart_deployment", "scale_deployment", "set_deployment_image"}
ReadTools == {"read"}   \* list_pods, get_pod_logs, get_deployment
Tools == WriteTools \cup ReadTools

\* The route a tool is on: the audience its token is narrowed to and the scope
\* the exchange-shim asks for (audienceScopes in apps/exchange-shim/src/config.ts).
RouteAud(tool) == IF tool \in WriteTools THEN "mcp-ops" ELSE "mcp-inspect"
RouteScope(tool) == IF tool \in WriteTools THEN "ops:write" ELSE "inspect:read"

GatewayGrant(tool) ==
    CHOOSE g \in CLIENT_POLICY : g.client = "agentgateway" /\ g.aud = RouteAud(tool)

\* agentgateway: the HTTP-layer deny rules.  The role rule cannot match when
\* the roles claim is absent; an omitted namespace is defaulted by the server.
HttpAuthorization(t, tool, ns) ==
    /\ ~(tool = "set_deployment_image" /\ t.roles # {} /\ "sre" \notin t.roles)
    /\ ns \in {"prod", "omitted"}

\* agentgateway: the MCP-layer rule of the tool's route.
McpAuthorization(t, tool) == RouteScope(tool) \in t.scopes

(***************************************************************************)
(* A tool call arrives at the gateway with a token for audience            *)
(* mcp-gateway.  extAuthz exchanges the token before the authorization     *)
(* rules run, so a call they refuse has already minted one.                *)
(***************************************************************************)
Gateway(t, tool, ns) ==
    LET g   == GatewayGrant(tool)
        req == {RouteScope(tool)}
        tok == Mint(g, "agentgateway", t, req)
    IN  /\ t.aud = "mcp-gateway"
        /\ CanMint
        /\ Granted(g, "agentgateway", t, req)
        /\ issued' = issued \cup {tok}
        /\ \/ /\ HttpAuthorization(t, tool, ns)
              /\ McpAuthorization(t, tool)
              /\ Cardinality(requests) < MaxRequests
              /\ requests' = requests \cup {[at |-> RouteAud(tool), tool |-> tool, tok |-> tok]}
           \/ /\ ~(HttpAuthorization(t, tool, ns) /\ McpAuthorization(t, tool))
              /\ UNCHANGED requests
        /\ UNCHANGED effects

\* expectedActorChain of mcp-ops and ops-api, expectedActorChains of inspect-api.
McpOpsChain == <<"agentgateway", "specialist", "copilot">>
OpsApiChain == <<"mcp-ops", "agentgateway", "specialist", "copilot">>
InspectApiChains == {<<"mcp-inspect", "agentgateway", "copilot">>,
                     <<"mcp-inspect", "agentgateway", "specialist", "copilot">>}

\* verifyJwt: a token Curity signed, for this server.  Tokens are not forged here:
\* every one that is presented was issued.
VerifyJwt(t, aud) == t.aud = aud

\* authMiddleware of each resource server.
McpOpsAdmits(t) ==
    /\ VerifyJwt(t, "mcp-ops")
    /\ "ops:write" \in t.scopes
    /\ t.act = McpOpsChain
    /\ t.acr = "mfa"

McpInspectAdmits(t) ==
    /\ VerifyJwt(t, "mcp-inspect")
    /\ t.act # <<>> /\ Head(t.act) = "agentgateway"
    /\ "inspect:read" \in t.scopes

OpsApiAdmits(t) ==
    /\ VerifyJwt(t, "ops-api")
    /\ "ops:write" \in t.scopes
    /\ t.act = OpsApiChain
    /\ t.acr = "mfa"

InspectApiAdmits(t) ==
    /\ VerifyJwt(t, "inspect-api")
    /\ "inspect:read" \in t.scopes
    /\ t.act \in InspectApiChains

\* mcp-ops: DEFAULT_TOOL_REQUIRED_ROLES and toolRoleDenial.
ToolRequiredRoles(tool) == IF tool = "set_deployment_image" THEN {"sre"} ELSE WriteRoles
ToolAllowed(tool, t) == t.roles \cap ToolRequiredRoles(tool) # {}

\* What the MCP servers exchange the token they were called with for, and the
\* calls they make with the new one.
OpsApiGrant == CHOOSE g \in CLIENT_POLICY : g.client = "mcp-ops"
InspectApiGrant == CHOOSE g \in CLIENT_POLICY : g.client = "mcp-inspect"
CallOpsApi(tool, tok) == [at |-> "ops-api", tool |-> tool, tok |-> tok]
CallInspectApi(tool, tok) == [at |-> "inspect-api", tool |-> tool, tok |-> tok]

(***************************************************************************)
(* mcp-ops handles a call: middleware, role gate, exchange, then the call  *)
(* to ops-api.  A refusal at any point answers the call.                   *)
(***************************************************************************)
McpOps(r) ==
    LET req == {"ops:write"}
        tok == Mint(OpsApiGrant, "mcp-ops", r.tok, req)
    IN  /\ r.at = "mcp-ops"
        /\ CanMint
        /\ IF /\ McpOpsAdmits(r.tok)
              /\ ToolAllowed(r.tool, r.tok)
              /\ Granted(OpsApiGrant, "mcp-ops", r.tok, req)
           THEN /\ issued' = issued \cup {tok}
                /\ requests' = (requests \ {r}) \cup {CallOpsApi(r.tool, tok)}
           ELSE /\ requests' = requests \ {r}
                /\ UNCHANGED issued
        /\ UNCHANGED effects

\* mcp-inspect: middleware and exchange; there is no role gate on a read.
McpInspect(r) ==
    LET req == {"inspect:read"}
        tok == Mint(InspectApiGrant, "mcp-inspect", r.tok, req)
    IN  /\ r.at = "mcp-inspect"
        /\ CanMint
        /\ IF /\ McpInspectAdmits(r.tok)
              /\ Granted(InspectApiGrant, "mcp-inspect", r.tok, req)
           THEN /\ issued' = issued \cup {tok}
                /\ requests' = (requests \ {r}) \cup {CallInspectApi(r.tool, tok)}
           ELSE /\ requests' = requests \ {r}
                /\ UNCHANGED issued
        /\ UNCHANGED effects

\* The patch of the Deployment, and the read of pods, logs or the Deployment.
Patch(tool, tok) == [tool |-> tool, tok |-> tok]
Read(tool, tok) == [tool |-> tool, tok |-> tok]

\* ops-api: middleware, then the change of the Deployment.  No role check.
OpsApi(r) ==
    /\ r.at = "ops-api"
    /\ requests' = requests \ {r}
    /\ effects' = IF OpsApiAdmits(r.tok)
                  THEN effects \cup {Patch(r.tool, r.tok)} ELSE effects
    /\ UNCHANGED issued

\* inspect-api: middleware, then the read.
InspectApi(r) ==
    /\ r.at = "inspect-api"
    /\ requests' = requests \ {r}
    /\ effects' = IF InspectApiAdmits(r.tok)
                  THEN effects \cup {Read(r.tool, r.tok)} ELSE effects
    /\ UNCHANGED issued
-----------------------------------------------------------------------------
(***************************************************************************)
(* The tool panel: what /tools says of the tools on the gateway's ops      *)
(* route, from the token the probe holds for it.                           *)
(***************************************************************************)
\* tools/list through the gateway: the MCP-layer rule alone filters it.
Listed(t) == {tool \in WriteTools : t.aud = "mcp-gateway" /\ McpAuthorization(t, tool)}

\* Mutant of Callable: every published role is asked for.
Callable_every(t, tool) == ToolRequiredRoles(tool) \subseteq t.roles

\* toolInfos: the user has one of the roles mcp-ops publishes with the tool.
Callable(t, tool) == \E role \in ToolRequiredRoles(tool) : role \in t.roles
-----------------------------------------------------------------------------
Init ==
    /\ issued = {}
    /\ requests = {}
    /\ effects = {}

Next ==
    \/ \E u \in Users, acr \in Acrs, req \in SUBSET Scopes : Login(u, acr, req)
    \/ \E g \in CLIENT_POLICY, w \in Clients, t \in issued, req \in SUBSET Scopes :
          Exchange(g, w, t, req)
    \/ \E t \in issued, tool \in Tools, ns \in Namespaces : Gateway(t, tool, ns)
    \/ \E r \in requests : McpOps(r)
    \/ \E r \in requests : McpInspect(r)
    \/ \E r \in requests : OpsApi(r)
    \/ \E r \in requests : InspectApi(r)

Spec == Init /\ [][Next]_vars
-----------------------------------------------------------------------------
(***************************************************************************)
(* Properties.                                                             *)
(***************************************************************************)

\* The types of the state: tokens, calls behind the gateway, effects.
TypeOK ==
    /\ issued \subseteq Token
    /\ requests \subseteq [at : {"mcp-ops", "mcp-inspect", "ops-api", "inspect-api"},
                           tool : Tools, tok : Token]
    /\ effects \subseteq [tool : Tools, tok : Token]

\* Whatever ops-api does to the cluster, it does for a user who authenticated
\* with MFA and whom the user store gives a write role; a new image is rolled
\* out only for an sre.  ops-api itself checks no role: this rests on the
\* exchange's role gate, the propagation of acr and roles over every hop, and
\* mcp-ops's per-tool gate.
EffectAuthority ==
    \A e \in effects : e.tool \in WriteTools =>
        /\ e.tok.login.acr = "mfa"
        /\ "ops:write" \in e.tok.login.scopes
        /\ AddRoles(e.tok.sub) \cap WriteRoles # {}
        /\ e.tool = "set_deployment_image" => "sre" \in AddRoles(e.tok.sub)

\* The audiences a token went through on the privileged and on the two read paths.
WritePath == <<"agent-copilot", "agent-specialist", "mcp-gateway", "mcp-ops", "ops-api">>
ReadPaths == {<<"agent-copilot", "mcp-gateway", "mcp-inspect", "inspect-api">>,
              <<"agent-copilot", "agent-specialist", "mcp-gateway", "mcp-inspect",
                "inspect-api">>}

\* Chain integrity: a token an API acted on was minted hop by hop along the
\* documented path, although the APIs only look at the actors' names and Curity
\* never checks that the presenting client is the audience of the subject token.
NoDetour ==
    \A e \in effects :
        IF e.tool \in WriteTools THEN e.tok.via = WritePath ELSE e.tok.via \in ReadPaths

\* A privileged scope exists only in tokens of users who may write, at acr=mfa,
\* and in front of the gateway only the specialist can have obtained it: the
\* copilot, which may forward ops:write to the specialist, never holds it for
\* the gateway itself.
PrivilegeConfined ==
    \A t \in issued : "ops:write" \in t.scopes =>
        /\ t.login.acr = "mfa"
        /\ t.act # <<>> => AddRoles(t.sub) \cap WriteRoles # {}
        /\ t.aud = "mcp-gateway" => Head(t.act) = "specialist"
        /\ t.aud \notin {"llm-gateway", "mcp-inspect", "inspect-api"}

\* A call of a write tool in namespace prod with token t passes every gate: both
\* layers of the gateway, its exchange, mcp-ops and its exchange, ops-api.
CarriedOut(t, tool) ==
    LET req    == {"ops:write"}
        atMcp  == Mint(GatewayGrant(tool), "agentgateway", t, req)
        atApi  == Mint(OpsApiGrant, "mcp-ops", atMcp, req)
    IN  /\ Granted(GatewayGrant(tool), "agentgateway", t, req)
        /\ HttpAuthorization(t, tool, "prod") /\ McpAuthorization(t, tool)
        /\ McpOpsAdmits(atMcp) /\ ToolAllowed(tool, atMcp)
        /\ Granted(OpsApiGrant, "mcp-ops", atMcp, req)
        /\ OpsApiAdmits(atApi)

\* The token of a probe: the copilot's delegation, exchanged by the specialist.
ProbePath == <<"agent-copilot", "agent-specialist", "mcp-gateway">>

\* The panel tells every user the truth about every tool it lists: a tool is marked
\* as callable exactly if all the gates behind the panel, none of which it asks,
\* let the call pass.
PanelMatchesGates ==
    \A t \in issued : t.via = ProbePath =>
        \A tool \in Listed(t) : Callable(t, tool) <=> CarriedOut(t, tool)

\* Narrowing: over any number of exchanges a token keeps its user, the level of
\* the login and the user's roles, and its scopes are among those of the login.
OnlyNarrows ==
    \A t \in issued :
        /\ t.acr = t.login.acr
        /\ t.scopes \subseteq t.login.scopes
        /\ t.roles = AddRoles(t.sub)
=============================================================================
