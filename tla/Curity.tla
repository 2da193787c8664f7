------------------------------- MODULE Curity -------------------------------
(***************************************************************************)
(* The authorization server as the exchange procedure programs it: which   *)
(* access tokens a login and an RFC 8693 token exchange issue              *)
(* (k8s/curity/procedures/, CLIENT_POLICY and result() of                  *)
(* token-exchange.js, and the acr authorizer on ops:write).  Constant      *)
(* operators only; Delegation and Remediation build on them.               *)
(***************************************************************************)
EXTENDS Naturals, Sequences, FiniteSets

CONSTANT Users   \* subjects who may log in
-----------------------------------------------------------------------------
(***************************************************************************)
(* Names.  A confidential client is called like its workload; the CIMD     *)
(* client URLs of the two agents are shortened to the agents' names.       *)
(***************************************************************************)
Clients == {"copilot", "specialist", "agentgateway", "mcp-ops", "mcp-inspect"}
Scopes == {"inspect:read", "ops:write", "llm:invoke"}
Roles == {"sre", "oncall", "developer"}
WriteRoles == {"sre", "oncall"}
Acrs == {"html-form", "mfa"}
NoOne == "none"

\* add-roles.js: the roles a login gives to a subject.
AddRoles(u) ==
    CASE u = "alice" -> {"sre"}
      [] u = "carol" -> {"oncall"}
      [] u = "bob"   -> {"developer"}
      [] OTHER       -> {}

Grant(c, a, s, next) == [client |-> c, aud |-> a, scopes |-> s, mayAct |-> next]

\* CLIENT_POLICY: per client and audience, the scopes that may be issued and
\* the workload that may present the issued token next.
CLIENT_POLICY ==
    {Grant("copilot", "mcp-gateway", {"inspect:read"}, "agentgateway"),
     Grant("copilot", "agent-specialist", Scopes, "specialist"),
     Grant("copilot", "llm-gateway", {"llm:invoke"}, NoOne),
     Grant("specialist", "mcp-gateway", {"inspect:read", "ops:write"}, "agentgateway"),
     Grant("specialist", "llm-gateway", {"llm:invoke"}, NoOne),
     Grant("agentgateway", "mcp-inspect", {"inspect:read"}, "mcp-inspect"),
     Grant("agentgateway", "mcp-ops", {"ops:write"}, "mcp-ops"),
     Grant("mcp-ops", "ops-api", {"ops:write"}, NoOne),
     Grant("mcp-inspect", "inspect-api", {"inspect:read"}, NoOne)}

Audiences == {"agent-copilot", "agent-specialist", "mcp-gateway", "llm-gateway",
              "mcp-inspect", "mcp-ops", "inspect-api", "ops-api"}

(***************************************************************************)
(* An access token.  `act` lists the actors from the outermost (latest) to *)
(* the innermost, the order walkActChain returns.  `via` and `login` are   *)
(* history: the audiences of the token's ancestors, oldest first, and what *)
(* the login at its root granted.                                          *)
(***************************************************************************)
Token == [sub : Users, aud : Audiences, scopes : SUBSET Scopes,
          act : Seq(Clients), mayAct : Clients \cup {NoOne}, acr : Acrs,
          roles : SUBSET Roles, via : Seq(Audiences),
          login : [acr : Acrs, scopes : SUBSET Scopes]]
-----------------------------------------------------------------------------
(***************************************************************************)
(* Curity.                                                                 *)
(***************************************************************************)

\* The token issuance authorizer bound to ops:write (require-mfa-for-privileged).
Releasable(scope, acr) == scope = "ops:write" => acr = "mfa"

\* authorization-code.js: the login token.  Scopes the authorizer does not
\* release are withheld.
LoginToken(u, acr, req) ==
    LET scopes == {s \in req : Releasable(s, acr)}
    IN  [sub |-> u, aud |-> "agent-copilot", scopes |-> scopes, act |-> <<>>,
         mayAct |-> "copilot", acr |-> acr, roles |-> AddRoles(u),
         via |-> <<"agent-copilot">>, login |-> [acr |-> acr, scopes |-> scopes]]

\* An exchange request without a scope parameter asks for the subject's scopes.
Requested(t, req) == IF req = {} THEN t.scopes ELSE req

\* Mutant of Narrowed: the subject token's scopes are not consulted.
Narrowed_ignoringSubject(g, t, req) == Requested(t, req) \cap g.scopes

\* Step 3: requested \cap subject \cap policy(audience).
Narrowed(g, t, req) == Requested(t, req) \cap t.scopes \cap g.scopes

\* Mutant of RoleGate: no role is asked for.
RoleGate_dropped(g, t, req) == TRUE

\* Mutant of RoleGate: keyed on what the subject token still carries.
RoleGate_onNarrowed(g, t, req) ==
    "ops:write" \in Narrowed(g, t, req) => t.roles \cap WriteRoles # {}

\* Step 3: the role gate, on what the audience could grant.
RoleGate(g, t, req) ==
    "ops:write" \in Requested(t, req) \cap g.scopes => t.roles \cap WriteRoles # {}

\* Mutant of MayActPermits: the claim is not enforced.
MayActPermits_ignored(t, w) == TRUE

\* Step 6b: may_act is enforced when the subject token carries it.
MayActPermits(t, w) == t.mayAct \in {NoOne, w}

\* result(): the request of client g.client for audience g.aud is granted.
\* Each client's allowedActor (step 6a) is its own workload.
Granted(g, w, t, req) ==
    /\ Narrowed(g, t, req) # {}
    /\ RoleGate(g, t, req)
    /\ \A s \in Narrowed(g, t, req) : Releasable(s, t.acr)
    /\ w = g.client
    /\ MayActPermits(t, w)

\* Mutants of Mint: acr, or roles, is not carried over to the issued token.
Mint_withoutAcr(g, w, t, req) ==
    [sub |-> t.sub, aud |-> g.aud, scopes |-> Narrowed(g, t, req),
     act |-> <<w>> \o t.act, mayAct |-> g.mayAct, acr |-> NoOne,
     roles |-> t.roles, via |-> Append(t.via, g.aud), login |-> t.login]
Mint_withoutRoles(g, w, t, req) ==
    [sub |-> t.sub, aud |-> g.aud, scopes |-> Narrowed(g, t, req),
     act |-> <<w>> \o t.act, mayAct |-> g.mayAct, acr |-> t.acr,
     roles |-> {}, via |-> Append(t.via, g.aud), login |-> t.login]

\* Step 7: the issued token.
Mint(g, w, t, req) ==
    [sub |-> t.sub, aud |-> g.aud, scopes |-> Narrowed(g, t, req),
     act |-> <<w>> \o t.act, mayAct |-> g.mayAct, acr |-> t.acr,
     roles |-> t.roles, via |-> Append(t.via, g.aud), login |-> t.login]

\* The grant of CLIENT_POLICY for a client and an audience.
GrantFor(c, a) == CHOOSE g \in CLIENT_POLICY : g.client = c /\ g.aud = a

\* The error code a refused request is answered with: an empty narrowing comes
\* before the role gate.
Refusal(g, t, req) ==
    IF Narrowed(g, t, req) = {} THEN "invalid_scope" ELSE "access_denied"
=============================================================================
