------------------------------- MODULE McpAuth ------------------------------
(***************************************************************************)
(* How an agent gets and keeps its MCP token: discovery of the             *)
(* authorization server from the MCP server's own 401 (probe, RFC 9728     *)
(* metadata, RFC 8414 metadata), the DPoP-bound exchange there, and the    *)
(* transport's 401 seam that acquires once more.                           *)
(*                                                                         *)
(* Each question has a provider of its own; the discovery cache, the cache *)
(* of authorization servers, the token cache and the DPoP key belong to    *)
(* the process.  Servers are redeployed, keys and nonces rotate meanwhile. *)
(* An entry of a cache may outlive its time to live before any step, so a  *)
(* hit is always a choice.                                                 *)
(***************************************************************************)
EXTENDS Naturals, FiniteSets

CONSTANTS Questions, Users,
          Trusted,        \* allowedAuthorizationServers
          Foreign,        \* other authorization servers
          MaxRequests,    \* bound: MCP requests of one question
          MaxChanges      \* bound: changes of the servers

ASSUME McpAuthAssumption ==
    /\ Trusted \cap Foreign = {} /\ Trusted # {}
    /\ {MaxRequests, MaxChanges} \subseteq Nat

VARIABLES server,      \* the MCP server: what its metadata says, what it accepts
          curity,      \* the authorization servers: endpoint, nonce
          changes,     \* number of changes so far: the age of what was read
          minted,      \* number of tokens minted so far
          q,           \* the questions and their providers
          discovered,  \* discoveryCache
          resolved,    \* the cache of authorization server metadata
          tokens,      \* exchangeCache
          nonce        \* the nonce remembered on the process's DPoP key

caches == <<discovered, resolved, tokens>>
vars == <<server, curity, changes, minted, q, caches, nonce>>
-----------------------------------------------------------------------------
(***************************************************************************)
(* A discovery names the authorization server, its token endpoint (whose,  *)
(* and since which change) and the scope; it remembers when the two        *)
(* documents were read.  A token carries its user, its number and the key  *)
(* it was signed with.                                                     *)
(***************************************************************************)
Servers == Trusted \cup Foreign
NoScope == "none"
None == [at |-> 0]
NoToken == [serial |-> 0]

Idle == [pc |-> "idle", user |-> "none", forced |-> FALSE, doc |-> None, d |-> None,
         token |-> NoToken, sent |-> [to |-> None, nonce |-> 0, again |-> FALSE],
         reply |-> "none", header |-> 0, opened |-> FALSE, requests |-> 0, retried |-> FALSE,
         status |-> 0, cause |-> "none", refusedAt |-> 0, refused |-> 0, stepUp |-> FALSE]

Set(i, r) == q' = [q EXCEPT ![i] = r]
At(i, pc) == q[i].pc = pc

\* /chat: a failure to learn is 502, any other failure of acquire 403; a toolset
\* that does not open is 502; later the model is told and answers.
StatusOf(r, cause) ==
    CASE ~r.opened -> IF cause = "discovery" THEN 502 ELSE 403
      [] r.opened /\ r.requests = 0 -> 502
      [] OTHER -> 200

Failed(r, cause) ==
    [Idle EXCEPT !.pc = "done", !.cause = cause, !.status = StatusOf(r, cause)]

\* acquire returns: the transport attaches the token from now on.
Acquired(r, token) ==
    [r EXCEPT !.pc = "request", !.token = token, !.opened = TRUE, !.forced = FALSE,
              !.doc = None, !.sent = Idle.sent, !.reply = "none", !.header = 0]

Begin(i, u) ==
    /\ At(i, "idle")
    /\ Set(i, [Idle EXCEPT !.pc = "learn", !.user = u])
    /\ UNCHANGED <<server, curity, changes, minted, caches, nonce>>
-----------------------------------------------------------------------------
(***************************************************************************)
(* Discovery.                                                              *)
(***************************************************************************)
\* discoverMcpAuthorization serves its cache unless the transport forced it.
Cached(i) ==
    /\ At(i, "learn") /\ ~q[i].forced /\ discovered # None
    /\ Set(i, [q[i] EXCEPT !.pc = "token", !.d = discovered])
    /\ UNCHANGED <<server, curity, changes, minted, caches, nonce>>

\* Mutant of Acceptable: any server over https.
Acceptable_anyServer(doc) == doc.describes

\* The document must describe this server and name one the client trusts.
Acceptable(doc) == doc.describes /\ doc.as \in Trusted

\* Probe (or the challenge at hand) and resource metadata; any of it may fail.
Learn(i) ==
    /\ At(i, "learn")
    /\ Set(i, IF Acceptable(server.doc)
              THEN [q[i] EXCEPT !.pc = "resolve",
                                !.doc = [as |-> server.doc.as, scope |-> server.doc.scope,
                                         at |-> changes + 1]]
              ELSE Failed(q[i], "discovery"))
    /\ UNCHANGED <<server, curity, changes, minted, caches, nonce>>

Unreachable(i) ==
    /\ q[i].pc \in {"learn", "resolve"}
    /\ Set(i, Failed(q[i], "discovery"))
    /\ UNCHANGED <<server, curity, changes, minted, caches, nonce>>

\* Mutant of MetadataFor: force does not reach resolveAuthorizationServer.
MetadataFor_unforced(r) ==
    {[endpoint |-> curity[r.doc.as].endpoint, at |-> changes + 1]}
        \cup (IF r.doc.as \notin DOMAIN resolved THEN {} ELSE {resolved[r.doc.as]})

\* resolveAuthorizationServer: the cached metadata unless forced, or the document.
MetadataFor(r) ==
    {[endpoint |-> curity[r.doc.as].endpoint, at |-> changes + 1]}
        \cup (IF r.forced \/ r.doc.as \notin DOMAIN resolved THEN {} ELSE {resolved[r.doc.as]})

\* The metadata are cached before the scope is selected, which may fail.
Resolve(i) ==
    LET r == q[i]
    IN  /\ At(i, "resolve")
        /\ \E m \in MetadataFor(r) :
              LET d == [as |-> r.doc.as, endpoint |-> m.endpoint, scope |-> r.doc.scope,
                        at |-> r.doc.at, asAt |-> m.at]
              IN  /\ resolved' = [s \in DOMAIN resolved \cup {r.doc.as} |->
                                    IF s = r.doc.as THEN m ELSE resolved[s]]
                  /\ IF r.doc.scope = NoScope
                     THEN Set(i, Failed(r, "discovery")) /\ UNCHANGED discovered
                     ELSE Set(i, [r EXCEPT !.pc = "token", !.d = d]) /\ discovered' = d
        /\ UNCHANGED <<server, curity, changes, minted, tokens, nonce>>
-----------------------------------------------------------------------------
(***************************************************************************)
(* The exchange.                                                           *)
(***************************************************************************)
CacheKey(r) == <<r.user, r.d.scope>>

\* obtainMcpToken with bypassCache invalidates the entry before it looks.
Dropped(r) == IF r.forced THEN {e \in tokens : e.key # CacheKey(r)} ELSE tokens

TokenHit(i) ==
    /\ At(i, "token")
    /\ \E e \in Dropped(q[i]) :
          /\ e.key = CacheKey(q[i])
          /\ Set(i, Acquired(q[i], e.token))
    /\ tokens' = Dropped(q[i])
    /\ UNCHANGED <<server, curity, changes, minted, discovered, resolved, nonce>>

\* sendExchange: one request to the token endpoint, with the nonce known now.
Sent(r, again) ==
    [r EXCEPT !.pc = "sent", !.sent = [to |-> r.d, nonce |-> nonce, again |-> again]]

Send(i) ==
    /\ At(i, "token")
    /\ Set(i, Sent(q[i], FALSE))
    /\ tokens' = Dropped(q[i])
    /\ UNCHANGED <<server, curity, changes, minted, discovered, resolved, nonce>>

\* There is no SVID, or the fetch fails, as it does where no endpoint is any more.
ExchangeFails(i) ==
    /\ q[i].pc \in {"token", "sent", "resend"}
    /\ Set(i, Failed(q[i], "outage"))
    /\ tokens' = IF At(i, "token") THEN Dropped(q[i]) ELSE tokens
    /\ UNCHANGED <<server, curity, changes, minted, discovered, resolved, nonce>>

\* Curity asks for its nonce, refuses, or mints; it may send its nonce with any reply.
Handle(i) ==
    LET r == q[i]
        as == curity[r.sent.to.as]
        Reply(reply, header, token) ==
            Set(i, [r EXCEPT !.pc = "replied", !.reply = reply, !.header = header,
                             !.token = token])
    IN  /\ At(i, "sent") /\ r.sent.to.endpoint = as.endpoint
        /\ \/ /\ r.sent.nonce # as.nonce
              /\ Reply("use_dpop_nonce", as.nonce, r.token)
              /\ UNCHANGED minted
           \/ /\ r.sent.nonce = as.nonce
              /\ \E h \in {0, as.nonce} : Reply("refused", h, r.token)
              /\ UNCHANGED minted
           \/ /\ r.sent.nonce = as.nonce
              /\ minted' = minted + 1
              /\ \E h \in {0, as.nonce} :
                    Reply("issued", h, [user |-> r.user, serial |-> minted + 1, key |-> server.key])
        /\ UNCHANGED <<server, curity, changes, caches, nonce>>

\* Mutant of RetryOnce: no second attempt.
RetryOnce_never(r) == FALSE

\* doExchange: a use_dpop_nonce answer is retried once.
RetryOnce(r) == r.reply = "use_dpop_nonce" /\ ~r.sent.again

\* The nonce of the reply is stored on the key all exchanges share; the second
\* attempt is built with what is there then.
Received(i) ==
    LET r == q[i]
    IN  /\ At(i, "replied")
        /\ nonce' = IF r.header # 0 THEN r.header ELSE nonce
        /\ Set(i, CASE RetryOnce(r) -> [r EXCEPT !.pc = "resend"]
                    [] r.reply = "issued" -> Acquired(r, r.token)
                    [] OTHER -> Failed(r, r.reply))
        /\ tokens' = IF r.reply = "issued"
                     THEN {e \in tokens : e.key # CacheKey(r)}
                             \cup {[key |-> CacheKey(r), token |-> r.token]}
                     ELSE tokens
        /\ UNCHANGED <<server, curity, changes, minted, discovered, resolved>>

Resend(i) ==
    /\ At(i, "resend")
    /\ Set(i, Sent(q[i], TRUE))
    /\ UNCHANGED <<server, curity, changes, minted, caches, nonce>>
-----------------------------------------------------------------------------
(***************************************************************************)
(* The transport (of the MCP SDK) and its 401 seam.                        *)
(***************************************************************************)
\* onUnauthorized: a step-up challenge is passed on, any other 401 acquires again.
Unauthorized(r) ==
    IF r.stepUp THEN Failed(r, "step_up")
    ELSE [r EXCEPT !.pc = "learn", !.forced = TRUE]

Accepts(r) == r.token.key = server.key

\* A request is answered, and the next one sent; the last one answers the question.
Answered(i) ==
    /\ At(i, "request") /\ Accepts(q[i]) /\ ~server.demandsMfa
    /\ Set(i, IF q[i].requests + 1 = MaxRequests
              THEN [Idle EXCEPT !.pc = "done", !.status = 200]
              ELSE [q[i] EXCEPT !.requests = @ + 1, !.retried = FALSE])
    /\ UNCHANGED <<server, curity, changes, minted, caches, nonce>>

\* A 401: the first of a request goes to the provider, the second ends it.
Refused(i) ==
    LET r == q[i]
    IN  /\ At(i, "request")
        /\ ~Accepts(r) \/ server.demandsMfa
        /\ Set(i, IF r.retried THEN Failed(r, "unauthorized")
                  ELSE Unauthorized([r EXCEPT !.retried = TRUE, !.refused = minted,
                                              !.refusedAt = changes + 1,
                                              !.stepUp = Accepts(r)]))
        /\ UNCHANGED <<server, curity, changes, minted, caches, nonce>>

Lost(i) ==
    /\ At(i, "request")
    /\ Set(i, Failed(q[i], "outage"))
    /\ UNCHANGED <<server, curity, changes, minted, caches, nonce>>
-----------------------------------------------------------------------------
(***************************************************************************)
(* Changes of the servers, between any two steps.                          *)
(***************************************************************************)
Doc == [as : Servers, describes : BOOLEAN, scope : {"inspect:read", NoScope}]
Good == {d \in Doc : d.as \in Trusted /\ d.describes /\ d.scope # NoScope}

\* Resource metadata with at most one thing wrong.
Docs == Good \cup UNION {{[d EXCEPT !.as = s] : s \in Foreign}
                            \cup {[d EXCEPT !.describes = FALSE], [d EXCEPT !.scope = NoScope]} :
                         d \in Good}

Change == changes < MaxChanges /\ changes' = changes + 1

Redeploy ==
    /\ Change
    /\ \/ \E doc \in Docs : server' = [server EXCEPT !.doc = doc]
       \/ server' = [server EXCEPT !.key = changes + 1]
       \/ server' = [server EXCEPT !.demandsMfa = TRUE]
    /\ UNCHANGED <<curity, minted, q, caches, nonce>>

Move(s) ==
    /\ Change
    /\ curity' = [curity EXCEPT ![s].endpoint.since = changes + 1]
    /\ UNCHANGED <<server, minted, q, caches, nonce>>

RotateNonce(s) ==
    /\ Change
    /\ curity' = [curity EXCEPT ![s].nonce = changes + 2]
    /\ UNCHANGED <<server, minted, q, caches, nonce>>

Init ==
    /\ server \in [doc : Good, key : {0}, demandsMfa : {FALSE}]
    /\ curity = [s \in Servers |-> [endpoint |-> [of |-> s, since |-> 0], nonce |-> 1]]
    /\ changes = 0 /\ minted = 0
    /\ q = [i \in Questions |-> Idle]
    /\ discovered = None
    /\ resolved = [s \in {} |-> None]
    /\ tokens = {}
    /\ nonce = 0

Next ==
    \/ \E i \in Questions, u \in Users : Begin(i, u)
    \/ \E i \in Questions :
          \/ Cached(i) \/ Learn(i) \/ Unreachable(i) \/ Resolve(i)
          \/ TokenHit(i) \/ Send(i) \/ ExchangeFails(i) \/ Handle(i)
          \/ Received(i) \/ Resend(i)
          \/ Answered(i) \/ Refused(i) \/ Lost(i)
    \/ Redeploy
    \/ \E s \in Servers : Move(s) \/ RotateNonce(s)

Spec == Init /\ [][Next]_vars
-----------------------------------------------------------------------------
(***************************************************************************)
(* Properties.                                                             *)
(***************************************************************************)
\* A user's token is only ever sent to the endpoint of an authorization server
\* the agent trusts, as that server itself published it: whatever the MCP server's
\* metadata say and become, and whichever caches are hit.
ExchangesWithTrusted ==
    \A i \in Questions : q[i].pc \in {"sent", "replied"} =>
        /\ q[i].sent.to.as \in Trusted
        /\ q[i].sent.to.endpoint.of = q[i].sent.to.as

\* A 401 is answered with something new, although other questions keep filling the
\* three caches: both documents are read again, so that the exchange does not go
\* where a cached one points, and the token retried with was minted after the
\* refusal (McpExchangeInput.forced).
ReacquiredFresh ==
    \A i \in Questions : q[i].retried =>
        /\ q[i].pc = "sent" =>
              q[i].d.at >= q[i].refusedAt /\ q[i].d.asAt >= q[i].refusedAt
        /\ q[i].pc = "request" => q[i].token.serial > q[i].refused

\* Unless Curity replaces its nonce, no exchange fails for the nonce, however many
\* share the key and start without one.
NonceAloneNeverFails ==
    (\A s \in Servers : curity[s].nonce = 1) =>
        \A i \in Questions : q[i].cause # "use_dpop_nonce"

\* "Can't-learn is not won't-issue" (architecture.md): 403 is a refusal by Curity,
\* an outage never reads as a denial.
OutageIsNotDenial == \A i \in Questions : q[i].status = 403 => q[i].cause = "refused"
=============================================================================
