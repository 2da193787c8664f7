------------------------------ MODULE ChainView -----------------------------
(***************************************************************************)
(* The on-behalf-of chain the web UI shows: GET /last-token of the         *)
(* copilot, the specialist and the MCP servers.                            *)
(*                                                                         *)
(* Every exchange helper leaves the token it used in a process-global      *)
(* slot.  The copilot's route picks the branch that belongs to the inbound *)
(* token and asks the next service, which answers from its own slots.      *)
(* Flows of several sessions fill the slots concurrently.                  *)
(***************************************************************************)
EXTENDS Naturals, Sequences, FiniteSets, SequencesExt

CONSTANTS Sessions,       \* inbound user tokens (jti)
          Users,          \* who logs in
          MaxSnapshots,   \* answers of services below that the copilot keeps
          MaxFlows,       \* bound: number of /chat requests, and of probes that use the caches
          MaxExtras,      \* bound: tokens acquired again after a 401 and walks that succeed,
          MaxWalks        \* and of these the walks, without and with caching

Curity == INSTANCE Curity

ASSUME ViewAssumption ==
    /\ MaxFlows \in Nat /\ MaxExtras \in Nat /\ MaxWalks \in [BOOLEAN -> Nat]
    /\ MaxSnapshots \in Nat \ {0}

VARIABLES flows,   \* the requests so far: session, path and the exchanges left to do
          slots,   \* per exchange helper, the token it used last
          cache,   \* the agents' exchange caches
          snapshots, \* what the services below answered, per bearer, in the order of `at`
          walks,   \* number of walks that succeeded
          again,   \* number of tokens acquired again after a 401
          probes,  \* number of probes that used the caches
          clock,   \* Date.now(); two stamps may read the same millisecond
          caching, \* TOKEN_EXCHANGE_CACHE_TTL_SECONDS is positive; set at start
          userOf   \* the user each inbound token is for

config == <<caching, userOf>>
vars == <<flows, slots, cache, snapshots, walks, again, probes, clock, config>>
-----------------------------------------------------------------------------
(***************************************************************************)
(* A token is its origin: the session whose login it descends from, the    *)
(* flow that minted it (0 for a probe of /tools) and, for one acquired     *)
(* again after a 401, which of that flow it is.  A helper is named for its *)
(* service and audience.                                                   *)
(***************************************************************************)
\* The exchanges of the two agents come before any tool call, in this order.
ReadPath == <<"copilot/mcp", "copilot/llm">>
PrivilegedPath == <<"copilot/specialist", "specialist/ops", "specialist/inspect",
                    "specialist/llm">>
StepsOf(path) == IF path = "read" THEN ReadPath ELSE PrivilegedPath
Servers(path) == IF path = "read" THEN {"mcp-inspect"} ELSE {"mcp-inspect", "mcp-ops"}
Helpers == Range(ReadPath) \cup Range(PrivilegedPath) \cup Servers("privileged")
CopilotHelpers == {"copilot/mcp", "copilot/llm", "copilot/specialist"}
LlmHelpers == {"copilot/llm", "specialist/llm"}
CachingHelpers == CopilotHelpers \cup LlmHelpers

\* The helpers whose stamp some route compares with another; the other stamps are
\* left out.
Compared == {"copilot/mcp", "copilot/specialist", "specialist/ops"} \cup LlmHelpers

NoSlot == [at |-> 0]
Again(s, f, nth) == [root |-> s, by |-> f, nth |-> nth]
Minted(s, f) == Again(s, f, 0)

Running(f) == ~flows[f].over

\* A time later than every stamp so far.
Later == IF \E h \in Compared : slots[h].at = clock THEN clock + 1 ELSE clock

\* A /chat request begins, later than what was stamped before.  Another of the same
\* session may be under way: a reloaded page or a second tab does not wait for it.
Begin(s, path) ==
    /\ probes + Len(flows) < MaxFlows
    /\ clock' = Later
    /\ flows' = Append(flows, [session |-> s, path |-> path, todo |-> StepsOf(path), root |-> s,
                               over |-> FALSE,
                               after |-> {f \in DOMAIN flows : flows[f].over}])
    /\ UNCHANGED <<slots, cache, snapshots, walks, again, probes, config>>

\* A request is answered: with an error at any step, or when the model is done.
\* (The end of the last request within the bound is left out: nothing tells it from
\* a request that takes no further step.)
End(f) ==
    /\ probes + Len(flows) < MaxFlows
    /\ Running(f)
    /\ flows' = [flows EXCEPT ![f].over = TRUE, ![f].todo = <<>>, ![f].root = flows[f].session]
    /\ UNCHANGED <<slots, cache, snapshots, walks, again, probes, clock, config>>

\* Mutant of CacheKey: shared by all users.
CacheKey_withoutSub(h, s) == <<h>>

\* The sessions of the model are at one acr, the rest of the key is configuration.
CacheKey(h, s) == <<h, userOf[s]>>
Hits(h, s) == {e \in cache : h \in CachingHelpers /\ e.key = CacheKey(h, s)}

\* The token a helper uses: the cached one while its time to live lasts (it may
\* end before any call), or one minted from its subject.
Obtained(h, s, root, f) == {Minted(root, f)} \cup {e.tok : e \in Hits(h, s)}

\* set: the entry of the key is replaced; a time to live of 0 stores nothing.
Stored(h, s, tok) ==
    IF caching /\ h \in CachingHelpers
    THEN {e \in cache : e.key # CacheKey(h, s)} \cup {[key |-> CacheKey(h, s), tok |-> tok]}
    ELSE cache

\* The copilot exchanges the inbound token, the services below what they were sent.
SubjectRoot(f, h) == IF h \in CopilotHelpers THEN flows[f].session ELSE flows[f].root

Stamp(h, s, tok, now) ==
    [slots EXCEPT ![h] = [sub |-> userOf[s], jti |-> s, tok |-> tok,
                          at |-> IF h \in Compared THEN now ELSE 0]]

\* Date.now() at a stamp: the time of the stamp before it, or a later one.
Ticks(h) == IF h \in Compared THEN {clock, Later} ELSE {clock}

\* The next exchange of an agent.  The slot is stamped on a cache hit too, with
\* the jti of the inbound token.
Exchange(f) ==
    LET s == flows[f].session
        h == Head(flows[f].todo)
    IN  /\ Running(f) /\ flows[f].todo # <<>>
        /\ clock' \in Ticks(h)
        /\ \E tok \in Obtained(h, s, SubjectRoot(f, h), f) :
              /\ flows' = [flows EXCEPT ![f].todo = Tail(@),
                                        ![f].root = IF h \in LlmHelpers THEN @ ELSE tok.root]
              /\ slots' = Stamp(h, s, tok, clock')
              /\ cache' = Stored(h, s, tok)
        /\ UNCHANGED <<snapshots, walks, again, probes, config>>

\* The tokens a request presents to the gateway once its toolsets are being opened:
\* the copilot opens its own after the LLM exchange, the specialist before.
Presented(f) ==
    CASE flows[f].path = "read" /\ flows[f].todo = <<>> -> {"copilot/mcp"}
      [] flows[f].path = "privileged" /\ flows[f].todo \in {<<>>, <<"specialist/llm">>} ->
            {"specialist/ops", "specialist/inspect"}
      [] OTHER -> {}

\* onUnauthorized: the gateway answered 401, so the token is exchanged once more,
\* past the cache, and recorded like the first.  When the exchange fails only the
\* cached token is gone.
Reacquire(f, h) ==
    LET s == flows[f].session
        tok == Again(SubjectRoot(f, h), f, again + 1)
    IN  /\ Running(f) /\ h \in Presented(f)
        /\ \/ /\ walks + again < MaxExtras
              /\ again' = again + 1
              /\ clock' \in Ticks(h)
              /\ flows' = [flows EXCEPT ![f].root = tok.root]
              /\ slots' = Stamp(h, s, tok, clock')
              /\ cache' = Stored(h, s, tok)
           \/ /\ cache' = cache \ Hits(h, s)
              /\ UNCHANGED <<flows, slots, again, clock>>
        /\ UNCHANGED <<snapshots, walks, probes, config>>

\* A tool call: the MCP server exchanges what the gateway sent it.  The model
\* calls as many as it likes, in any order.
ToolCall(f, server) ==
    /\ Running(f) /\ flows[f].todo = <<>> /\ server \in Servers(flows[f].path)
    /\ slots' = Stamp(server, flows[f].session, Minted(flows[f].root, f), clock)
    /\ UNCHANGED <<flows, cache, snapshots, walks, again, probes, clock, config>>

\* Mutant of Probe: the probe is recorded like a flow.
Probe_recorded(s, h) ==
    /\ caching => probes + Len(flows) < MaxFlows
    /\ probes' = IF caching THEN probes + 1 ELSE probes
    /\ \E tok \in Obtained(h, s, s, 0) :
          /\ cache' = Stored(h, s, tok)
          /\ slots' = Stamp(h, s, tok, clock)
    /\ UNCHANGED <<flows, snapshots, walks, again, clock, config>>

\* GET /tools uses the same helpers with recordLastExchange: false.
Probe(s, h) ==
    /\ caching => probes + Len(flows) < MaxFlows
    /\ probes' = IF caching THEN probes + 1 ELSE probes
    /\ \E tok \in Obtained(h, s, s, 0) : cache' = Stored(h, s, tok)
    /\ UNCHANGED <<flows, slots, snapshots, walks, again, clock, config>>
-----------------------------------------------------------------------------
(***************************************************************************)
(* The claims of a row.                                                    *)
(***************************************************************************)
\* The exchange that minted a hop's token: the client and the audience.
ClientOf(hop) ==
    CASE hop \in CopilotHelpers -> "copilot"
      [] hop \in {"specialist/ops", "specialist/inspect", "specialist/llm"} -> "specialist"
      [] hop \in {"gateway/mcp-inspect", "gateway/mcp-ops"} -> "agentgateway"
      [] OTHER -> hop
AudienceOf(hop) ==
    CASE hop = "copilot/specialist" -> "agent-specialist"
      [] hop \in LlmHelpers -> "llm-gateway"
      [] hop \in {"copilot/mcp", "specialist/ops", "specialist/inspect"} -> "mcp-gateway"
      [] hop = "gateway/mcp-inspect" -> "mcp-inspect"
      [] hop = "gateway/mcp-ops" -> "mcp-ops"
      [] hop = "mcp-inspect" -> "inspect-api"
      [] hop = "mcp-ops" -> "ops-api"

GatewayHop(h) == IF h = "mcp-ops" THEN "gateway/mcp-ops" ELSE "gateway/mcp-inspect"
AllHops == Helpers \cup {"gateway/mcp-inspect", "gateway/mcp-ops"}

\* The hop whose token a hop's token was exchanged from, on either path.
SubjectHop(hop, path) ==
    CASE hop \in CopilotHelpers -> "inbound"
      [] ClientOf(hop) = "specialist" -> "copilot/specialist"
      [] hop = "gateway/mcp-ops" -> "specialist/ops"
      [] hop = "gateway/mcp-inspect" ->
            IF path = "read" THEN "copilot/mcp" ELSE "specialist/inspect"
      [] hop \in {"mcp-inspect", "mcp-ops"} -> GatewayHop(hop)

\* actChainIds: the act claim of a hop's token, oldest actor first.
ActClaim ==
    [path \in {"read", "privileged"} |-> [hop \in AllHops |->
        LET agents == IF path = "read" \/ hop \in CopilotHelpers THEN <<"copilot">>
                      ELSE <<"copilot", "specialist">>
        IN  CASE hop \in {"gateway/mcp-inspect", "gateway/mcp-ops"} -> Append(agents, "agentgateway")
              [] hop \in {"mcp-inspect", "mcp-ops"} -> agents \o <<"agentgateway", hop>>
              [] OTHER -> agents]]

\* mayActId: the may_act claim.
MayActClaim == [hop \in AllHops |-> Curity!GrantFor(ClientOf(hop), AudienceOf(hop)).mayAct]

\* Which question a token is of.
Origin(tok) == [root |-> tok.root, by |-> tok.by]
Token(s, f) == [root |-> s, by |-> f]

\* The path of the question that minted a token; the copilot's own tokens are
\* the same on both, also those of a probe.
PathOf(tok) == IF tok.by = 0 THEN "read" ELSE flows[tok.by].path

\* decode: a row of the chain, with the note by which an agent marks a leaf.
Row(hop, tok) ==
    [hop |-> hop, tok |-> Origin(tok), act |-> ActClaim[PathOf(tok)][hop],
     mayAct |-> MayActClaim[hop], leaf |-> hop \in LlmHelpers]
InboundRow(s) ==
    [hop |-> "inbound", tok |-> Token(s, 0), act |-> <<>>, mayAct |-> "copilot", leaf |-> FALSE]
-----------------------------------------------------------------------------
(***************************************************************************)
(* The walk.                                                               *)
(***************************************************************************)
Filled(h) == slots[h] # NoSlot

\* selectDownstreamBranch: the slot was stamped for the inbound token.
Belongs(h, s) == Filled(h) /\ slots[h].sub = userOf[s] /\ slots[h].jti = s

ShowInspect(s) ==
    /\ Belongs("copilot/mcp", s)
    /\ Belongs("copilot/specialist", s) =>
          slots["copilot/mcp"].at >= slots["copilot/specialist"].at

ShowSpecialist(s) == Belongs("copilot/specialist", s) /\ ~ShowInspect(s)

\* Mutant of ShowLlm: any leaf of this session.
ShowLlm_anyAge(s) == ShowInspect(s) /\ Belongs("copilot/llm", s)

\* A leaf stamped before the branch belongs to an earlier read flow.
ShowLlm(s) ==
    /\ ShowInspect(s)
    /\ Belongs("copilot/llm", s)
    /\ slots["copilot/llm"].at >= slots["copilot/mcp"].at

Rows(h) == IF Filled(h) THEN <<Row(h, slots[h].tok)>> ELSE <<>>
When(shown, rows) == IF shown THEN rows ELSE <<>>

\* buildChain of an MCP server: the token the gateway minted for its last tool
\* call and the one it was exchanged for, whoever asks.
McpRows(h) == IF Filled(h) THEN <<Row(GatewayHop(h), slots[h].tok), Row(h, slots[h].tok)>> ELSE <<>>

\* fetchDownstreamChain of the specialist: nothing when the server cannot be reached.
McpAnswers(h) == {McpRows(h), <<>>}

\* Mutant of ShowSpecialistLlm: strictly later.
ShowSpecialistLlm_strictly ==
    /\ Filled("specialist/ops") /\ Filled("specialist/llm")
    /\ slots["specialist/llm"].at > slots["specialist/ops"].at

\* selectLlmLeaf: a leaf stamped before the ops:write token is an earlier run's.
ShowSpecialistLlm ==
    /\ Filled("specialist/ops") /\ Filled("specialist/llm")
    /\ slots["specialist/llm"].at >= slots["specialist/ops"].at

\* The specialist answers from its slots, whoever asks: the leaf, the read branch
\* with its walk and the write branch with its walk.
SpecialistRows(inspect, ops) ==
    When(ShowSpecialistLlm, Rows("specialist/llm"))
    \o When(Filled("specialist/inspect"), Rows("specialist/inspect") \o inspect)
    \o When(Filled("specialist/ops"), Rows("specialist/ops") \o ops)

SpecialistAnswers ==
    {SpecialistRows(i, o) : i \in McpAnswers("mcp-inspect"), o \in McpAnswers("mcp-ops")}

\* lastTokenHandler: the rows of the copilot's own slots, the leaf first, and the
\* helper whose token the walk goes on with.
CopilotRows(s) ==
    When(ShowLlm(s), Rows("copilot/llm"))
    \o When(ShowInspect(s), Rows("copilot/mcp"))
    \o When(ShowSpecialist(s), Rows("copilot/specialist"))

Branch(s) == IF ShowInspect(s) THEN "copilot/mcp" ELSE "copilot/specialist"
ShowsBranch(s) == ShowInspect(s) \/ ShowSpecialist(s)

\* What the service below answers when it accepts the bearer; all of it at best.
BelowAnswers(s) == IF ShowInspect(s) THEN {McpRows("mcp-inspect")} ELSE SpecialistAnswers
BelowRows(s) == IF ShowInspect(s) THEN McpRows("mcp-inspect")
                ELSE SpecialistRows(McpRows("mcp-inspect"), McpRows("mcp-ops"))

\* Mutant of SnapshotKey: the service without the bearer.
SnapshotKey_urlOnly(s) == <<Branch(s)>>

\* createDownstreamChainFetcher: the service and the exact bearer.
SnapshotKey(s) == <<Branch(s), slots[Branch(s)].tok>>

\* remember: the key moves to the end of the Map, the entry in the first place is
\* dropped when there are too many.
Remember(key, rows, by) ==
    LET all == {e \in snapshots : e.key # key}
                 \cup {[key |-> key, rows |-> rows, by |-> by, at |-> walks + 1]}
    IN  snapshots' = IF Cardinality(all) > MaxSnapshots
                     THEN {e \in all : \E older \in all : older.at < e.at} ELSE all

\* What is served when the bearer is refused or the service is unreachable.
Snapshot(s) == {e \in snapshots : ShowsBranch(s) /\ e.key = SnapshotKey(s)}
SnapshotRows(s) == IF Snapshot(s) = {} THEN <<>> ELSE (CHOOSE e \in Snapshot(s) : TRUE).rows

\* GET /last-token with a walk that succeeds.  One that fails changes nothing.
Walk(s) ==
    /\ walks < MaxWalks[caching] /\ walks + again < MaxExtras
    /\ ShowsBranch(s)
    /\ \E rows \in BelowAnswers(s) : Remember(SnapshotKey(s), rows, slots[Branch(s)].tok.by)
    /\ walks' = walks + 1
    /\ UNCHANGED <<flows, slots, cache, again, probes, clock, config>>

\* The chain of a response: the inbound token, the copilot's rows, those below.
Chain(s, below) == <<InboundRow(s)>> \o CopilotRows(s) \o When(ShowsBranch(s), below)
ChainsShown(s) ==
    IF ~ShowsBranch(s) THEN {Chain(s, <<>>)}
    ELSE {Chain(s, below) : below \in BelowAnswers(s) \cup {SnapshotRows(s)}}
-----------------------------------------------------------------------------
Init ==
    /\ flows = <<>>
    /\ slots = [h \in Helpers |-> NoSlot]
    /\ cache = {}
    /\ snapshots = {}
    /\ walks = 0
    /\ again = 0
    /\ probes = 0
    /\ clock = 0
    /\ caching \in BOOLEAN
    /\ userOf \in [Sessions -> Users]

Next ==
    \/ \E s \in Sessions, path \in {"read", "privileged"} : Begin(s, path)
    \/ \E f \in DOMAIN flows : End(f)
    \/ \E f \in DOMAIN flows : Exchange(f)
    \/ \E f \in DOMAIN flows : \E h \in Presented(f) : Reacquire(f, h)
    \/ \E f \in DOMAIN flows : \E server \in Servers(flows[f].path) : ToolCall(f, server)
    \/ \E s \in Sessions, h \in {"copilot/mcp", "copilot/specialist"} : Probe(s, h)
    \/ \E s \in Sessions : Walk(s)

Spec == Init /\ [][Next]_vars
-----------------------------------------------------------------------------
(***************************************************************************)
(* Properties.                                                             *)
(***************************************************************************)
\* The hops the copilot itself contributes are the calling user's own, although
\* the slots are shared by all users and, with caching, hold older tokens.
\* Without caching they were minted from the inbound token by a question of this
\* session: neither an earlier login of the user nor a probe of the tools shows
\* up.  (With caching they may: a hit stamps the slot with the jti of the inbound
\* token, whichever login the cached token was minted from.)
TopIsThisSession ==
    \A s \in Sessions : \A r \in Range(CopilotRows(s)) :
        /\ userOf[r.tok.root] = userOf[s]
        /\ ~caching => /\ r.tok.root = s
                       /\ r.tok.by \in {f \in DOMAIN flows : flows[f].session = s}

\* Flow f was answered before flow g began.
Before(f, g) == f \in flows[g].after

\* Without caching, the LLM leaf is shown under the exchange of the same question,
\* never under a later one that failed before the model.  Two questions of one
\* session that overlap are the exception: one's leaf may be shown under the other's
\* exchange, because the stamps are compared and not the questions.
LeafOfItsFlow ==
    ~caching => \A s \in Sessions : \A l, r \in Range(CopilotRows(s)) :
        l.hop = "copilot/llm" => ~Before(l.tok.by, r.tok.by) /\ ~Before(r.tok.by, l.tok.by)

\* Without caching, what is served in place of a refused walk was fetched for the
\* question whose exchange it is displayed under: the memory never reaches back to
\* an earlier one.  (A cached token is one bearer for several questions.)
SnapshotOfItsQuestion ==
    ~caching => \A s \in Sessions : \A e \in Snapshot(s) :
        e.by = slots[Branch(s)].tok.by
=============================================================================
