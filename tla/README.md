# TLA+ verification of the AI-agents delegation demo

The repository shows how a user's authority travels through AI agents: every hop
trades the token it received for a narrower one (RFC 8693 token exchange at Curity,
with a SPIFFE SVID as actor token), so that the API that finally touches the
cluster sees the whole chain of actors, the authentication level and the roles of
the user. This directory holds TLA+ models of the parts that decide, TLC
configurations that check them on small instances, and TLAPS proofs for every
instance of what matters most. Paths below are relative to `src/`.

## 1. Inventory

```
 browser -- web BFF -- agent-copilot --(read)--------------+
                            |                              v
                            +--(privileged, A2A)--> agent-specialist
                                                           |
     LLM <-- agentgateway (/llm) <------- both agents      v
                 agentgateway + exchange-shim --> mcp-inspect --> inspect-api --> K8s
                                             \--> mcp-ops     --> ops-api     --> K8s
 all hops: Curity (token exchange), SPIRE (SVIDs, JWKS)
```

| Component | State it keeps | Operations | What makes it correct |
|---|---|---|---|
| Curity procedures (`k8s/curity/procedures/`) | tokens issued | login, exchange: narrowing, role gate, acr authorizer, actor binding, `may_act`, nested `act` | authority only shrinks; no path but the drawn ones leads to an API |
| Curity's key cache (same file, `JWKS_CACHE`) | per thread: resolver, kids, date | verify actor token, refetch on unknown kid, floor | rotation heals by itself; unknown kids do not drive fetches |
| agentgateway (`k8s/workloads/agentgateway-config.yaml`) | none | external authorization (exchange), HTTP deny rules, MCP rules | order and rules of the two routes |
| exchange-shim (`apps/exchange-shim`) | LRU cache of exchanges, DPoP replay cache | one handler with four awaits | proof of possession before the cache; no dead or foreign token handed out |
| DPoP (`packages/auth-curity/src/dpop.ts`) | jtis seen | verify a proof | a proof is good once within its window |
| MCP OAuth client (`packages/agent-runtime`, `packages/auth-curity/src/exchange.ts`) | metadata caches, token cache, nonce on the DPoP key | discover, resolve, exchange, 401 seam | tokens go to trusted servers only; a 401 is answered with something new |
| agent-copilot (`apps/agent-copilot`) | specialist-token cache, last-exchange slots | POST /chat, GET /tools, GET /last-token | right token for right user and level; truthful answers |
| agent-specialist (`apps/agent-specialist`) | slots, per run: toolsets, step-up sink | A2A execute, GET /tools, GET /last-token | challenges are not lost; runs end; nothing stays open |
| mcp-ops, mcp-inspect, ops-api, inspect-api | last-token slots (MCP servers) | middleware, role gate per tool, exchange, the call | an effect only for who may have it |
| last-token routes (both agents, both MCP servers) | slots of the last exchange per helper, snapshots of answers below | GET /last-token: pick a branch, ask the service below, remember its answer | one question's hops, of the caller's session |
| delegation ledger (`apps/web/src/lib/token-view.ts`, `components/delegation-ledger.tsx`) | none | infer parents, number hops, mark actors, name the flow | what it says of a chain is how the chain came about |
| wire log (`packages/otel-bootstrap/src/wire-log.ts`) | table of traces: last number, tokens expanded | number a call, write its block | numbers in order of sending; references lead somewhere |
| chat page (`apps/web/src/app/chat.tsx`) | React state, sessionStorage | ask, step-up redirect and retry, three panels | one faithful retry; panels explain the answer on screen |

They interact by calls (HTTP, MCP, A2A) and share process-global state between
concurrent requests: the token caches, the metadata caches, the DPoP nonce, the
replay cache, the last-exchange slots, the snapshots and the wire log's table. There is no database and no message
queue: what survives a crash is the session cookie, sessionStorage and the SVID file.

Hard to test, and what the properties aim at (the list with lines is `hazards` in
`PROJECT.json`): awaits between reading and using shared state (clock readings,
caches, closures of a render); a challenge or failure at any of a dozen awaits of a
remediation; caches that answer with what has just failed; an answer that is lost while the work
goes on; a redirect that unmounts
the page in the middle of a request; key rotation seen by the parties in different
orders; and long legal sequences of exchanges nobody drew.

## 2. Modules

`Curity` holds constant operators only (policy, narrowing, minting); `Delegation`
and `Remediation` extend it, `ChainView` takes the `may_act` of a hop from it.
`ExchangeShim` extends `DpopReplay` and composes its steps with the handler's.
`Dialogue` is the abstract specification that `Remediation` implements; `TokenLedger`
extends `ChainView` by the page's reading of its chains. Each `MC*` module instantiates one module for TLC; each
`*Proofs` module holds the theorems about one module and what it extends (`ExchangeShimProofs`
those about `DpopReplay` too, `ChainViewProofs` those about `TokenLedger`).

### Delegation — the chain of exchanges

State: all tokens ever `issued`, tool calls behind the gateway (`requests`), and what
the APIs did (`effects`). Curity is modelled as a server: any client may present any
issued token with any workload's SVID (`Exchange`), which is more than the agents
ever ask for; the results hold however the agents (and the language model) behave.
`Gateway`, `McpOps`, `McpInspect`, `OpsApi`, `InspectApi` are the handlers, each with
its middleware's checks in the code's order. Tokens carry two history fields: the
audiences they went through (`via`) and what the login granted (`login`). `Listed`
and `Callable` are what the tool panel says of each write tool; `PanelMatchesGates`
compares them with what becomes of a call (`CarriedOut`: the gateway's rules, mcp-ops's
role gate, both exchanges, ops-api's middleware).

### DpopReplay and ExchangeShim — the gateway's exchange

`verifyDpopProof` reads the clock, awaits, and compares with that reading: `Begin`
and `Reject`/`Refuse`/`Accept` are separate steps, any number in flight. The replay
cache keeps the order of the Map, as eviction goes by it. `ExchangeShim` adds the
rest of `handleExchange`, cut at its awaits (proof, SVID, Curity, answer), and
`ExchangeCache` with recency and bound. The latency between Curity's minting and
`cache.set` matters (the entry's lifetime starts at the latter), so it is a
parameter; `ShimAssumption` states the relation of latency, skew and lifetimes
under which no dead token is handed out: the deployed values (600 s tokens, 60 s
reuse, 30 s skew, at most 300 s of waiting) satisfy it.

### Remediation and Dialogue — one question to its answer

Per tab a run with a program counter, one step per await, each of which may fail:
the copilot's read route and privileged route, the probe GET /tools, and the
specialist's `execute`/`remediate`. The tabs share the specialist-token cache, and a
tab may be logged in as another user between two questions. mcp-ops may be redeployed
with another required acr at any time, which is how a challenge can arise at any
request of the write toolset. `held` are the MCP clients connected: connecting and
`tools/list` are separate steps, as `openMcpToolset` returns only after both.
`CallFails` is a call that breaks off at any point, after the answer was published
too: the copilot drops the cached token and answers 502, and a specialist that is
alive goes on as one of the `Orphans` (`cancelTask` does nothing), with the token it
holds, changing the cluster for a question the user was told had failed. What the
LLM does is a choice: any number of changes up to `MaxChanges`, any end. The result
of `detectIntent` is a choice of the route.

`Dialogue` is what is promised to the one who asks: per tab, who is logged in at which
level, the question, and the answers it may get. Only users without a write role are
denied, only users with one are challenged (if MFA is missing, or mcp-ops asked for
more), success needs a login at `mfa`, and every question is answered.
`ImplementsDialogue` maps `session` and `run` of Remediation to it and drops the rest;
it is checked as a PROPERTY, with the fairness of Dialogue. `Dialogue!Safety`, the
specification without its fairness, is what `ImplementsDialogueSafety` proves of every instance.

### McpAuth — discovery, exchange, the 401 seam

Each question has a provider; discovery cache, server-metadata cache, token cache
and DPoP nonce are the process's. Between any two steps the MCP server's document or
key may change, Curity's endpoint may move or its nonce rotate. An entry may expire
before any step, so a cache hit is always a choice and never a certainty.

### ActorKeys — SPIRE rotation and the key cache

`getResolver` cut at its fetch: `Verify` (decided from the cache), `Fetch`, `Body`,
`Store` or `FetchFails`. Each of Curity's threads has a cache of its own, emptied by
a config commit. SPIRE (external) signs, renews, rotates and publishes, in either
order; a key is withdrawn once the SVIDs it signed have expired. Without that last
assumption on SPIRE `AcceptedIsServed` would not hold: the cache never forgets a kid.

### ChainView and TokenLedger — the chain on screen

Slots per exchange helper, flows that fill them, the caches that make a slot hold an
older token, probes, and the selection and walk of the four last-token routes, cut
short where a service below does not answer. Any number of questions of one login may
be under way (`Begin` has no guard of that kind, as `POST /chat` has none); one may end
at any step (`End`), and the model calls the tools it likes, in any order (`ToolCall`).
`Reacquire` is the 401 seam as the slots see it: once its toolsets are being opened, a
question exchanges a token again and stamps the slot again, or loses the cached token
when that exchange fails. A stamp is the time of the one before it or a later one, so two
stamps may be equal; a question begins later than everything stamped before it arrived.
Stamps that no route compares are left out (`Compared`). The
copilot remembers the answers below by service and bearer (a set of entries; `at` is
their order in the Map, from which the first is dropped) and serves them when the
walk fails. A token is reduced to its origin (session, flow, and which of the flow's
re-acquired tokens it is); its `act` and
`may_act` claims follow from its hop. `caching` and `userOf` are chosen in `Init`.

`TokenLedger` is the page's side: `FindParentIndex`, numbering, the mark of a new actor
and the name of the flow are functions of the rows alone, and the properties compare
what they infer with where the tokens really came from.

### WireLog — the log of every fetch

A call gets its number when it is sent; its block is written when it has settled, in
any order among those in flight, or is lost because formatting it throws. `traces` is
the Map with its order, from which the trace in the first place is dropped. What a
block shows is the JWTs of the headers and what is rendered of the bodies; a block is
reduced to the tokens it expands and those it refers to by number.

### ChatPage — the page

One tab: React state that a mount resets, the stash that survives it, requests that
carry the panels of the render that sent them, panel loads that overlap.

## 3. Runs

Twelve runs; nine pass, three show a disagreement between the code and what the
repository says of it.

| Run | Module | Bounds | States | Checks |
|---|---|---|---|---|
| `delegation` | MCDelegation | 1 login of any of 3 users, 6 tokens, 1 call at a time | 45 000 | TypeOK, EffectAuthority, NoDetour, PrivilegeConfined, OnlyNarrows, PanelMatchesGates |
| `dpop_replay` | MCDpopReplay | 2 workers, 3 proofs, cache of 2, clock to 2 | 255 000 | NoReplayInWindow, EvictsOnlyWhenFull, NoFalseReplay |
| `exchange_shim` | MCExchangeShim | 2 calls, a bound and an unbound token, both caches of 1 | 413 000 | ProofOfPossession, AnswerIsOwn, AnswerAlive, EveryCallAnswered |
| `remediation` | MCRemediation | 2 tabs, alice and bob in any of them, 3 questions in all (the second tab asks only first), 1 orphan, 1 change per loop, 2 levels of mcp-ops | 314 000 | StepUpHelps, OwnToken, ChangesAreAuthorized, NoFalseSuccess, ProbeTruthful, ToolsetsClosed, LoopChallengeWins, ImplementsDialogue |
| `mcp_auth` | MCMcpAuth | 2 questions, 2 requests each, 2 changes of the servers | 1 530 000 | ExchangesWithTrusted, ReacquiredFresh, NonceAloneNeverFails |
| `actor_keys` | MCActorKeys | 1 thread, 2 keys, floor 3, latency 1, clock to 7 | 2 030 000 | TypeOK, RotationHeals, AcceptedIsServed, FetchRate |
| `chain_view` | MCChainView | 2 logins of 1 or 2 users, 2 flows, of one login or of both; 1 walk or 1 token acquired again, without caching any number of probes, with caching no walk, and 2 flows and probes in all; 1 snapshot | 834 000 | TopIsThisSession, LeafOfItsFlow, SnapshotOfItsQuestion, LedgerFaithful, WholeChain |
| `chat_page` | MCChatPage | 1 read and 1 write prompt, 2 panels, 2 sends | 118 000 | AnswerIsLastAsked, RetryFaithful, PanelFollowsAnswer, SpinnersStop |
| `wire_log` | MCWireLog | 3 traces and calls outside any, a table of 2, 5 calls, 1 token | 987 000 | NumbersFollowSending, RefsResolve, ExpandedOnce |

Each property of these runs has a mutant of a
mapped definition (`X_how` next to `X` in the modules: a key without its acr, a
dropped guard, an early return without its reset) under which TLC finds the property
violated.

Why the bounds are enough to be interesting: six tokens are the five of the full
write path and one detour; a cache of one or two entries evicts at every second
call; two tabs with two users make the shared cache serve another user and an older
level, and a third question retries one whose run goes on as an orphan; three
traces in a table of two drop one at every change of trace, while its calls are in
flight; two changes let a server change again while the first change is being dealt
with; two flows of one login overlap, or one is over before the other begins, which is
all that the comparisons of stamps tell apart; a clock to 7 with a floor of 3 contains a rotation, the floor, the expiry and
the withdrawal of the first key.

### Fairness

Safety runs need none. `exchange_shim`, `remediation` and `chat_page` assume weak
fairness of the steps of a request in progress: an event loop runs every
continuation that is ready, and an awaited request ends with an answer, an error or
the HTTP client's own timeout. Nothing is assumed of users, of redeployments, of
caches expiring, of orphans, or of `CallFails`: the code sets no timeout on the A2A call, so no
property may rest on it. Weak fairness of a disjunction does not choose the happy
branch.

`CHECK_DEADLOCK FALSE` stands in all configurations: clocks, questions and requests
are bounded, and the bounded system stops when they are used up.

### The three disagreements

* `challenge_downgraded` — an RFC 9470 challenge that mcp-ops raises to `connect` or
  `tools/list` is reported as `specialist_failure`: the catch of the opening phase
  (`apps/agent-specialist/src/executor.ts:191`) does not read the sink. The comment
  at line 219 says a genuine challenge must not be downgraded. It takes a redeployed
  mcp-ops (or one configured with another level than the specialist).
* `chat_retries_the_box` — the MFA button stashes the box, not the challenged
  prompt (`apps/web/src/app/chat.tsx:422` against the comment at 114).
* `outage_reads_as_denial` — `/chat` answers 403 to an unreachable token endpoint and
  to a missing SVID (`apps/agent-copilot/src/server.ts:210`), which
  `docs/architecture.md:481-485` rules out. The tool panel does the same: both tools
  routes make every `CurityAuthError` of the exchange a `denied`
  (`apps/agent-copilot/src/tools-route.ts:80-82`,
  `apps/agent-specialist/src/tools-route.ts:84-86`), which the page words as "Curity
  refused the exchange" (`tool-visibility.tsx:170-178`), where a privileged question that
  meets the same outage is answered with a 502. `Remediation` has this as the verdict `outage`, which `Status`
  shows as denied, and `ProbeTruthful` names it as its one exception: with the outages set
  aside, a denied write tier is a user's whose question is denied, and the read tier is
  never denied.

### Observations without a run of their own

* A proof presented exactly at `iat + maxAge` passes the window check
  (`dpop.ts:194`, `>`), while the replay cache forgets it at that instant
  (`dpop.ts:123`, `until > now`): at the closing instant a proof can be accepted
  again. `NoReplayInWindow` is stated for the half-open window.
* `openMcpToolset` leaves its connection open when `tools/list` fails after
  `connect` (`packages/agent-runtime/src/mcp-toolset.ts:110`); the callers only close
  what was returned. `ToolsetsClosed` bounds the damage: one client, of a run that
  failed. It is left open in the runs of the model, too.
* After a call breaks off, the specialist goes on: the user is told that it failed and
  may ask again while the first run still changes the cluster
  (`apps/agent-specialist/src/executor.ts:438`). `ChangesAreAuthorized` and `OwnToken`
  say that it stays within what the question was granted, not that it stops.
* A 401 hides the leaf: the token that is acquired again is stamped again
  (`apps/agent-copilot/src/mcp-client.ts:130`, `apps/agent-specialist/src/mcp-ops-client.ts:78-80`),
  after the model's token, so that the routes take the leaf of the same question for an
  earlier one's (`apps/agent-copilot/src/last-token-route.ts:85`; the comment at 51-53
  says that a leaf stamped earlier belongs to a previous read flow,
  `apps/agent-specialist/src/last-token-route.ts:41-45` that it was minted by an earlier
  run). `WholeChain` names this exception; without it TLC finds the chain that lacks its
  leaf, after two exchanges, a re-acquired token and a tool call.
* Two overlapping questions of one session, from a reloaded page or a second tab, can
  exchange their leaves: the second one's exchange for MCP, then the first one's for the
  model, and the comparison of stamps shows the latter under the former.
  `LeafOfItsFlow` speaks of questions of which one was answered before the other began.
* The routes below the copilot answer `/last-token` from slots of the whole process
  (which the code marks as demo only): after another user's question, a chain can end
  in that user's hops. The properties of the chain therefore speak of the copilot's
  own hops, or of a question no other has disturbed.
* A read question followed by a privileged one whose model calls no inspect tool shows
  the first question's mcp-inspect rows, and the ledger warns of an actor that
  `may_act` did not name, although every exchange was in order
  (`apps/web/src/lib/token-view.ts:143`). `LedgerFaithful` excludes chains of more than
  one question.
* A trace that was dropped from the wire log's table and started again hands out its
  numbers a second time; a call of its first life that settles then can say "same
  token as above" of a token that is expanded in another block. A block whose
  formatting throws is lost, but its tokens count as expanded. `RefsResolve` and
  `ExpandedOnce` name both.
* With caching on, a slot is stamped with the jti of the inbound token although the
  token in it may descend from an earlier login (`apps/agent-copilot/src/mcp-client.ts:90`);
  `TopIsThisSession` is therefore stated for caching off, as the demo is deployed.
* A failing fetch of SPIRE's JWKS does not restart the floor
  (`token-exchange.js:264-270`): during an outage each request with an unknown kid
  fetches again. `FetchRate` speaks of key sets that were stored.
* Abandoning MFA and returning to the page retries the prompt with the old session,
  under a banner that says the user re-authenticated (`chat.tsx:391`);
  `RetryFaithful` excludes that case by its history variable.
* If Curity's nonce rotates between the two attempts of an exchange, the exchange
  fails with `use_dpop_nonce`; `NonceAloneNeverFails` excludes rotation.
* A probe that the specialist's /tools refuses leaves the token in the copilot's cache
  (`apps/agent-copilot/src/tools-route.ts:160`), while a question that fails drops it.
* The specialist's tools route says it passes the same gates in the same order as
  the executor (`apps/agent-specialist/src/tools-route.ts:10-18`); it checks the acr
  before the exchange, the executor after. `ProbeTruthful` shows that the verdicts
  agree for every login the browser can make, but for the outages above.
* When mcp-ops is redeployed between two calls of one loop, the run ends in a
  challenge after it has changed the cluster, and the retry may repeat the change;
  `ChangesAreAuthorized` names this exception.
* The comment at `token-exchange.js:381-384` places the split per tool at mcp-ops
  and "NOT at the agentgateway"; `agentgateway-config.yaml` also has a rule for
  `set_deployment_image`. The model has both.

## 4. Proofs

| Module | Theorems (`THEOREM Spec => ...`) | For every |
|---|---|---|
| `DelegationProofs` | TypeCorrect, ExchangesOnlyNarrow, WritesAuthorized, PrivilegeStaysConfined, ChainIntegrity, PanelIsTruthful | set of users and namespaces, number of logins, tokens and calls |
| `ExchangeShimProofs` (DpopReplay) | AtMostOnceInWindow, FreshProofsPass, ForgetsOnlyWhenFull | number of workers and proofs, window, capacity |
| `ExchangeShimProofs` (ExchangeShim) | ShimImplementsDpop, AnswersNeedProof, AnswersAreOwn, AnswersAreAlive | number of calls, callers, routes and proofs, both capacities, lifetimes, skew, latency |
| `RemediationProofs` | StepUpAlwaysHelps, TokenIsOwn, ChangesAuthorized, SuccessIsTrue, ProbeIsTruthful, ToolsetsAreClosed, LoopChallengeAlwaysWins, ImplementsDialogueSafety | number of tabs, orphans, users, questions and changes, caching on and off, level of mcp-ops |
| `McpAuthProofs` | ExchangesTrusted, ReacquiresFresh, NonceNeverFails | number of questions, users, authorization servers, requests and changes |
| `ActorKeysProofs` | TypeCorrect, RotationAlwaysHeals, OnlyServedKeysOpen, FloorHolds | number of threads and keys, floor, latency, lifetime, skew |
| `ChainViewProofs` (ChainView) | TopIsOwn, LeavesBelong, SnapshotsAreOwn | logins, users, number of requests, re-acquired tokens, probes and walks, size of the snapshot table, caching on and off |
| `ChainViewProofs` (TokenLedger) | LedgerIsFaithful, ChainIsWhole | the same |
| `WireLogProofs` | NumbersInOrder, ReferencesResolve, TokensExpandedOnce | number of traces, calls and tokens, size of the table, both modes |
| `ChatPageProofs` | AnswersLastAsked, RetriesFaithfully, PanelsFollowAnswer | prompts, panels, number of requests and loads |

Assumptions are the `ASSUME`s of the modules: types of the parameters, a floor and a
lifetime that are positive, at least one entry in a cache, tabs that are not orphans,
and `ShimAssumption` (section 2). There are no axioms. Each module names its inductive
invariant `IndInv` (`ShimInv` for the shim; `LedgerInv`, on top of `IndInv`, for the
ledger) and proves `Invariance` from `InitInv` and `NextInv`; the theorems are read off it.
All state and action properties that the passing runs check are proved in this way, for
every value of the constants.

**Delegation.** No safety property is inductive: that ops-api's actor check implies
the documented path depends on how each token came about. `IndInv` therefore says of
every token (`TokenInv`) that it inherited user, level and roles from its login
(`Inherited`) and that the list of its actors and the list of its audiences fit
together hop by hop, each hop a row of the policy that the previous `may_act` allowed
and whose scope cap the remaining scopes passed (`Lineage`); and of every call and
effect which gates it passed. `MintInv` shows the token part once for `Mint`, which
all handlers use. `ChainIntegrity` then reads the path off the actor chain from its
innermost actor outwards (`FirstHop`, `LaterHops`, `HopByHop`). `PanelIsTruthful`
computes the claims along the two paths of a probe from the same facts and compares
the panel's two conditions with the gates of a call.

**DpopReplay.** `Recorded`: an accepted proof is in the cache, or evicted, or its
window is over. The delicate case is a purge by a verification with a newer or an
older clock reading than the acceptance: an entry is dropped only if its `until` is
at most that reading, and readings are at most the clock (part of `TypeOK`). `Room`
is about the size of the cache and is inductive on top of it: positions in the Map are
distinct (`RenumberedDistinct`, `RankGrows`), so at most `MaxEntries` remain (`KeptFits`)
and what falls out had that many younger entries, each an accepted proof of its own
(`EvictionNeedsMany`).

**ExchangeShim.** Every step of the shim is a step of DpopReplay or leaves its
variables alone. That is the refinement `ShimImplementsDpop`, and it is also why
`IndInv` of DpopReplay is part of `ShimInv` without a second proof. On top of it: a
call past the DPoP check is `Cleared` for what it asks; a cache entry is what its key
says and is not served beyond its token's life or `Ttl` after the answer was read
(`Sound`); and a proof the replay cache vouches for is held by one call and has had
no answer (`Once`). `Once` is the interesting part. It is false once a proof was
evicted or has run out (`Gone`), which is exactly what ProofOfPossession excepts.

**Remediation.** `RunInv` says of a run, by its program counter, which token it holds
and which gates it must have passed (`TokenPart`, `RoutePart`, `PrivilegePart`), which
verdicts and answers the gates justify (`VerdictPart`, `AnswerPart`) and which clients
it may hold (`HeldPart`); `EntryInv` says of a cache entry that it is the token some
session's exchange gives. The cache is looked up by user and level only, so the proof
rests on `KeyDetermines`: a session's token is determined by the two. An orphan is a
run like any other, so what is proved of tabs holds of it. `ImplementsDialogueSafety`
shows each step to be one of Dialogue's five or a stutter (`NextImplements`); a run whose
challenge is raised while it has no answer is the only way to `Raise`, and the answers
Dialogue allows follow from `AnswerPart`.

**McpAuth.** `Progress` says of a retried question which of its documents and tokens
are newer than the refusal, by how far it got; a cache may be hit before and after but
not in between, because `forced` is kept until the new token is there. `Calm` follows the
nonce: while no server has replaced its own there is one value, and a second attempt
carries it, whichever question stored it. `Discovery` types what is remembered of a
server by the endpoint that this server published.

**ActorKeys.** What a cached key set lacks was published at most `Latency` before the
set's date (`CacheInv`), because what an answer lacks was published after the fetch
began (`ReqInv`); what it has in excess was withdrawn, so its SVIDs have expired
(`Known`, `Timely`). Steps outside the threads are summarized by `Outside`, so each
thread invariant is proved once for them.

**ChainView.** Tokens pass only between logins of one user (`OneUser`), also through
the caches; a slot is of the login it is stamped for (`SlotOwn`). For the comparisons of
stamps a flow carries the flows that were over when it began (`after`). What one of these
stamped is stamped earlier than now, and than whatever the flow stamps (`Earlier`): a flow
that is over stamps nothing any more, and `Begin` moves the clock. A leaf is stamped after
the token it is compared with, if both are of one flow and that token is its first
(`LeavesAfter`). `LeavesBelong` needs two cases. A leaf that is over before the exchange it
is shown under is excluded by `Earlier`; for an exchange that is over before the leaf's flow
began, `SinceMcp` says that a flow which has exchanged for MCP leaves in the slot its own
token or that of a flow it overlaps with, and that it does so before it exchanges for the
model (`Behind`).

`LedgerInv` adds where the tokens come from. A slot holds a
token minted for a path that uses its helper (`TokensMinted`), so that the `act` and
`may_act` claims of a row follow from its hop; what a walk stored is a well-ordered
answer of the branch in its key, fetched for the question that minted its bearer
(`SnapshotsOK`), which gives `SnapshotsAreOwn`.

**TokenLedger.** No step is involved: the two theorems are about functions of the state
under `LedgerInv`. Every chain that a walk can return, cut short at any service or
completed from memory, is in the order of the ledger and has, with a row, the row it was
exchanged from (`ShownIsGood`). In such a chain of one question the nearest row above
whose actors are all but the newest is the subject's (`NearestIsSubject`, by the two tables
of claims): a leaf that would fit too is shadowed by a nearer row (`LeafIsShadowed`), no
two rows off the leaves have one number (`NumbersDiffer`), and the new actor is the one
that `may_act` named (`NamedNext`); so `RowTrue`. For `ChainIsWhole` the stamps decide:
after a question that used every server and that no other disturbed, the comparisons of
`selectDownstreamBranch` and `selectLlmLeaf` come out for its own branch (`WholeSlots`,
`WholeBranch`), and for its leaf unless the token it is compared with was acquired again;
the rows then are those of its hops (`WholeRows`), as concatenating rows is concatenating
hops (`RowsConcat`, `HopsJoined`).

**WireLog.** The place of a trace in the table is that of its last call (`LastUse`). A call
is counted in the entry of its trace, or as many other traces as the table holds were used
since (`Counted`): a trace is dropped only from the first place of a full table, and then
every other entry's last call came later. That is all of `NumbersFollowSending`. A token
that the table remembers by a number was expanded in a block of this number or in one that
was lost (`TokensJustified`), and what a block expanded is remembered as long as its
trace is (`Remembered`); a block reads and writes this memory in one step, when it is
written. The invariant contains the three properties themselves, as a block written later
must not spoil the references of an earlier one (`Continues`).

**ChatPage.** One request is under way at a time, the last one sent (`OneRequest`); a
prompt is stashed only on the way through Curity (`Stashed`), so one click leads to at
most one retry. A panel left alone since the question was sent has no load in flight
and is open only if the request carries it (`Calm`); once answered, what it shows and
what it still fetches is about the answer (`Explained`).

Only model-checked:

* Liveness (EveryCallAnswered, SpinnersStop, and that Dialogue's questions are answered,
  the part of `ImplementsDialogue` beyond `Dialogue!Safety`): the prover has no support for fairness.
* The three disagreements, which TLC refutes.

## 5. Not modelled

Rendering (the hero stage and its journey, the trace view, the layout of the ledger,
the format of a wire-log block), spans and identity logs, the texts of answers and
prompts, keyword matching of the intent, agent cards and client identity documents,
URL and header parsing, manifests, mesh policies and scripts. A walk of the last-token
routes reads all services in one state; with one walk the snapshot table never drops
an entry, and a walk and a re-acquired token do not meet in one run, nor a walk and the token
caches (the theorems cover all three). ChatPage is one tab: a second one that shares the session cookie is not
there. A service that restarts (and loses its caches) is modelled for Curity's threads
only; elsewhere a restart is a failing step and entries that expire.
Third-party code (Auth.js, the MCP and A2A SDKs, jose, agentgateway itself) is
modelled only as far as the repository's code relies on it. Tokens are not forged:
signature checks hold by construction. See `components` in `PROJECT.json`.

## 6. Plan

Order of the work: the chain of authority (Delegation), the gateway's exchange
(DpopReplay, ExchangeShim), the question (Remediation, Dialogue), its tokens (McpAuth,
ActorKeys), what the user sees (ChainView, TokenLedger, ChatPage) and the operator
(WireLog). All of them exist, are checked and have proofs. What is left is to model more:
a walk in several fetches (ChainView), whose slots may change between two of them; a
second tab that shares the session cookie (ChatPage); intent detection as a pure function.
