---------------------------- MODULE Remediation -----------------------------
(***************************************************************************)
(* One question from the browser to its answer: POST /chat of the copilot  *)
(* (apps/agent-copilot/src/server.ts), its read route, and its privileged  *)
(* route over A2A to the specialist's executor                             *)
(* (apps/agent-specialist/src/executor.ts), with the RFC 9470 step-up that *)
(* sends the user to MFA and retries the prompt; and GET /tools, the probe *)
(* of what this user may do, which takes the same way up to the tools      *)
(* (tools-route.ts of both agents).                                        *)
(*                                                                         *)
(* Every tab runs its questions concurrently with the other tabs.  They    *)
(* share the copilot's cache of specialist tokens.  Each step ends at an   *)
(* await of the code, and each await on another service may fail.  A call  *)
(* that breaks off leaves the specialist working: its run goes on as an    *)
(* orphan.                                                                 *)
(***************************************************************************)
EXTENDS Curity

CONSTANTS Tabs,       \* browser sessions
          Orphans,    \* bound: runs that go on after the copilot's call broke off
          Caching,    \* TOKEN_EXCHANGE_CACHE_TTL_SECONDS is positive
          OpsAcrs,    \* levels mcp-ops is deployed with, one after the other
          MaxChanges, \* bound: changes one LLM loop makes (isStepCount(8))
          MaxAsks     \* bound: a tab asks while fewer questions were asked, by all tabs

ASSUME ConfigAssumption == Caching \in BOOLEAN /\ "mfa" \in OpsAcrs
ASSUME TabsAssumption == Tabs \cap Orphans = {}
ASSUME BoundsAssumption == MaxChanges \in Nat /\ MaxAsks \in [Tabs -> Nat]

VARIABLES session,   \* per tab, the login token the BFF forwards
          asked,     \* number of questions so far
          run,       \* per tab, the question being answered; and the orphans
          cache,     \* specialistExchangeCache: entries [key, tok]
          opsAcr     \* REQUIRED_ACR of the mcp-ops that is running

vars == <<session, asked, run, cache, opsAcr>>
-----------------------------------------------------------------------------
RequiredAcr == "mfa"   \* REQUIRED_ACR of agent-specialist

LoginScopes == {"inspect:read", "llm:invoke"}
PlainLogin(u) == LoginToken(u, "html-form", LoginScopes)

\* The step-up re-authentication: acr_values and the scope of the challenge.
SteppedUp(u) == LoginToken(u, "mfa", LoginScopes \cup {"ops:write"})

MayWrite(u) == AddRoles(u) \cap WriteRoles # {}

ToSpecialist == GrantFor("copilot", "agent-specialist")
CopilotToMcp == GrantFor("copilot", "mcp-gateway")
CopilotToLlm == GrantFor("copilot", "llm-gateway")
SpecialistToMcp == GrantFor("specialist", "mcp-gateway")
SpecialistToLlm == GrantFor("specialist", "llm-gateway")

(***************************************************************************)
(* A run.  tok is the session's token, sp the one for the specialist; held *)
(* are the MCP clients connected; sink is where the StepUpSink was filled  *)
(* ("no" if it was not); out is the RemediationResult or, for a probe, the *)
(* verdict on the write tier and tier the one on the read tier; did counts *)
(* changes of the cluster; ans is what the browser shows: "sorry" is a 200 *)
(* whose text says that the remediation failed.  A verdict that is neither *)
(* ok, step-up nor error is the code of a failed exchange: Curity's, or    *)
(* "outage" for one without an answer of Curity (exchange_failed,          *)
(* invalid_actor, ...).                                                    *)
(***************************************************************************)
NoToken == [sub |-> NoOne]
Fresh(tok, route) ==
    [pc |-> "verify", route |-> route, tok |-> tok, sp |-> NoToken, held |-> {},
     sink |-> "no", out |-> "none", tier |-> "none", did |-> 0, ans |-> "none"]
Idle == [Fresh(NoToken, "read") EXCEPT !.pc = "idle"]

Routes == {"read", "privileged", "probe"}
SpecialistPcs == {"x-verify", "x-discover", "x-ops", "x-inspect", "x-open-r", "x-list-r",
                  "x-open-w", "x-list-w", "x-llm", "x-loop", "x-publish"}

Goto(tab, pc) == run' = [run EXCEPT ![tab].pc = pc]

\* The copilot answers; only privileged answers carry the kinds the browser
\* tells apart, anything else that is not 2xx is a failure.
Answer(tab, ans) == run' = [run EXCEPT ![tab].pc = "answered", ![tab].ans = ans]

\* Mutant of Ended: the failure path closes nothing.
Ended_open(tab, out) ==
    run' = [run EXCEPT ![tab].pc = "x-publish", ![tab].out = out]

\* The client whose tools/list is awaited: openMcpToolset has not returned it, and
\* leaves it open when the list fails.
Unlisted(pc) == CASE pc = "x-list-r" -> {"read"} [] pc = "x-list-w" -> {"write"} [] OTHER -> {}

\* remediate() returns: the toolsets it was given are closed on every path.
Ended(tab, out) ==
    run' = [run EXCEPT ![tab].pc = "x-publish", ![tab].out = out,
                       ![tab].held = @ \cap Unlisted(run[tab].pc)]
-----------------------------------------------------------------------------
(***************************************************************************)
(* The browser and the BFF.                                                *)
(***************************************************************************)
Ask(tab, route) ==
    /\ run[tab].pc \in {"idle", "answered"}
    /\ asked < MaxAsks[tab] /\ asked' = asked + 1
    /\ run' = [run EXCEPT ![tab] = Fresh(session[tab], route)]
    /\ UNCHANGED <<session, cache, opsAcr>>

\* "Authenticate with MFA": a new session token, and the prompt is retried.
StepUp(tab) ==
    /\ run[tab].pc = "answered" /\ run[tab].ans = "step-up"
    /\ asked < MaxAsks[tab] /\ asked' = asked + 1
    /\ session' = [session EXCEPT ![tab] = SteppedUp(session[tab].sub)]
    /\ run' = [run EXCEPT ![tab] = Fresh(SteppedUp(session[tab].sub), "privileged")]
    /\ UNCHANGED <<cache, opsAcr>>

\* The session is over: someone logs in in this tab, with the password only, and
\* the page starts again.
Relogin(tab, u) ==
    /\ run[tab].pc \in {"idle", "answered"}
    /\ session[tab] # PlainLogin(u) /\ asked < MaxAsks[tab]
    /\ session' = [session EXCEPT ![tab] = PlainLogin(u)]
    /\ run' = [run EXCEPT ![tab] = Idle]
    /\ UNCHANGED <<asked, cache, opsAcr>>
-----------------------------------------------------------------------------
(***************************************************************************)
(* The copilot.                                                            *)
(***************************************************************************)

(***************************************************************************)
(* The end of a probe.  The read tier is listed next to the write tier     *)
(* (Promise.all); it shares nothing with it, so that only its verdict is   *)
(* taken here.  Discovery, and the tools/list after the exchange, fail as  *)
(* an error; every CurityAuthError of the exchange is a denial.            *)
(***************************************************************************)
ReadTier(t) ==
    {"error", "outage"}
      \cup IF Granted(CopilotToMcp, "copilot", t, {"inspect:read"})
           THEN {"ok"} ELSE {Refusal(CopilotToMcp, t, {"inspect:read"})}

ProbeEnds(tab, verdict) ==
    \E read \in ReadTier(run[tab].tok) :
        run' = [run EXCEPT ![tab].pc = "answered", ![tab].ans = "tools", ![tab].out = verdict,
                           ![tab].tier = read, ![tab].held = IF verdict = "ok" THEN {} ELSE @]

\* authMiddleware, then detectIntent: privileged prompts never reach the LLM.
Verify(tab) ==
    /\ run[tab].pc = "verify"
    /\ \/ Goto(tab, IF run[tab].route = "read" THEN "mcp" ELSE "lookup")
       \/ Answer(tab, "failed")
    /\ UNCHANGED <<session, asked, cache, opsAcr>>

\* Mutants of CacheKey: without the acr, without the subject.
CacheKey_withoutAcr(t) == <<t.sub>>
CacheKey_withoutSub(t) == <<t.acr>>

\* The varying part of the cache key; audience and scope are configuration.
CacheKey(t) == <<t.sub, t.acr>>

\* Where a question and a probe go with the token for the specialist.
WithToken(r, sp) == [r EXCEPT !.pc = IF r.route = "probe" THEN "p-verify" ELSE "a2a", !.sp = sp]

\* obtainSpecialistToken fails.
NoSpecialistToken(tab, code) ==
    IF run[tab].route = "probe" THEN ProbeEnds(tab, code)
    ELSE Answer(tab, IF code = "access_denied" THEN "denied" ELSE "failed")

\* obtainSpecialistToken: a cached token is used as it is.
Lookup(tab) ==
    LET hits == {e \in cache : e.key = CacheKey(run[tab].tok)}
    IN  /\ run[tab].pc = "lookup"
        /\ IF hits = {} THEN Goto(tab, "mint")
           ELSE \E e \in hits : run' = [run EXCEPT ![tab] = WithToken(@, e.tok)]
        /\ UNCHANGED <<session, asked, cache, opsAcr>>

\* obtainSpecialistToken, the miss: SVID, client identity, exchange, cache.set.
MintSpecialist(tab) ==
    LET t   == run[tab].tok
        sp  == Mint(ToSpecialist, "copilot", t, Scopes)
        key == CacheKey(t)
    IN  /\ run[tab].pc = "mint"
        /\ \/ /\ Granted(ToSpecialist, "copilot", t, Scopes)
              /\ run' = [run EXCEPT ![tab] = WithToken(@, sp)]
              /\ cache' = IF Caching
                          THEN {e \in cache : e.key # key} \cup {[key |-> key, tok |-> sp]}
                          ELSE cache
           \/ /\ ~Granted(ToSpecialist, "copilot", t, Scopes)
              /\ NoSpecialistToken(tab, Refusal(ToSpecialist, t, Scopes))
              /\ UNCHANGED cache
           \/ /\ \E code \in {"outage", "error"} : NoSpecialistToken(tab, code)
              /\ UNCHANGED cache
        /\ UNCHANGED <<session, asked, opsAcr>>

\* An entry outlives its time to live.
Expire(e) ==
    /\ cache' = cache \ {e}
    /\ UNCHANGED <<session, asked, run, opsAcr>>

\* callSpecialist reaches the specialist.
Call(tab) ==
    /\ run[tab].pc = "a2a"
    /\ Goto(tab, "x-verify")
    /\ UNCHANGED <<session, asked, cache, opsAcr>>

\* callSpecialist throws: the specialist cannot be reached, it dies, the connection
\* breaks or the answer is lost.  The cached token is dropped, the browser gets a
\* 502; a specialist that is alive is not told (cancelTask does nothing) and goes on.
Broken(r) == [r EXCEPT !.pc = "answered", !.ans = "failed", !.held = {}]
CallFails(tab) ==
    /\ run[tab].pc \in SpecialistPcs \cup {"a2a", "reply"}
    /\ cache' = {e \in cache : e.key # CacheKey(run[tab].tok)}
    /\ \/ run' = [run EXCEPT ![tab] = Broken(@)]
       \/ /\ run[tab].pc \in SpecialistPcs
          /\ \E o \in Orphans :
                /\ run[o].pc = "idle"
                /\ run' = [run EXCEPT ![tab] = Broken(@), ![o] = run[tab]]
    /\ UNCHANGED <<session, asked, opsAcr>>

\* Nobody waits for the answer of an orphan.
Forget(o) ==
    /\ run[o].pc = "reply"
    /\ run' = [run EXCEPT ![o] = Idle]
    /\ UNCHANGED <<session, asked, cache, opsAcr>>

\* Mutant of Reported: only a failed task counts, an error payload does not.
Reported_byState(out) ==
    CASE out = "step-up" -> "step-up" [] out = "unverified" -> "sorry" [] OTHER -> "ok"

\* callSpecialist and buildPrivilegedAnswer: what the final message means.
Reported(out) ==
    CASE out = "step-up" -> "step-up" [] out = "ok" -> "ok" [] OTHER -> "sorry"

Reply(tab) ==
    /\ run[tab].pc = "reply"
    /\ Answer(tab, Reported(run[tab].out))
    /\ UNCHANGED <<session, asked, cache, opsAcr>>

(***************************************************************************)
(* The read route: mcpAuth.acquire, obtainLlmToken, openMcpToolset,        *)
(* generateText; the toolset is closed in every case.                      *)
(***************************************************************************)
ReadTokens(tab) ==
    LET t == run[tab].tok
    IN  /\ \/ /\ run[tab].pc = "mcp"
              /\ Granted(CopilotToMcp, "copilot", t, {"inspect:read"})
              /\ Goto(tab, "llm")
           \/ /\ run[tab].pc = "llm"
              /\ Granted(CopilotToLlm, "copilot", t, {"llm:invoke"})
              /\ Goto(tab, "open")
           \/ run[tab].pc \in {"mcp", "llm"} /\ Answer(tab, "failed")
        /\ UNCHANGED <<session, asked, cache, opsAcr>>

\* openMcpToolset: connect, then tools/list; a client whose list fails is left open.
ReadToolset(tab) ==
    /\ \/ /\ run[tab].pc = "open"
          /\ run' = [run EXCEPT ![tab].pc = "list", ![tab].held = {"inspect"}]
       \/ run[tab].pc = "list" /\ Goto(tab, "generate")
       \/ run[tab].pc \in {"open", "list"} /\ Answer(tab, "failed")
    /\ UNCHANGED <<session, asked, cache, opsAcr>>

Generate(tab) ==
    /\ run[tab].pc = "generate"
    /\ \E ans \in {"ok", "failed"} :
          run' = [run EXCEPT ![tab].pc = "answered", ![tab].ans = ans, ![tab].held = {}]
    /\ UNCHANGED <<session, asked, cache, opsAcr>>
-----------------------------------------------------------------------------
(***************************************************************************)
(* The specialist.                                                         *)
(***************************************************************************)

\* execute: a token that does not verify fails the task without a message.
XVerify(tab) ==
    /\ run[tab].pc = "x-verify"
    /\ \/ Goto(tab, "x-discover")
       \/ run' = [run EXCEPT ![tab].pc = "reply", ![tab].out = "unverified"]
    /\ UNCHANGED <<session, asked, cache, opsAcr>>

\* The deterministic acr pre-check.
AfterOps(tab) ==
    IF run[tab].sp.acr # RequiredAcr THEN Ended(tab, "step-up") ELSE Goto(tab, "x-inspect")

\* remediate, steps 1 and 2: discovery, the write token, the acr pre-check.
XOps(tab) ==
    LET sp      == run[tab].sp
        granted == Granted(SpecialistToMcp, "specialist", sp, {"ops:write"})
    IN  /\ \/ run[tab].pc = "x-discover" /\ Goto(tab, "x-ops")
           \/ run[tab].pc = "x-ops" /\ granted /\ AfterOps(tab)
           \/ /\ run[tab].pc = "x-ops" /\ ~granted
              /\ Ended(tab, IF Refusal(SpecialistToMcp, sp, {"ops:write"}) = "invalid_scope"
                            THEN "step-up" ELSE "error")
           \/ run[tab].pc \in {"x-discover", "x-ops"} /\ Ended(tab, "error")
        /\ UNCHANGED <<session, asked, cache, opsAcr>>

\* remediate, step 3: the read token and the read toolset.
XRead(tab) ==
    LET sp      == run[tab].sp
        granted == Granted(SpecialistToMcp, "specialist", sp, {"inspect:read"})
    IN  /\ \/ run[tab].pc = "x-inspect" /\ granted /\ Goto(tab, "x-open-r")
           \/ /\ run[tab].pc = "x-inspect" /\ ~granted
              /\ Ended(tab, IF Refusal(SpecialistToMcp, sp, {"inspect:read"}) = "invalid_scope"
                            THEN "step-up" ELSE "error")
           \/ /\ run[tab].pc = "x-open-r"
              /\ run' = [run EXCEPT ![tab].pc = "x-list-r", ![tab].held = {"read"}]
           \/ run[tab].pc = "x-list-r" /\ Goto(tab, "x-open-w")
           \/ run[tab].pc \in {"x-inspect", "x-open-r", "x-list-r"} /\ Ended(tab, "error")
        /\ UNCHANGED <<session, asked, cache, opsAcr>>

\* mcp-ops asks for more authentication (RFC 9470) before it looks at the call.
Challenges(tab) == run[tab].sp.acr # opsAcr

\* The write toolset.  The catch of this phase returns an error whatever the
\* sink holds.
XWrite(tab) ==
    /\ run[tab].pc \in {"x-open-w", "x-list-w"}
    /\ \/ /\ ~Challenges(tab) /\ run[tab].pc = "x-open-w"
          /\ run' = [run EXCEPT ![tab].pc = "x-list-w", ![tab].held = @ \cup {"write"}]
       \/ ~Challenges(tab) /\ run[tab].pc = "x-list-w" /\ Goto(tab, "x-llm")
       \/ /\ Challenges(tab)
          /\ run' = [run EXCEPT ![tab].pc = "x-publish", ![tab].out = "error",
                                ![tab].sink = "opening",
                                ![tab].held = @ \cap Unlisted(run[tab].pc)]
       \/ Ended(tab, "error")
    /\ UNCHANGED <<session, asked, cache, opsAcr>>

XLlm(tab) ==
    /\ run[tab].pc = "x-llm"
    /\ \/ /\ Granted(SpecialistToLlm, "specialist", run[tab].sp, {"llm:invoke"})
          /\ Goto(tab, "x-loop")
       \/ Ended(tab, "error")
    /\ UNCHANGED <<session, asked, cache, opsAcr>>

\* A write call of the LLM loop: done, or challenged, which stops the loop.  One
\* that is refused (a role, the gateway, a transport error the SDK turns into
\* text) changes nothing.
XCall(tab) ==
    /\ run[tab].pc = "x-loop"
    /\ run[tab].sink = "no"
    /\ \/ Challenges(tab) /\ run' = [run EXCEPT ![tab].sink = "loop"]
       \/ /\ ~Challenges(tab) /\ run[tab].did < MaxChanges
          /\ run' = [run EXCEPT ![tab].did = @ + 1]
    /\ UNCHANGED <<session, asked, cache, opsAcr>>

\* Mutant of LoopResult: the model's account of the failure is reported.
LoopResult_ignoringSink(r, out) == out

\* A recorded challenge wins over both ends of the loop.
LoopResult(r, out) == IF r.sink # "no" THEN "step-up" ELSE out

\* runLlm resolves or throws.
XLoopEnds(tab) ==
    /\ run[tab].pc = "x-loop"
    /\ \E out \in {"ok", "error"} : Ended(tab, LoopResult(run[tab], out))
    /\ UNCHANGED <<session, asked, cache, opsAcr>>

\* Mutant of XPublish: an error result leaves the task hanging.
XPublish_notOnError(tab) ==
    /\ run[tab].pc = "x-publish"
    /\ run[tab].out # "error"
    /\ Goto(tab, "reply")
    /\ UNCHANGED <<session, asked, cache, opsAcr>>

\* execute: the final message and status, then bus.finished().
XPublish(tab) ==
    /\ run[tab].pc = "x-publish"
    /\ Goto(tab, "reply")
    /\ UNCHANGED <<session, asked, cache, opsAcr>>

-----------------------------------------------------------------------------
(***************************************************************************)
(* The specialist's GET /tools, and the copilot's call of it.  A call that *)
(* fails leaves the cached token where it is.                              *)
(***************************************************************************)
PVerify(tab) ==
    /\ run[tab].pc = "p-verify"
    /\ Goto(tab, "p-discover") \/ ProbeEnds(tab, "error")
    /\ UNCHANGED <<session, asked, cache, opsAcr>>

\* Mutant of PreCheck: the exchange alone decides.
PreCheck_dropped(tab) == Goto(tab, "p-ops")

\* listOpsTools, step 1.  It comes before the exchange, unlike remediate's.
PreCheck(tab) ==
    IF run[tab].sp.acr # RequiredAcr THEN ProbeEnds(tab, "step-up") ELSE Goto(tab, "p-ops")

\* listOpsTools, step 0.
PDiscover(tab) ==
    /\ run[tab].pc = "p-discover"
    /\ PreCheck(tab) \/ ProbeEnds(tab, "error")
    /\ UNCHANGED <<session, asked, cache, opsAcr>>

\* listOpsTools, step 2: a refusal is reported with Curity's code, and so is an
\* outage with its own.
POps(tab) ==
    LET sp == run[tab].sp
    IN  /\ run[tab].pc = "p-ops"
        /\ \/ /\ Granted(SpecialistToMcp, "specialist", sp, {"ops:write"})
              /\ Goto(tab, "p-open")
           \/ /\ ~Granted(SpecialistToMcp, "specialist", sp, {"ops:write"})
              /\ ProbeEnds(tab, Refusal(SpecialistToMcp, sp, {"ops:write"}))
           \/ \E code \in {"outage", "error"} : ProbeEnds(tab, code)
        /\ UNCHANGED <<session, asked, cache, opsAcr>>

\* listOpsTools, step 3: the toolset is opened, listed and closed.
PList(tab) ==
    /\ run[tab].pc \in {"p-open", "p-list"}
    /\ \/ /\ ~Challenges(tab) /\ run[tab].pc = "p-open"
          /\ run' = [run EXCEPT ![tab].pc = "p-list", ![tab].held = {"write"}]
       \/ ~Challenges(tab) /\ run[tab].pc = "p-list" /\ ProbeEnds(tab, "ok")
       \/ ProbeEnds(tab, "error")
    /\ UNCHANGED <<session, asked, cache, opsAcr>>
-----------------------------------------------------------------------------
\* mcp-ops is redeployed with another REQUIRED_ACR.
Redeploy(acr) ==
    /\ acr # opsAcr
    /\ opsAcr' = acr
    /\ UNCHANGED <<session, asked, run, cache>>
-----------------------------------------------------------------------------
Init ==
    /\ session \in [Tabs -> {PlainLogin(u) : u \in Users}]
    /\ asked = 0
    /\ run = [r \in Tabs \cup Orphans |-> Idle]
    /\ cache = {}
    /\ opsAcr = "mfa"

Specialist(tab) ==
    \/ XVerify(tab)
    \/ XOps(tab)
    \/ XRead(tab)
    \/ XWrite(tab)
    \/ XLlm(tab)
    \/ XCall(tab)
    \/ XLoopEnds(tab)
    \/ XPublish(tab)
    \/ PVerify(tab)
    \/ PDiscover(tab)
    \/ POps(tab)
    \/ PList(tab)

Copilot(tab) ==
    \/ Verify(tab)
    \/ Lookup(tab)
    \/ MintSpecialist(tab)
    \/ Call(tab)
    \/ Reply(tab)
    \/ ReadTokens(tab)
    \/ ReadToolset(tab)
    \/ Generate(tab)

Browser(tab) ==
    \/ \E route \in Routes : Ask(tab, route)
    \/ StepUp(tab)
    \/ \E u \in Users : Relogin(tab, u)

Next ==
    \/ \E tab \in Tabs : Browser(tab)
    \/ \E tab \in Tabs : Copilot(tab)
    \/ \E r \in Tabs \cup Orphans : Specialist(r)
    \/ \E tab \in Tabs : CallFails(tab)
    \/ \E o \in Orphans : Forget(o)
    \/ \E e \in cache : Expire(e)
    \/ \E acr \in OpsAcrs : Redeploy(acr)

Spec == Init /\ [][Next]_vars

\* Every await settles: the awaited service answers or refuses.  Nothing relies
\* on CallFails: the code sets no timeout of its own on the A2A call.
Fairness == \A tab \in Tabs : WF_vars(Copilot(tab) \/ Specialist(tab))

FairSpec == Spec /\ Fairness
-----------------------------------------------------------------------------
(***************************************************************************)
(* Properties.                                                             *)
(***************************************************************************)
Answered(tab) == run[tab].pc = "answered"

\* The specialist asks for MFA only if it can help: the user may write, and the
\* question went out without it.  In particular a user without a write role is
\* told so, and the retry after MFA is never answered with another challenge of
\* its own, whatever the other tabs left in the cache.  (A challenge of mcp-ops,
\* which may be deployed to ask for more, is passed on.)
StepUpHelps ==
    \A tab \in Tabs : Answered(tab) /\ run[tab].ans = "step-up" /\ run[tab].sink = "no" =>
        /\ MayWrite(run[tab].tok.sub)
        /\ run[tab].tok.acr # "mfa"

\* The token that goes to the specialist is the asking user's own, at the level
\* of the session that asked, even when it comes from the cache the tabs and
\* their successive users share.
OwnToken ==
    \A r \in Tabs \cup Orphans : run[r].sp # NoToken =>
        /\ run[r].sp.sub = run[r].tok.sub
        /\ run[r].sp.acr = run[r].tok.acr

\* The cluster is changed only for a question asked at acr=mfa by a user with a
\* write role, and never by a run that was denied or that the specialist
\* answered with a challenge: the automatic retry repeats nothing, unless
\* mcp-ops was redeployed between two calls of the run.  This holds of a run the
\* user believes to have failed and that goes on, too.
ChangesAreAuthorized ==
    \A r \in Tabs \cup Orphans : run[r].did > 0 =>
        /\ run[r].tok.acr = "mfa"
        /\ MayWrite(run[r].tok.sub)
        /\ run[r].ans # "denied"
        /\ run[r].ans = "step-up" => run[r].sink = "loop"

\* A success shown to the user is a success of the executor.
NoFalseSuccess ==
    \A tab \in Tabs :
        Answered(tab) /\ run[tab].route = "privileged" /\ run[tab].ans = "ok" => run[tab].out = "ok"

\* The status of a tier on the panel, of which the user reads "Curity refused the
\* exchange" for every denial.
Status(verdict) == IF verdict \in {"ok", "step-up", "error"} THEN verdict ELSE "denied"

\* The tool panel tells what a remediation would meet, although it passes the
\* gates in another order: it says step-up and ok to the users and at the levels
\* for which the question is challenged and carried out.  It says denied to those
\* to whom the question is denied, never of the read tier, but for one case: an
\* exchange that Curity did not answer is reported as denied too, to anyone and
\* on both tiers, where the question merely fails.
ProbeTruthful ==
    \A tab \in Tabs : Answered(tab) /\ run[tab].ans = "tools" =>
        /\ run[tab].out = "ok" => run[tab].tok.acr = "mfa" /\ MayWrite(run[tab].tok.sub)
        /\ run[tab].out = "step-up" => run[tab].tok.acr # "mfa" /\ MayWrite(run[tab].tok.sub)
        /\ Status(run[tab].out) = "denied" => run[tab].out = "outage" \/ ~MayWrite(run[tab].tok.sub)
        /\ Status(run[tab].tier) = "denied" => run[tab].tier = "outage"

\* Every toolset that openMcpToolset returned is closed when the run is over, on the
\* step-up and failure paths and for an orphan too.  What may stay open is one
\* client, of a run that failed: the one whose tools/list did.
ToolsetsClosed ==
    \A r \in Tabs \cup Orphans : run[r].pc \in {"reply", "answered"} =>
        /\ Cardinality(run[r].held) <= 1
        /\ run[r].held # {} => run[r].out = "error" \/ run[r].ans = "failed"

\* A challenge mcp-ops raises during the LLM loop reaches the user as a
\* challenge, whatever the model makes of it and however the loop ends.
LoopChallengeWins ==
    \A tab \in Tabs : run[tab].sink = "loop" /\ run[tab].out # "none" => run[tab].out = "step-up"

\* What the executor promises of a genuine challenge: it is not downgraded to a
\* generic failure, wherever the intercepting fetch met it.
ChallengeNotDowngraded ==
    \A tab \in Tabs : run[tab].sink # "no" /\ run[tab].out # "none" => run[tab].out = "step-up"

\* The dialogue a tab has: the part of its run the user sees.
QuestionOf(r) ==
    IF r.pc = "idle" THEN [answer |-> "idle"]
    ELSE [by |-> [sub |-> r.tok.sub, acr |-> r.tok.acr], route |-> r.route,
          raised |-> r.sink # "no", answer |-> r.ans]

Asking == INSTANCE Dialogue
    WITH login <- [tab \in Tabs |-> [sub |-> session[tab].sub, acr |-> session[tab].acr]],
         question <- [tab \in Tabs |-> QuestionOf(run[tab])]

\* All of the services, caches and failures implement the dialogue: every answer
\* is one the asking user may get at the level of the login that asked, the retry
\* after MFA included, and every question is answered.
ImplementsDialogue == Asking!Spec
=============================================================================
