------------------------------ MODULE ChatPage ------------------------------
(***************************************************************************)
(* The chat page of the web app in one browser tab (chat.tsx): asking the  *)
(* copilot, the MFA step-up redirect that remounts the page and retries    *)
(* the prompt, and the panels that explain an answer.                      *)
(*                                                                         *)
(* React state is lost on every mount; sessionStorage (stash) and the      *)
(* session cookie (session) survive it.  A function that awaits keeps the  *)
(* state of the render it was created in: a request carries the panels     *)
(* that were open when it was sent.                                        *)
(***************************************************************************)
EXTENDS Naturals, FiniteSets

CONSTANTS Reads, Writes,          \* prompts of the two tiers
          DefaultPrompt, Blank,   \* DEFAULT_PROMPT; a box of white space
          Panels,                 \* of "svids", "obo" and "tools"
          MaxSends,               \* bound: requests sent
          MaxLoads                \* bound: panel loads under way at a click

ASSUME ChatAssumption ==
    /\ Reads \cap Writes = {}
    /\ DefaultPrompt \in Reads
    /\ Blank \notin Reads \cup Writes
    /\ Panels \subseteq {"svids", "obo", "tools"}
    /\ {MaxSends, MaxLoads} \subseteq Nat

VARIABLES place,       \* what the tab displays: "cards", "chat" or "curity"
          session,     \* the session cookie: the acr of its access token
          stash,       \* sessionStorage: the prompt kept over a step-up
          page,        \* React state of the Ask card
          panels,      \* React state of the panels
          reqs,        \* POSTs of /api/agent under way
          loads,       \* panel fetches under way
          runs,        \* runs the copilot has served this session
          sent,        \* requests sent so far
          clicks,      \* history: clicks on "Authenticate with MFA"
          retries,     \* history: prompts retried on return
          challenged,  \* history: the prompt challenged last
          strayed,     \* history: the box was edited, or MFA abandoned, since
          gesture,     \* history: the last click on each panel
          calm         \* history: panels left alone since the last send

history == <<clicks, retries, challenged, strayed>>
vars == <<place, session, stash, page, panels, reqs, loads, runs, sent, history, gesture, calm>>
-----------------------------------------------------------------------------
Prompts == Reads \cup Writes
NoStash == [message |-> Blank, retry |-> FALSE]
NoAnswer == [run |-> 0]

\* flowOf: the response names its route, which the prompt decided.
FlowOf(prompt) == IF prompt \in Writes THEN "privileged" ELSE "read"

FreshPage == [box |-> DefaultPrompt, loading |-> FALSE, response |-> NoAnswer,
              error |-> "none", stepUp |-> FALSE, mfaReturn |-> FALSE]

\* A panel is open while it has data; what it shows: the flow of the identities,
\* the run of the chain.
FreshPanels ==
    [p \in Panels |-> [open |-> FALSE, error |-> FALSE, loading |-> FALSE,
                       shows |-> IF p = "svids" THEN "none" ELSE 0]]

Open == {p \in Panels : panels[p].open}
LoadsOf(p) == {l \in loads : l.panel = p}
Busy == {p \in Panels : panels[p].loading \/ LoadsOf(p) # {}}
-----------------------------------------------------------------------------
(***************************************************************************)
(* Asking.                                                                 *)
(***************************************************************************)
\* submit, up to its await.  A blank prompt is not sent.  A new request clears
\* what the previous one left, and the MFA banner unless it is the retry.
Submitted(pg, prompt, fromStepUp) ==
    IF prompt = Blank THEN pg
    ELSE [pg EXCEPT !.loading = TRUE, !.response = NoAnswer, !.error = "none",
                    !.stepUp = FALSE, !.mfaReturn = fromStepUp]

Request(prompt, open, fromStepUp) ==
    IF prompt = Blank THEN {}
    ELSE {[run |-> sent + 1, prompt |-> prompt, open |-> open, verdict |-> "none",
           fromStepUp |-> fromStepUp]}

\* Typing in the box, or a click on a suggestion.
Type(prompt) ==
    /\ place = "chat"
    /\ page' = [page EXCEPT !.box = prompt]
    /\ UNCHANGED <<place, session, stash, panels, reqs, loads, runs, sent, history, gesture, calm>>

\* Mutant of CanSend: the button is not disabled while a request is under way.
CanSend_whileLoading == page.box # Blank

\* The condition of the Send button and of Cmd-Enter.
CanSend == ~page.loading /\ page.box # Blank

Send ==
    /\ place = "chat" /\ sent < MaxSends
    /\ CanSend
    /\ page' = Submitted(page, page.box, FALSE)
    /\ reqs' = reqs \cup Request(page.box, Open, FALSE)
    /\ sent' = sent + 1
    /\ calm' = Panels \ Busy
    /\ UNCHANGED <<place, session, stash, panels, loads, runs, history, gesture>>

\* What POST /api/agent passes on of the copilot's answer, and how
\* classifyAgentFailure reads it.  A privileged prompt needs acr=mfa.
Verdicts(prompt) ==
    IF prompt \in Writes /\ session # "mfa" THEN {"step-up", "denied", "failed"}
    ELSE {"answer", "denied", "failed"}

\* The copilot serves a request; its tokens are the chain from now on.
Serve(r) ==
    /\ r.verdict = "none"
    /\ \E v \in Verdicts(r.prompt) : reqs' = (reqs \ {r}) \cup {[r EXCEPT !.verdict = v]}
    /\ runs' = r.run
    /\ UNCHANGED <<place, session, stash, page, panels, loads, sent, history, gesture, calm>>
-----------------------------------------------------------------------------
(***************************************************************************)
(* Panels.                                                                 *)
(***************************************************************************)
\* Mutant of SvidFlowToShow: the flow of the answer on screen, for a refresh too.
SvidFlowToShow_onScreen(response, override) ==
    IF response = NoAnswer THEN "none" ELSE FlowOf(response.prompt)

\* svidFlowToShow: the flow a new answer passes, else that of the answer on screen.
SvidFlowToShow(response, override) ==
    IF override # "none" THEN override
    ELSE IF response = NoAnswer THEN "none" ELSE FlowOf(response.prompt)

\* The panel while it is fetched.  Without a flow nothing is: the identities
\* panel opens and says so.
Loading(p, flow) ==
    IF p = "svids" /\ flow = "none"
    THEN [open |-> TRUE, error |-> FALSE, loading |-> FALSE, shows |-> "none"]
    ELSE [panels[p] EXCEPT !.open = FALSE, !.error = FALSE, !.loading = TRUE]

\* Tells apart the fetches of one panel.
FreeId == CHOOSE i \in 1..(MaxLoads + MaxSends) : \A l \in loads : l.id # i

\* loadSvids, loadObo, loadTools up to their await, for a set of panels.
Fetches(ps, flow) ==
    {[id |-> FreeId, panel |-> p, flow |-> flow, since |-> runs] :
        p \in {q \in ps : q # "svids" \/ flow # "none"}}

\* A click on Show or Refresh.
Show(p) ==
    LET flow == SvidFlowToShow(page.response, "none")
    IN  /\ place = "chat" /\ Cardinality(loads) < MaxLoads
        /\ ~panels[p].loading
        /\ panels' = [panels EXCEPT ![p] = Loading(p, flow)]
        /\ loads' = loads \cup Fetches({p}, flow)
        /\ gesture' = [gesture EXCEPT ![p] = "show"]
        /\ calm' = IF page.loading THEN calm \ {p} ELSE calm
        /\ UNCHANGED <<place, session, stash, page, reqs, runs, sent, history>>

\* A click on Hide, offered while the panel has something to hide.
Hide(p) ==
    /\ place = "chat"
    /\ (panels[p].open \/ panels[p].error) /\ ~panels[p].loading
    /\ panels' = [panels EXCEPT ![p].open = FALSE, ![p].error = FALSE]
    /\ gesture' = [gesture EXCEPT ![p] = "hide"]
    /\ calm' = IF page.loading THEN calm \ {p} ELSE calm
    /\ UNCHANGED <<place, session, stash, page, reqs, loads, runs, sent, history>>

\* A fetch of a panel is answered: the chain is of a run served since it began.
Loaded(l) ==
    /\ \E run \in l.since..runs :
          panels' = [panels EXCEPT ![l.panel] =
                        [@ EXCEPT !.open = TRUE, !.loading = FALSE,
                                  !.shows = CASE l.panel = "svids" -> l.flow
                                              [] l.panel = "obo" -> run
                                              [] OTHER -> 0]]
    /\ loads' = loads \ {l}
    /\ UNCHANGED <<place, session, stash, page, reqs, runs, sent, history, gesture, calm>>

\* It fails: with a status the data stay, when the chain's fetch throws they go.
LoadFailed(l) ==
    /\ \E thrown \in BOOLEAN :
          panels' = [panels EXCEPT ![l.panel].error = TRUE, ![l.panel].loading = FALSE,
                                   ![l.panel].open = @ /\ ~(thrown /\ l.panel = "obo")]
    /\ loads' = loads \ {l}
    /\ UNCHANGED <<place, session, stash, page, reqs, runs, sent, history, gesture, calm>>
-----------------------------------------------------------------------------
(***************************************************************************)
(* The end of a request.                                                   *)
(***************************************************************************)
\* panelsToRefresh: the ones open in the render that sent the request.
PanelsToRefresh(open) == open

\* Mutant of Shown: the early return skips setLoading(false).
Shown_withoutFinally(r) ==
    CASE r.verdict = "answer" ->
            [page EXCEPT !.response = [run |-> r.run, prompt |-> r.prompt], !.loading = FALSE]
      [] r.verdict = "step-up" -> [page EXCEPT !.stepUp = TRUE]
      [] OTHER -> [page EXCEPT !.error = r.verdict, !.loading = FALSE]

\* submit after its await: the answer (or error, or challenge) is displayed.
Shown(r) ==
    CASE r.verdict = "answer" ->
            [page EXCEPT !.response = [run |-> r.run, prompt |-> r.prompt], !.loading = FALSE]
      [] r.verdict = "step-up" -> [page EXCEPT !.stepUp = TRUE, !.loading = FALSE]
      [] OTHER -> [page EXCEPT !.error = r.verdict, !.loading = FALSE]

\* An answer refreshes panels, passing its flow (which then decides).
Settle(r) ==
    LET refresh == IF r.verdict = "answer" THEN PanelsToRefresh(r.open) ELSE {}
        flow == SvidFlowToShow(NoAnswer, FlowOf(r.prompt))
    IN  /\ r.verdict # "none"
        /\ page' = Shown(r)
        /\ reqs' = reqs \ {r}
        /\ panels' = [p \in Panels |-> IF p \in refresh THEN Loading(p, flow) ELSE panels[p]]
        /\ loads' = loads \cup Fetches(refresh, flow)
        /\ challenged' = IF r.verdict = "step-up" THEN r.prompt ELSE challenged
        /\ UNCHANGED <<place, session, stash, runs, sent, clicks, retries, strayed, gesture, calm>>

\* fetch rejects, before or after the copilot served the request.
NetworkError(r) ==
    /\ page' = Shown([r EXCEPT !.verdict = "failed"])
    /\ reqs' = reqs \ {r}
    /\ UNCHANGED <<place, session, stash, panels, loads, runs, sent, history, gesture, calm>>
-----------------------------------------------------------------------------
(***************************************************************************)
(* Mounting the page, and leaving it.                                      *)
(***************************************************************************)
\* Mutant of TakeStepUpReturn: the keys are not removed.
TakeStepUpReturn_kept == stash

\* takeStepUpReturn: what remains in sessionStorage once the page has read it.
TakeStepUpReturn == NoStash

\* The prompt the effect submits.
RetryPrompt == stash.message

NoPanels ==
    /\ panels' = FreshPanels /\ loads' = {}
    /\ gesture' = [p \in Panels |-> "none"] /\ calm' = Panels

\* The page goes, and with it what it was waiting for.
Leave(to) ==
    /\ place' = to
    /\ page' = FreshPage /\ reqs' = {}
    /\ NoPanels

\* The first render and its effect: a stashed prompt is restored and retried.
Mount(s) ==
    /\ place' = "chat" /\ session' = s
    /\ NoPanels
    /\ IF stash.retry
       THEN LET pg == [FreshPage EXCEPT !.box = stash.message, !.mfaReturn = TRUE]
                new == Request(RetryPrompt, {}, TRUE)
            IN  /\ page' = Submitted(pg, RetryPrompt, TRUE)
                /\ reqs' = new
                /\ sent' = sent + Cardinality(new)
                /\ retries' = retries + 1
       ELSE page' = FreshPage /\ reqs' = {} /\ UNCHANGED <<sent, retries>>
    /\ stash' = TakeStepUpReturn

\* A login at the persona cards, with the default acr_values.
Login ==
    /\ place = "cards" /\ sent < MaxSends
    /\ Mount("html-form")
    /\ runs' = 0
    /\ UNCHANGED <<clicks, challenged, strayed>>

SignOut ==
    /\ place = "chat"
    /\ Leave("cards")
    /\ UNCHANGED <<session, stash, runs, sent, history>>

Reload ==
    /\ place = "chat" /\ sent < MaxSends
    /\ Mount(session)
    /\ UNCHANGED <<runs, clicks, challenged, strayed>>

\* "Authenticate with MFA": stash what is in the box and leave for Curity.
MfaClick ==
    /\ place = "chat" /\ page.stepUp /\ sent < MaxSends
    /\ stash' = [message |-> page.box, retry |-> TRUE]
    /\ Leave("curity")
    /\ clicks' = clicks + 1
    /\ strayed' = (page.box # challenged)
    /\ UNCHANGED <<session, runs, sent, retries, challenged>>

\* The code is entered and the callback returns to the page with a new session.
MfaDone ==
    /\ place = "curity"
    /\ Mount("mfa")
    /\ runs' = 0
    /\ UNCHANGED <<clicks, challenged, strayed>>

\* The user gives up and returns to the page with the session there was.
MfaAbandon ==
    /\ place = "curity"
    /\ strayed' = TRUE
    /\ Mount(session)
    /\ UNCHANGED <<runs, clicks, challenged>>
-----------------------------------------------------------------------------
Init ==
    /\ place = "cards" /\ session = "none"
    /\ stash = NoStash
    /\ page = FreshPage /\ panels = FreshPanels
    /\ reqs = {} /\ loads = {}
    /\ runs = 0 /\ sent = 0
    /\ clicks = 0 /\ retries = 0 /\ challenged = Blank /\ strayed = FALSE
    /\ gesture = [p \in Panels |-> "none"] /\ calm = Panels

Next ==
    \/ Login \/ SignOut \/ Reload
    \/ MfaClick \/ MfaDone \/ MfaAbandon
    \/ \E prompt \in Prompts \cup {Blank} : Type(prompt)
    \/ Send
    \/ \E r \in reqs : Serve(r) \/ Settle(r) \/ NetworkError(r)
    \/ \E p \in Panels : Show(p) \/ Hide(p)
    \/ \E l \in loads : Loaded(l) \/ LoadFailed(l)

Spec == Init /\ [][Next]_vars

\* The copilot serves, and the browser settles every fetch; the user need do nothing.
FairSpec ==
    /\ Spec
    /\ WF_vars(\E r \in reqs : Serve(r))
    /\ WF_vars(\E r \in reqs : Settle(r) \/ NetworkError(r))
    /\ \A p \in Panels : WF_vars(\E l \in LoadsOf(p) : Loaded(l) \/ LoadFailed(l))
-----------------------------------------------------------------------------
(***************************************************************************)
(* Properties.                                                             *)
(***************************************************************************)
\* The answer on screen is that of the request sent last, and while a request is
\* under way the page says so (the loading guard of Send and of Cmd-Enter).
AnswerIsLastAsked ==
    /\ page.response # NoAnswer => page.response.run = sent
    /\ reqs # {} => page.loading

\* The handshake of step-up-return.ts: one click on "Authenticate with MFA" retries
\* at most once, however often the page is mounted; and unless the user edits the
\* box in between or abandons MFA, the request sent on return is the challenged one
\* and goes out at acr=mfa.
RetryFaithful ==
    /\ retries <= clicks
    /\ \A r \in reqs : r.fromStepUp /\ ~strayed => r.prompt = challenged /\ session = "mfa"

ShowsAnswer(p) ==
    CASE p = "svids" -> panels[p].shows = FlowOf(page.response.prompt)
      [] p = "obo" -> panels[p].shows = page.response.run
      [] OTHER -> TRUE

\* Nothing opens by itself (panelsToRefresh): a panel with data was asked for
\* since the page was mounted, whatever fetches overlap.  And it explains the
\* answer on screen, unless it was clicked while the question was under way or
\* still loading when it was sent.
PanelFollowsAnswer ==
    \A p \in Open :
        /\ gesture[p] # "none"
        /\ p \in calm /\ page.response # NoAnswer => ShowsAnswer(p)

\* Every spinner stops: of a request whatever its verdict, and of every panel.
SpinnersStop ==
    /\ page.loading ~> ~page.loading
    /\ \A p \in Panels : panels[p].loading ~> ~panels[p].loading

\* What chat.tsx says of its effect: it retries the prompt the user submitted
\* before the step-up redirect.
RetriesChallenged == \A r \in reqs : r.fromStepUp => r.prompt = challenged
=============================================================================
