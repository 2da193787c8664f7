--------------------------- MODULE ChatPageProofs ---------------------------
(***************************************************************************)
(* Proofs about ChatPage, for any prompts, any of the three panels and any *)
(* number of requests and panel loads.                                     *)
(***************************************************************************)
EXTENDS ChatPage, FiniteSetTheorems, TLAPS

Ask == [run : Nat, prompt : Prompts, open : SUBSET Panels, fromStepUp : BOOLEAN,
        verdict : {"none", "answer", "step-up", "denied", "failed"}]
Answered == [run : Nat, prompt : Prompts]
Page == [box : Prompts \cup {Blank}, loading : BOOLEAN, response : {NoAnswer} \cup Answered,
         error : {"none", "denied", "failed"}, stepUp : BOOLEAN, mfaReturn : BOOLEAN]
Flows == {"none", "read", "privileged"}
Panel == [open : BOOLEAN, error : BOOLEAN, loading : BOOLEAN, shows : Flows \cup Nat]

TypeOK ==
    /\ stash \in [message : Prompts \cup {Blank}, retry : BOOLEAN]
    /\ page \in Page
    /\ panels \in [Panels -> Panel]
    /\ reqs \subseteq Ask
    /\ \A l \in loads : l.panel \in Panels /\ l.flow \in Flows /\ l.since \in Nat
    /\ runs \in Nat /\ sent \in Nat /\ clicks \in Nat /\ retries \in Nat
    /\ gesture \in [Panels -> {"none", "show", "hide"}]
    /\ calm \subseteq Panels

\* One request at a time, the last one sent; it is what the copilot served last
\* once it has a verdict, and the page has no answer meanwhile.
OneRequest ==
    \A r \in reqs :
        /\ reqs = {r} /\ r.run = sent
        /\ r.verdict # "none" => runs = r.run
        /\ page.loading /\ page.response = NoAnswer

\* The answer on screen is of the last request, and of the copilot's last run.
Current == page.response # NoAnswer => page.response.run = sent /\ page.response.run = runs

\* A prompt is stashed only on the way through Curity, and is the challenged one
\* unless the user strayed.
Stashed ==
    IF place = "curity"
    THEN /\ stash.retry /\ retries + 1 <= clicks /\ reqs = {}
         /\ ~strayed => stash.message = challenged
    ELSE ~stash.retry /\ retries <= clicks

Retried == \A r \in reqs : r.fromStepUp /\ ~strayed => r.prompt = challenged /\ session = "mfa"

\* Panels are open, fetched or about to be refreshed because of a click.
AskedFor ==
    /\ \A p \in Open : gesture[p] # "none"
    /\ \A l \in loads : gesture[l.panel] # "none"
    /\ \A r \in reqs : \A p \in r.open : gesture[p] # "none"

\* While a request is under way, a panel left alone is as it was when it was sent.
Calm == \A r \in reqs : \A p \in calm : LoadsOf(p) = {} /\ (p \in Open => p \in r.open)

\* Once it is answered, what such a panel shows or fetches is about the answer.
Explained ==
    page.response # NoAnswer =>
        \A p \in calm :
            /\ p \in Open => ShowsAnswer(p)
            /\ \A l \in LoadsOf(p) :
                  l.since = page.response.run
                  /\ (p = "svids" => l.flow = FlowOf(page.response.prompt))

\* The inductive invariant.
IndInv ==
    /\ TypeOK /\ OneRequest /\ Current /\ Stashed /\ Retried
    /\ AskedFor /\ Calm /\ Explained
-----------------------------------------------------------------------------
\* Blank is no prompt, and a page just mounted has no answer.
LEMMA Fresh ==
    /\ Blank \notin Prompts /\ DefaultPrompt \in Prompts
    /\ FreshPage \in Page /\ FreshPage.loading = FALSE /\ FreshPage.response = NoAnswer
    /\ NoStash \in [message : Prompts \cup {Blank}, retry : BOOLEAN] /\ NoStash.retry = FALSE
    /\ FreshPanels \in [Panels -> Panel] /\ \A p \in Panels : FreshPanels[p].open = FALSE
<1>1. Blank \notin Prompts /\ DefaultPrompt \in Prompts
  BY ChatAssumption DEF Prompts
<1>2. FreshPage \in Page /\ FreshPage.loading = FALSE /\ FreshPage.response = NoAnswer
  BY <1>1 DEF FreshPage, Page
<1>3. NoStash \in [message : Prompts \cup {Blank}, retry : BOOLEAN] /\ NoStash.retry = FALSE
  BY DEF NoStash
<1>4. ASSUME NEW p \in Panels PROVE FreshPanels[p] \in Panel /\ FreshPanels[p].open = FALSE
  <2>1. (IF p = "svids" THEN "none" ELSE 0) \in Flows \cup Nat
    BY DEF Flows
  <2> QED BY <2>1 DEF FreshPanels, Panel
<1>5. FreshPanels = [p \in Panels |-> FreshPanels[p]]
  BY DEF FreshPanels
<1> QED BY <1>1, <1>2, <1>3, <1>4, <1>5

\* What submit does to the page before its await.
LEMMA SubmittedFacts ==
    ASSUME NEW pg \in Page, NEW prompt \in Prompts, NEW f \in BOOLEAN
    PROVE  /\ Submitted(pg, prompt, f) \in Page
           /\ Submitted(pg, prompt, f).loading = TRUE
           /\ Submitted(pg, prompt, f).response = NoAnswer
<1> DEFINE q == [pg EXCEPT !.loading = TRUE, !.response = NoAnswer, !.error = "none",
                           !.stepUp = FALSE, !.mfaReturn = f]
<1>1. Submitted(pg, prompt, f) = q
  BY Fresh DEF Submitted
<1>2. q \in Page /\ q.loading = TRUE /\ q.response = NoAnswer
  BY DEF Page
<1> QED BY <1>1, <1>2

\* The request that submit sends.
LEMMA RequestFacts ==
    ASSUME sent \in Nat, NEW prompt \in Prompts, NEW open \in SUBSET Panels, NEW f \in BOOLEAN
    PROVE  \E r \in Ask : /\ Request(prompt, open, f) = {r}
                          /\ r.run = sent + 1 /\ r.prompt = prompt /\ r.open = open
                          /\ r.verdict = "none" /\ r.fromStepUp = f
<1> DEFINE r == [run |-> sent + 1, prompt |-> prompt, open |-> open, verdict |-> "none",
                 fromStepUp |-> f]
<1>1. r \in Ask
  BY DEF Ask
<1>2. Request(prompt, open, f) = {r}
  BY Fresh DEF Request
<1> QED BY <1>1, <1>2

\* What submit does to the page after its await.
LEMMA ShownFacts ==
    ASSUME page \in Page, NEW r \in Ask, r.verdict # "none"
    PROVE  /\ Shown(r) \in Page /\ Shown(r).loading = FALSE
           /\ r.verdict = "answer" => Shown(r).response = [run |-> r.run, prompt |-> r.prompt]
           /\ r.verdict # "answer" => Shown(r).response = page.response
<1>1. CASE r.verdict = "answer"
  <2> DEFINE q == [page EXCEPT !.response = [run |-> r.run, prompt |-> r.prompt],
                               !.loading = FALSE]
  <2>1. Shown(r) = q
    BY <1>1 DEF Shown
  <2>2. [run |-> r.run, prompt |-> r.prompt] \in Answered
    BY DEF Ask, Answered
  <2>3. q \in Page /\ q.loading = FALSE /\ q.response = [run |-> r.run, prompt |-> r.prompt]
    BY <2>2 DEF Page
  <2> QED BY <1>1, <2>1, <2>3
<1>2. CASE r.verdict = "step-up"
  <2> DEFINE q == [page EXCEPT !.stepUp = TRUE, !.loading = FALSE]
  <2>1. Shown(r) = q
    BY <1>2 DEF Shown
  <2>2. q \in Page /\ q.loading = FALSE /\ q.response = page.response
    BY DEF Page
  <2> QED BY <1>2, <2>1, <2>2
<1>3. CASE r.verdict \in {"denied", "failed"}
  <2>1. PICK v \in {"denied", "failed"} : v = r.verdict
    BY <1>3
  <2> DEFINE q == [page EXCEPT !.error = v, !.loading = FALSE]
  <2>2. Shown(r) = q
    BY <1>3, <2>1 DEF Shown
  <2>3. q \in Page /\ q.loading = FALSE /\ q.response = page.response
    BY DEF Page
  <2> QED BY <1>3, <2>2, <2>3
<1> QED BY <1>1, <1>2, <1>3 DEF Ask

\* The flows that a prompt can have.
LEMMA FlowFacts == \A prompt : FlowOf(prompt) \in Flows \ {"none"}
BY DEF FlowOf, Flows
\* A page without panels has nothing to explain.
LEMMA NoPanelsInv ==
    ASSUME NoPanels
    PROVE  /\ panels' \in [Panels -> Panel] /\ loads' = {} /\ Open' = {}
           /\ gesture' \in [Panels -> {"none", "show", "hide"}] /\ calm' \subseteq Panels
           /\ \A p : LoadsOf(p)' = {}
BY Fresh DEF NoPanels, Open, LoadsOf

\* Leaving the page: what it was waiting for is gone.
LEMMA LeaveInv ==
    ASSUME IndInv, NEW to, Leave(to), UNCHANGED <<runs, sent, retries>>, Stashed',
           stash' \in [message : Prompts \cup {Blank}, retry : BOOLEAN], clicks' \in Nat
    PROVE  IndInv'
<1>1. /\ page' = FreshPage /\ reqs' = {} /\ loads' = {} /\ Open' = {}
      /\ panels' \in [Panels -> Panel] /\ calm' \subseteq Panels
      /\ gesture' \in [Panels -> {"none", "show", "hide"}]
  BY NoPanelsInv DEF Leave
<1>2. TypeOK'
  BY <1>1, Fresh DEF IndInv, TypeOK
<1>3. page'.response = NoAnswer
  BY <1>1, Fresh
<1> QED BY <1>1, <1>2, <1>3
     DEF IndInv, OneRequest, Current, Retried, AskedFor, Calm, Explained

\* Mounting the page: a prompt is retried only if it was stashed, and at acr=mfa
\* unless the user strayed.
LEMMA MountInv ==
    ASSUME IndInv, NEW s, Mount(s), runs' \in Nat, UNCHANGED <<clicks, challenged>>,
           stash.retry => strayed' \/ (s = "mfa" /\ ~strayed)
    PROVE  IndInv'
<1>1. /\ place' = "chat" /\ session' = s /\ stash' = NoStash
      /\ loads' = {} /\ Open' = {} /\ panels' \in [Panels -> Panel] /\ calm' \subseteq Panels
      /\ gesture' \in [Panels -> {"none", "show", "hide"}] /\ \A p : LoadsOf(p)' = {}
  BY NoPanelsInv DEF Mount, TakeStepUpReturn
<1>2. TypeOK /\ Stashed /\ sent \in Nat /\ retries \in Nat /\ clicks \in Nat
  BY DEF IndInv, TypeOK
<1>3. CASE reqs' = {} /\ page' \in Page /\ page'.response = NoAnswer /\ sent' \in Nat
           /\ retries' \in Nat /\ retries' <= clicks
  <2>1. TypeOK'
    BY <1>1, <1>2, <1>3, Fresh DEF TypeOK
  <2>2. Stashed'
    BY <1>1, <1>3, Fresh DEF Stashed
  <2> QED BY <1>1, <1>3, <2>1, <2>2
       DEF IndInv, OneRequest, Current, Retried, AskedFor, Calm, Explained
<1>4. CASE ~stash.retry
  <2>1. page' = FreshPage /\ reqs' = {} /\ sent' = sent /\ retries' = retries
    BY <1>4 DEF Mount
  <2>2. retries <= clicks
    BY <1>2, <1>4 DEF Stashed
  <2> QED BY <1>2, <1>3, <2>1, <2>2, Fresh
<1>5. CASE stash.retry
  <2>1. PICK m : m = stash.message
    OBVIOUS
  <2>2. m \in Prompts \cup {Blank}
    BY <1>2, <2>1 DEF TypeOK
  <2> DEFINE pg == [FreshPage EXCEPT !.box = m, !.mfaReturn = TRUE]
  <2>3. pg \in Page /\ pg.response = NoAnswer
    BY <2>2, Fresh DEF Page
  <2>a. PICK f \in BOOLEAN : f = TRUE
    OBVIOUS
  <2>b. PICK new : new = Request(m, {}, f)
    OBVIOUS
  <2>4. /\ page' = Submitted(pg, m, f) /\ reqs' = new
        /\ sent' = sent + Cardinality(new) /\ retries' = retries + 1
    BY <1>5, <2>1, <2>a, <2>b DEF Mount, RetryPrompt
  <2> HIDE DEF pg
  <2>5. /\ place = "curity" /\ retries + 1 <= clicks /\ (~strayed => m = challenged)
    BY <1>2, <1>5, <2>1 DEF Stashed
  <2>6. CASE m = Blank
    <3>1. page' = pg /\ reqs' = {} /\ new = {}
      BY <2>4, <2>6, <2>b DEF Submitted, Request
    <3>2. sent' = sent
      BY <1>2, <2>4, <3>1, FS_EmptySet
    <3>3. retries' \in Nat /\ retries' <= clicks
      BY <1>2, <2>4, <2>5
    <3> QED BY <1>2, <1>3, <2>3, <3>1, <3>2, <3>3
  <2>7. CASE m \in Prompts
    <3>1. page' \in Page /\ page'.loading = TRUE /\ page'.response = NoAnswer
      BY <2>3, <2>4, <2>7, SubmittedFacts
    <3>2. PICK r \in Ask : /\ new = {r}
                           /\ r.run = sent + 1 /\ r.prompt = m /\ r.open = {}
                           /\ r.verdict = "none"
      <4>1. {} \in SUBSET Panels
        OBVIOUS
      <4>2. sent \in Nat
        BY <1>2
      <4>3. \E r \in Ask : /\ Request(m, {}, f) = {r}
                          /\ r.run = sent + 1 /\ r.prompt = m /\ r.open = {}
                          /\ r.verdict = "none" /\ r.fromStepUp = f
        BY <2>7, <4>1, <4>2, RequestFacts
      <4> QED BY <2>b, <4>3
    <3>3. reqs' = {r} /\ sent' = sent + 1
      <4>1. Cardinality(new) = 1
        BY <3>2, FS_Singleton
      <4> QED BY <2>4, <3>2, <4>1
    <3>4. TypeOK'
      <4>1. reqs' \subseteq Ask /\ sent' \in Nat /\ retries' \in Nat /\ clicks' \in Nat
        BY <1>2, <2>4, <3>2, <3>3
      <4> QED BY <4>1, <1>1, <1>2, <2>4, <2>5, <3>1, <3>2, <3>3, Fresh DEF TypeOK
    <3>5. Stashed'
      BY <1>1, <1>2, <2>4, <2>5, Fresh DEF Stashed
    <3>6. OneRequest'
      BY <3>1, <3>2, <3>3 DEF OneRequest
    <3>7. Retried'
      BY <1>1, <1>5, <2>5, <3>2, <3>3 DEF Retried
    <3> QED BY <1>1, <3>1, <3>2, <3>3, <3>4, <3>5, <3>6, <3>7
         DEF IndInv, Current, AskedFor, Calm, Explained
  <2> QED BY <2>2, <2>6, <2>7
<1> QED BY <1>4, <1>5

\* Login, sign-out, reload and the way through Curity preserve the invariant.
LEMMA NavigateInv ==
    ASSUME IndInv, Login \/ SignOut \/ Reload \/ MfaClick \/ MfaDone \/ MfaAbandon
    PROVE  IndInv'
<1>1. TypeOK /\ Stashed /\ runs \in Nat /\ clicks \in Nat /\ retries \in Nat
  BY DEF IndInv, TypeOK
<1>2. place # "curity" => ~stash.retry
  BY <1>1 DEF Stashed
<1>3. CASE Login
  BY <1>2, <1>3, MountInv DEF Login
<1>4. CASE SignOut
  <2>1. Stashed'
    BY <1>1, <1>4 DEF SignOut, Leave, history, Stashed
  <2> QED BY <1>1, <1>4, <2>1, LeaveInv DEF SignOut, history, TypeOK
<1>5. CASE Reload
  BY <1>1, <1>2, <1>5, MountInv DEF Reload
<1>6. CASE MfaClick
  <2>1. PICK st : st = [message |-> page.box, retry |-> TRUE]
    OBVIOUS
  <2>2. /\ stash' = st /\ Leave("curity") /\ clicks' = clicks + 1
        /\ strayed' = (page.box # challenged) /\ place = "chat"
        /\ UNCHANGED <<session, runs, sent, retries, challenged>>
    BY <1>6, <2>1 DEF MfaClick
  <2>3. /\ st \in [message : Prompts \cup {Blank}, retry : BOOLEAN]
        /\ st.retry = TRUE /\ st.message = page.box
    BY <1>1, <2>1 DEF TypeOK, Page
  <2>4. Stashed'
    BY <1>1, <2>2, <2>3 DEF Stashed, Leave
  <2> QED BY <1>1, <2>2, <2>3, <2>4, LeaveInv
<1>7. CASE MfaDone
  BY <1>7, MountInv DEF MfaDone
<1>8. CASE MfaAbandon
  BY <1>1, <1>8, MountInv DEF MfaAbandon
<1> QED BY <1>3, <1>4, <1>5, <1>6, <1>7, <1>8
\* The request under way is the only one.
LEMMA UnderWay ==
    ASSUME IndInv, NEW r \in reqs
    PROVE  /\ reqs = {r} /\ r \in Ask /\ r.run = sent /\ (r.verdict # "none" => runs = r.run)
           /\ page.loading /\ page.response = NoAnswer
BY DEF IndInv, OneRequest, TypeOK

\* Typing changes nothing that the invariant speaks of.
LEMMA TypeInv ==
    ASSUME IndInv, NEW prompt \in Prompts \cup {Blank}, Type(prompt)
    PROVE  IndInv'
<1>1. page' = [page EXCEPT !.box = prompt]
      /\ UNCHANGED <<place, session, stash, panels, reqs, loads, runs, sent, clicks, retries,
                     challenged, strayed, gesture, calm>>
  BY DEF Type, history
<1>2. page' \in Page /\ page'.response = page.response /\ page'.loading = page.loading
  BY <1>1 DEF IndInv, TypeOK, Page
<1>3. TypeOK'
  BY <1>1, <1>2 DEF IndInv, TypeOK
<1>4. OneRequest' /\ Current' /\ Stashed' /\ Retried'
  BY <1>1, <1>2 DEF IndInv, OneRequest, Current, Stashed, Retried
<1>5. AskedFor' /\ Calm' /\ Explained'
  BY <1>1, <1>2 DEF IndInv, AskedFor, Calm, Explained, Open, LoadsOf, ShowsAnswer
<1> QED BY <1>3, <1>4, <1>5 DEF IndInv

\* Sending: no other request is under way.
LEMMA SendInv == ASSUME IndInv, Send PROVE IndInv'
<1>1. TypeOK /\ sent \in Nat /\ page \in Page /\ Open \in SUBSET Panels
  BY DEF IndInv, TypeOK, Open
<1>2. PICK m, o : m = page.box /\ o = Open
  OBVIOUS
<1>3. PICK f \in BOOLEAN : f = FALSE
  OBVIOUS
<1>4. /\ place = "chat" /\ ~page.loading /\ m # Blank
      /\ page' = Submitted(page, m, f) /\ reqs' = reqs \cup Request(m, o, f)
      /\ sent' = sent + 1 /\ calm' = Panels \ Busy
      /\ UNCHANGED <<place, session, stash, panels, loads, runs, clicks, retries,
                     challenged, strayed, gesture>>
  BY <1>2, <1>3 DEF Send, CanSend, history
<1>5. m \in Prompts /\ o \in SUBSET Panels
  BY <1>1, <1>2, <1>4 DEF Page
<1>6. reqs = {}
  BY <1>4, UnderWay
<1>7. PICK pg \in Page : pg = page
  BY <1>1
<1>8. page' \in Page /\ page'.loading = TRUE /\ page'.response = NoAnswer
  BY <1>4, <1>5, <1>7, SubmittedFacts
<1>9. PICK r \in Ask : /\ Request(m, o, f) = {r}
                       /\ r.run = sent + 1 /\ r.prompt = m /\ r.open = o
                       /\ r.verdict = "none" /\ r.fromStepUp = f
  BY <1>1, <1>5, RequestFacts
<1>10. reqs' = {r}
  BY <1>4, <1>6, <1>9
<1>11. TypeOK'
  BY <1>1, <1>4, <1>8, <1>10 DEF TypeOK
<1>12. OneRequest' /\ Current'
  BY <1>4, <1>8, <1>9, <1>10 DEF OneRequest, Current
<1>13. Stashed' /\ Retried'
  BY <1>3, <1>4, <1>9, <1>10 DEF IndInv, Stashed, Retried
<1>14. Open' = Open /\ \A p : LoadsOf(p)' = LoadsOf(p)
  BY <1>4 DEF Open, LoadsOf
<1>15. AskedFor'
  BY <1>2, <1>4, <1>9, <1>10, <1>14 DEF IndInv, AskedFor
<1>16. Calm'
  BY <1>2, <1>4, <1>9, <1>10, <1>14 DEF Calm, Busy
<1> QED BY <1>8, <1>11, <1>12, <1>13, <1>15, <1>16 DEF IndInv, Explained

\* The copilot serves the request.
LEMMA ServeInv == ASSUME IndInv, NEW r \in reqs, Serve(r) PROVE IndInv'
<1>1. PICK v \in Verdicts(r.prompt) : reqs' = (reqs \ {r}) \cup {[r EXCEPT !.verdict = v]}
  BY DEF Serve
<1>2. v \in {"answer", "step-up", "denied", "failed"}
  BY DEF Verdicts
<1>3. reqs = {r} /\ r \in Ask /\ r.run = sent /\ page.loading /\ page.response = NoAnswer
  BY UnderWay
<1>4. PICK n : n = [r EXCEPT !.verdict = v]
  OBVIOUS
<1>5. /\ n \in Ask /\ n.run = r.run /\ n.prompt = r.prompt /\ n.open = r.open
      /\ n.fromStepUp = r.fromStepUp
  BY <1>2, <1>3, <1>4 DEF Ask
<1>6. reqs' = {n} /\ runs' = r.run
      /\ UNCHANGED <<place, session, stash, page, panels, loads, sent, clicks, retries,
                     challenged, strayed, gesture, calm>>
  BY <1>1, <1>3, <1>4 DEF Serve, history
<1>7. TypeOK'
  BY <1>3, <1>5, <1>6 DEF IndInv, TypeOK
<1>8. OneRequest' /\ Current' /\ Explained'
  BY <1>3, <1>5, <1>6 DEF OneRequest, Current, Explained
<1>9. Stashed' /\ Retried'
  <2>1. place # "curity"
    BY <1>3 DEF IndInv, Stashed
  <2> QED BY <1>5, <1>6, <2>1 DEF IndInv, Stashed, Retried
<1>10. AskedFor' /\ Calm'
  BY <1>5, <1>6 DEF IndInv, AskedFor, Calm, Open, LoadsOf
<1> QED BY <1>7, <1>8, <1>9, <1>10 DEF IndInv

\* What a panel looks like while it is fetched.
LEMMA LoadingFacts ==
    ASSUME panels \in [Panels -> Panel], NEW p \in Panels, NEW flow \in Flows
    PROVE  Loading(p, flow) \in Panel /\ (flow # "none" => Loading(p, flow).open = FALSE)
<1>1. CASE p = "svids" /\ flow = "none"
  BY <1>1 DEF Loading, Panel, Flows
<1>2. CASE ~(p = "svids" /\ flow = "none")
  <2>1. PICK o \in Panel : o = panels[p]
    OBVIOUS
  <2> DEFINE q == [o EXCEPT !.open = FALSE, !.error = FALSE, !.loading = TRUE]
  <2>2. Loading(p, flow) = q
    BY <1>2, <2>1 DEF Loading
  <2>3. q \in Panel /\ q.open = FALSE
    BY DEF Panel
  <2> QED BY <2>2, <2>3
<1> QED BY <1>1, <1>2

\* The fetches that loadSvids, loadObo and loadTools start.
LEMMA FetchFacts ==
    ASSUME NEW ps, NEW flow, NEW l \in Fetches(ps, flow)
    PROVE  l.panel \in ps /\ l.flow = flow /\ l.since = runs
BY DEF Fetches

\* The request ends: with an answer, the panels that were open are fetched again,
\* for its flow and from the runs served up to now.
LEMMA SettleInv == ASSUME IndInv, NEW r \in reqs, Settle(r) PROVE IndInv'
<1>1. /\ reqs = {r} /\ r \in Ask /\ r.run = sent /\ runs = r.run
      /\ page.response = NoAnswer /\ TypeOK /\ r.verdict # "none"
  BY UnderWay DEF Settle, IndInv
<1>2. PICK refresh, flow : /\ refresh = IF r.verdict = "answer" THEN r.open ELSE {}
                           /\ flow = FlowOf(r.prompt)
  OBVIOUS
<1>3. flow \in Flows /\ flow # "none"
  BY <1>2, FlowFacts
<1>4. SvidFlowToShow(NoAnswer, FlowOf(r.prompt)) = flow
  BY <1>2, <1>3 DEF SvidFlowToShow
<1>5. /\ page' = Shown(r) /\ reqs' = {}
      /\ panels' = [p \in Panels |-> IF p \in refresh THEN Loading(p, flow) ELSE panels[p]]
      /\ loads' = loads \cup Fetches(refresh, flow)
      /\ UNCHANGED <<place, session, stash, runs, sent, clicks, retries, strayed, gesture, calm>>
  BY <1>1, <1>2, <1>4 DEF Settle, PanelsToRefresh
<1>6. /\ page' \in Page
      /\ r.verdict = "answer" => page'.response = [run |-> r.run, prompt |-> r.prompt]
      /\ r.verdict # "answer" => page'.response = NoAnswer
  BY <1>1, <1>5, ShownFacts DEF TypeOK
<1>7. refresh \subseteq Panels /\ refresh \subseteq r.open
  BY <1>1, <1>2 DEF Ask
<1>8. /\ panels' \in [Panels -> Panel]
      /\ \A p \in Open' : p \in Panels /\ p \in Open /\ p \notin refresh /\ panels'[p] = panels[p]
  <2>1. ASSUME NEW p \in refresh PROVE Loading(p, flow) \in Panel /\ Loading(p, flow).open = FALSE
    BY <1>1, <1>3, <1>7, LoadingFacts DEF TypeOK
  <2> QED BY <1>1, <1>5, <1>7, <2>1 DEF TypeOK, Open
<1>9. \A l \in loads' : \/ l \in loads
                        \/ l.panel \in refresh /\ l.flow = flow /\ l.since = runs
  BY <1>5, FetchFacts
<1>10. TypeOK'
  BY <1>1, <1>3, <1>5, <1>6, <1>7, <1>8, <1>9 DEF TypeOK
<1>11. OneRequest' /\ Retried' /\ Calm'
  BY <1>5 DEF OneRequest, Retried, Calm
<1>12. Current'
  BY <1>1, <1>5, <1>6 DEF Current
<1>13. Stashed'
  <2>1. place # "curity"
    BY <1>1 DEF IndInv, Stashed
  <2> QED BY <1>5, <2>1 DEF IndInv, Stashed
<1>14. AskedFor'
  BY <1>5, <1>7, <1>8, <1>9 DEF IndInv, AskedFor
<1>15. Explained'
  <2> SUFFICES ASSUME page'.response # NoAnswer, NEW p \in calm'
               PROVE  /\ p \notin Open'
                      /\ \A l \in LoadsOf(p)' :
                            /\ l.since = page'.response.run
                            /\ p = "svids" => l.flow = FlowOf(page'.response.prompt)
    BY DEF Explained
  <2>1. r.verdict = "answer" /\ page'.response.run = r.run /\ page'.response.prompt = r.prompt
    BY <1>6
  <2>2. LoadsOf(p) = {} /\ (p \in Open => p \in r.open)
    BY <1>1, <1>5 DEF IndInv, Calm
  <2>3. refresh = r.open
    BY <1>2, <2>1
  <2> QED BY <1>1, <1>2, <1>8, <1>9, <2>1, <2>2, <2>3 DEF LoadsOf
<1> QED BY <1>10, <1>11, <1>12, <1>13, <1>14, <1>15 DEF IndInv

\* fetch rejects: the page shows an error and no answer.
LEMMA NetworkErrorInv == ASSUME IndInv, NEW r \in reqs, NetworkError(r) PROVE IndInv'
<1>1. reqs = {r} /\ r \in Ask /\ page.response = NoAnswer /\ TypeOK
  BY UnderWay DEF IndInv
<1>2. PICK n : n = [r EXCEPT !.verdict = "failed"]
  OBVIOUS
<1>3. n \in Ask /\ n.verdict = "failed"
  BY <1>1, <1>2 DEF Ask
<1>4. /\ page' = Shown(n) /\ reqs' = {}
      /\ UNCHANGED <<place, session, stash, panels, loads, runs, sent, clicks, retries,
                     challenged, strayed, gesture, calm>>
  BY <1>1, <1>2 DEF NetworkError, history
<1>5. page' \in Page /\ page'.response = NoAnswer
  BY <1>1, <1>3, <1>4, ShownFacts DEF TypeOK
<1>6. TypeOK'
  BY <1>1, <1>4, <1>5 DEF TypeOK
<1>7. Stashed'
  <2>1. place # "curity"
    BY <1>1 DEF IndInv, Stashed
  <2> QED BY <1>4, <2>1 DEF IndInv, Stashed
<1>8. AskedFor'
  BY <1>4 DEF IndInv, AskedFor, Open
<1> QED BY <1>4, <1>5, <1>6, <1>7, <1>8
     DEF IndInv, OneRequest, Current, Retried, Calm, Explained
\* A step that leaves the requests, the Ask card and the session alone.
LEMMA PanelsOnly ==
    ASSUME IndInv, UNCHANGED <<place, session, stash, page, reqs, runs, sent, clicks, retries,
                               challenged, strayed>>
    PROVE  OneRequest' /\ Current' /\ Stashed' /\ Retried'
BY DEF IndInv, OneRequest, Current, Stashed, Retried

\* A click on Show or Refresh: after an answer, what is fetched is about it.
LEMMA ShowInv == ASSUME IndInv, NEW p \in Panels, Show(p) PROVE IndInv'
<1>1. TypeOK /\ Current /\ AskedFor /\ Calm /\ Explained
  BY DEF IndInv
<1>2. PICK flow : flow = SvidFlowToShow(page.response, "none")
  OBVIOUS
<1>3. /\ flow \in Flows
      /\ page.response # NoAnswer => flow = FlowOf(page.response.prompt) /\ flow # "none"
  BY <1>2, FlowFacts DEF SvidFlowToShow, Flows
<1>4. /\ panels' = [panels EXCEPT ![p] = Loading(p, flow)]
      /\ loads' = loads \cup Fetches({p}, flow)
      /\ gesture' = [gesture EXCEPT ![p] = "show"]
      /\ calm' = IF page.loading THEN calm \ {p} ELSE calm
      /\ UNCHANGED <<place, session, stash, page, reqs, runs, sent, clicks, retries,
                     challenged, strayed>>
  BY <1>2 DEF Show, history
<1>5. Loading(p, flow) \in Panel /\ (flow # "none" => Loading(p, flow).open = FALSE)
  BY <1>1, <1>3, LoadingFacts DEF TypeOK
<1>6. /\ panels' \in [Panels -> Panel] /\ panels'[p] = Loading(p, flow)
      /\ \A q \in Panels \ {p} : panels'[q] = panels[q]
  BY <1>1, <1>4, <1>5 DEF TypeOK
<1>7. \A l \in loads' : l \in loads \/ (l.panel = p /\ l.flow = flow /\ l.since = runs)
  BY <1>4, FetchFacts
<1>8. \A q \in Panels \ {p} : /\ LoadsOf(q)' = LoadsOf(q)
                              /\ q \in Open' <=> q \in Open
                              /\ gesture'[q] = gesture[q]
  <2>1. \A q \in Panels \ {p} : LoadsOf(q)' = LoadsOf(q)
    BY <1>4, <1>7 DEF LoadsOf
  <2>2. \A q \in Panels \ {p} : q \in Open' <=> q \in Open
    BY <1>6 DEF Open
  <2>3. \A q \in Panels \ {p} : gesture'[q] = gesture[q]
    BY <1>1, <1>4 DEF TypeOK
  <2> QED BY <2>1, <2>2, <2>3
<1>9. gesture'[p] = "show"
  BY <1>1, <1>4 DEF TypeOK
<1>10. TypeOK'
  BY <1>1, <1>3, <1>4, <1>6, <1>7 DEF TypeOK
<1>11. AskedFor'
  <2>1. \A q \in Panels : gesture'[q] = "none" => gesture[q] = "none" /\ q # p
    BY <1>8, <1>9
  <2>2. \A q \in Open' : q \in Panels
    BY DEF Open
  <2>3. \A l \in loads' : l.panel \in Panels
    BY <1>10 DEF TypeOK
  <2>4. \A r \in reqs' : r.open \subseteq Panels
    BY <1>10 DEF TypeOK, Ask
  <2> QED BY <1>1, <1>4, <1>7, <1>8, <2>1, <2>2, <2>3, <2>4 DEF AskedFor
<1>12. Calm'
  <2> SUFFICES ASSUME NEW r \in reqs', NEW q \in calm'
               PROVE  LoadsOf(q)' = {} /\ (q \in Open' => q \in r.open)
    BY DEF Calm
  <2>1. r \in reqs /\ q \in calm \ {p} /\ q \in Panels
    BY <1>1, <1>4, UnderWay DEF TypeOK
  <2> QED BY <1>1, <1>8, <2>1 DEF Calm
<1>13. Explained'
  <2> SUFFICES ASSUME page.response # NoAnswer, NEW q \in calm'
               PROVE  /\ q \in Open' => ShowsAnswer(q)'
                      /\ \A l \in LoadsOf(q)' :
                            /\ l.since = page.response.run
                            /\ q = "svids" => l.flow = FlowOf(page.response.prompt)
    BY <1>4 DEF Explained
  <2>1. q \in calm /\ q \in Panels
    BY <1>1, <1>4 DEF TypeOK
  <2>2. CASE q = p
    <3>1. q \notin Open'
      BY <1>3, <1>5, <1>6, <2>2 DEF Open
    <3> QED BY <1>1, <1>3, <1>7, <2>1, <2>2, <3>1 DEF LoadsOf, Explained, Current
  <2>3. CASE q # p
    <3>1. ShowsAnswer(q)' <=> ShowsAnswer(q)
      BY <1>4, <1>6, <2>1, <2>3 DEF ShowsAnswer
    <3> QED BY <1>1, <1>8, <2>1, <2>3, <3>1 DEF Explained
  <2> QED BY <2>2, <2>3
<1> QED BY <1>4, <1>10, <1>11, <1>12, <1>13, PanelsOnly DEF IndInv

\* A step that only changes panel p, without opening it.
LEMMA ClosingInv ==
    ASSUME IndInv, NEW p \in Panels, NEW n \in Panel,
           panels' = [panels EXCEPT ![p] = n],
           n.open => panels[p].open, n.shows = panels[p].shows, loads' \subseteq loads,
           gesture' \in [Panels -> {"none", "show", "hide"}],
           \A q \in Panels : gesture[q] # "none" => gesture'[q] # "none",
           calm' \subseteq calm,
           UNCHANGED <<place, session, stash, page, reqs, runs, sent, clicks, retries,
                       challenged, strayed>>
    PROVE  IndInv'
<1>1. TypeOK /\ AskedFor /\ Calm /\ Explained
  BY DEF IndInv
<1>2. panels' \in [Panels -> Panel] /\ \A q \in Panels : panels'[q].shows = panels[q].shows
  BY <1>1 DEF TypeOK
<1>3. /\ \A q \in Open' : q \in Open
      /\ \A q : LoadsOf(q)' \subseteq LoadsOf(q)
      /\ \A q \in Panels : ShowsAnswer(q)' <=> ShowsAnswer(q)
  BY <1>1, <1>2 DEF TypeOK, Open, LoadsOf, ShowsAnswer
<1>4. TypeOK'
  BY <1>1, <1>2 DEF TypeOK
<1>5. AskedFor'
  <2>1. (\A q \in Open : q \in Panels) /\ (\A r \in reqs : r.open \subseteq Panels)
    BY <1>1 DEF Open, TypeOK, Ask
  <2> QED BY <1>1, <1>3, <2>1 DEF AskedFor, TypeOK
<1>6. Calm' /\ Explained'
  BY <1>1, <1>3 DEF TypeOK, Calm, Explained
<1> QED BY <1>4, <1>5, <1>6, PanelsOnly DEF IndInv

\* A click on Hide.
LEMMA HideInv == ASSUME IndInv, NEW p \in Panels, Hide(p) PROVE IndInv'
<1>1. TypeOK
  BY DEF IndInv
<1>2. PICK o \in Panel : o = panels[p]
  BY <1>1 DEF TypeOK
<1>3. PICK n : n = [o EXCEPT !.open = FALSE, !.error = FALSE]
  OBVIOUS
<1>4. n \in Panel /\ n.open = FALSE /\ n.shows = panels[p].shows
  BY <1>2, <1>3 DEF Panel
<1>5. panels' = [panels EXCEPT ![p] = n]
  BY <1>1, <1>2, <1>3 DEF Hide, TypeOK
<1>6. /\ gesture' = [gesture EXCEPT ![p] = "hide"] /\ calm' \subseteq calm /\ loads' = loads
      /\ UNCHANGED <<place, session, stash, page, reqs, runs, sent, clicks, retries,
                     challenged, strayed>>
  BY DEF Hide, history
<1>7. /\ gesture' \in [Panels -> {"none", "show", "hide"}]
      /\ \A q \in Panels : gesture[q] # "none" => gesture'[q] # "none"
  BY <1>1, <1>6 DEF TypeOK
<1> QED BY <1>4, <1>5, <1>6, <1>7, ClosingInv

\* A fetch of a panel fails.
LEMMA LoadFailedInv == ASSUME IndInv, NEW l \in loads, LoadFailed(l) PROVE IndInv'
<1>1. TypeOK /\ l.panel \in Panels
  BY DEF IndInv, TypeOK
<1>2. PICK p \in Panels : p = l.panel
  BY <1>1
<1>3. PICK o \in Panel : o = panels[p]
  BY <1>1 DEF TypeOK
<1>4. PICK thrown \in BOOLEAN :
        panels' = [panels EXCEPT ![p] =
                     [o EXCEPT !.error = TRUE, !.loading = FALSE,
                               !.open = (o.open /\ ~(thrown /\ p = "obo"))]]
  BY <1>2, <1>3 DEF LoadFailed
<1>5. PICK n : n = [o EXCEPT !.error = TRUE, !.loading = FALSE,
                             !.open = (o.open /\ ~(thrown /\ p = "obo"))]
  OBVIOUS
<1>6. n \in Panel /\ (n.open => o.open) /\ n.shows = o.shows
  BY <1>5 DEF Panel
<1>7. panels' = [panels EXCEPT ![p] = n]
  BY <1>4, <1>5
<1>8. /\ loads' \subseteq loads
      /\ UNCHANGED <<place, session, stash, page, reqs, runs, sent, clicks, retries,
                     challenged, strayed, gesture, calm>>
  BY DEF LoadFailed, history
<1> QED BY <1>1, <1>3, <1>6, <1>7, <1>8, ClosingInv DEF TypeOK

\* A fetch is answered.  A panel left alone has fetches only after the answer, all
\* of them about it: the only run served since is the answer's.
LEMMA LoadedInv == ASSUME IndInv, NEW l \in loads, Loaded(l) PROVE IndInv'
<1>1. TypeOK /\ Current /\ AskedFor /\ Calm /\ Explained
  BY DEF IndInv
<1>2. PICK p \in Panels : p = l.panel
  BY <1>1 DEF TypeOK
<1>3. PICK o \in Panel : o = panels[p]
  BY <1>1 DEF TypeOK
<1>4. PICK k \in l.since..runs :
        panels' = [panels EXCEPT ![p] =
                     [@ EXCEPT !.open = TRUE, !.loading = FALSE,
                               !.shows = CASE p = "svids" -> l.flow
                                           [] p = "obo" -> k
                                           [] OTHER -> 0]]
  BY <1>2 DEF Loaded
<1>5. PICK x : x = CASE p = "svids" -> l.flow [] p = "obo" -> k [] OTHER -> 0
  OBVIOUS
<1>6. l.flow \in Flows /\ l.since \in Nat /\ runs \in Nat
  BY <1>1 DEF TypeOK
<1>7. k \in Nat /\ x \in Flows \cup Nat
  BY <1>4, <1>5, <1>6
<1>8. PICK n : n = [o EXCEPT !.open = TRUE, !.loading = FALSE, !.shows = x]
  OBVIOUS
<1>9. n \in Panel /\ n.shows = x
  BY <1>7, <1>8 DEF Panel
<1>10. panels' = [panels EXCEPT ![p] = n]
  BY <1>1, <1>3, <1>4, <1>5, <1>8 DEF TypeOK
<1>11. /\ panels' \in [Panels -> Panel] /\ panels'[p] = n
       /\ \A q \in Panels \ {p} : panels'[q] = panels[q]
  BY <1>1, <1>9, <1>10 DEF TypeOK
<1>12. /\ loads' \subseteq loads
       /\ UNCHANGED <<place, session, stash, page, reqs, runs, sent, clicks, retries,
                      challenged, strayed, gesture, calm>>
  BY DEF Loaded, history
<1>13. /\ \A q \in Open' : q \in Panels /\ (q = p \/ q \in Open)
       /\ \A q : LoadsOf(q)' \subseteq LoadsOf(q)
       /\ l \in LoadsOf(p)
  BY <1>2, <1>11, <1>12 DEF Open, LoadsOf
<1>14. TypeOK'
  BY <1>1, <1>11, <1>12 DEF TypeOK
<1>15. AskedFor'
  BY <1>1, <1>2, <1>12, <1>13 DEF AskedFor
<1>16. Calm'
  BY <1>1, <1>12, <1>13 DEF Calm
<1>17. Explained'
  <2> SUFFICES ASSUME page.response # NoAnswer, NEW q \in calm
               PROVE  /\ q \in Open' => ShowsAnswer(q)'
                      /\ \A m \in LoadsOf(q)' :
                            /\ m.since = page.response.run
                            /\ q = "svids" => m.flow = FlowOf(page.response.prompt)
    BY <1>12 DEF Explained
  <2>1. q \in Panels
    BY <1>1 DEF TypeOK
  <2>2. CASE q = p
    <3>1. /\ l.since = page.response.run /\ page.response.run = runs
          /\ p = "svids" => l.flow = FlowOf(page.response.prompt)
      BY <1>1, <1>13, <2>2 DEF Explained, Current
    <3>2. k = page.response.run
      BY <1>4, <1>6, <3>1
    <3>3. panels'[p].shows = x /\ page' = page
      BY <1>9, <1>11, <1>12
    <3>4. ShowsAnswer(p)'
      BY <1>5, <3>1, <3>2, <3>3 DEF ShowsAnswer
    <3> QED BY <1>1, <1>13, <2>2, <3>4 DEF Explained
  <2>3. CASE q # p
    <3>1. ShowsAnswer(q)' <=> ShowsAnswer(q)
      BY <1>11, <1>12, <2>1, <2>3 DEF ShowsAnswer
    <3> QED BY <1>1, <1>13, <2>3, <3>1 DEF Explained
  <2> QED BY <2>2, <2>3
<1> QED BY <1>12, <1>14, <1>15, <1>16, <1>17, PanelsOnly DEF IndInv

\* The invariant holds at the start.
LEMMA InitInv == Init => IndInv
<1> SUFFICES ASSUME Init PROVE IndInv
  OBVIOUS
<1>1. /\ page = FreshPage /\ panels = FreshPanels /\ stash = NoStash /\ reqs = {} /\ loads = {}
      /\ runs = 0 /\ sent = 0 /\ clicks = 0 /\ retries = 0 /\ place = "cards"
      /\ gesture = [p \in Panels |-> "none"] /\ calm = Panels
  BY DEF Init
<1>2. TypeOK
  BY <1>1, Fresh DEF TypeOK
<1>3. page.response = NoAnswer /\ ~stash.retry /\ Open = {}
  BY <1>1, Fresh DEF Open
<1> QED BY <1>1, <1>2, <1>3
     DEF IndInv, OneRequest, Current, Stashed, Retried, AskedFor, Calm, Explained

\* Every step preserves the invariant.
LEMMA NextInv == IndInv /\ [Next]_vars => IndInv'
<1> SUFFICES ASSUME IndInv, [Next]_vars PROVE IndInv'
  OBVIOUS
<1>1. CASE UNCHANGED vars
  <2>1. UNCHANGED <<place, session, stash, page, panels, reqs, loads, runs, sent, clicks, retries,
                    challenged, strayed, gesture, calm>>
    BY <1>1 DEF vars, history
  <2>2. TypeOK' /\ AskedFor' /\ Calm' /\ Explained'
    BY <2>1 DEF IndInv, TypeOK, AskedFor, Calm, Explained, Open, LoadsOf, ShowsAnswer
  <2> QED BY <2>1, <2>2, PanelsOnly DEF IndInv
<1>2. CASE Next
  BY <1>2, NavigateInv, TypeInv, SendInv, ServeInv, SettleInv, NetworkErrorInv, ShowInv, HideInv,
     LoadedInv, LoadFailedInv DEF Next
<1> QED BY <1>1, <1>2

(* IndInv is an invariant: one request is under way at a time, the one sent last;
   a stashed prompt waits only on the way through Curity; and a panel left alone
   since the last send shows or fetches nothing that is not about the answer. *)
THEOREM Invariance == Spec => []IndInv
BY InitInv, NextInv, PTL DEF Spec

(* The answer chat.tsx displays is that of the request sent last, and the page
   says so while a request is under way, however the user types, sends, reloads
   and steps up. *)
THEOREM AnswersLastAsked == Spec => []AnswerIsLastAsked
<1>1. IndInv => AnswerIsLastAsked
  BY DEF IndInv, OneRequest, Current, AnswerIsLastAsked
<1> QED BY <1>1, Invariance, PTL

(* One click on "Authenticate with MFA" retries at most once, and unless the user
   strayed the retry is the challenged prompt at acr=mfa (step-up-return.ts). *)
THEOREM RetriesFaithfully == Spec => []RetryFaithful
<1>1. IndInv => RetryFaithful
  <2> SUFFICES ASSUME IndInv PROVE RetryFaithful
    OBVIOUS
  <2>1. retries \in Nat /\ clicks \in Nat
    BY DEF IndInv, TypeOK
  <2>2. retries <= clicks
    BY <2>1 DEF IndInv, Stashed
  <2> QED BY <2>2 DEF IndInv, Retried, RetryFaithful
<1> QED BY <1>1, Invariance, PTL

(* A panel has data only if it was clicked since the page was mounted, and then it
   explains the answer on screen, whatever fetches overlap, unless it was clicked
   or still loading while the question was under way. *)
THEOREM PanelsFollowAnswer == Spec => []PanelFollowsAnswer
<1>1. IndInv => PanelFollowsAnswer
  BY DEF IndInv, AskedFor, Explained, PanelFollowsAnswer
<1> QED BY <1>1, Invariance, PTL
=============================================================================
