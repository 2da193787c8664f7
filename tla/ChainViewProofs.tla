--------------------------- MODULE ChainViewProofs --------------------------
(***************************************************************************)
(* Proofs about ChainView and TokenLedger, for any logins and users, any   *)
(* number of requests, probes, re-acquired tokens and walks, with and      *)
(* without caching.                                                        *)
(***************************************************************************)
EXTENDS TokenLedger, FiniteSetTheorems, SequenceTheorems, WellFoundedInduction, TLAPS

TokenRec == [root : Sessions, by : Nat, nth : Nat]
Slot == [sub : Users, jti : Sessions, tok : TokenRec, at : Nat]
Flow == [session : Sessions, path : {"read", "privileged"}, todo : Seq(Helpers),
         root : Sessions, over : BOOLEAN, after : SUBSET Nat]
CacheEntry == [key : Helpers \X Users, tok : TokenRec]

TypeOK ==
    /\ flows \in Seq(Flow)
    /\ slots \in [Helpers -> {NoSlot} \cup Slot]
    /\ cache \subseteq CacheEntry
    /\ clock \in Nat
    /\ again \in Nat
    /\ caching \in BOOLEAN
    /\ userOf \in [Sessions -> Users]

\* Tokens are passed on only between logins of one user.
OneUser ==
    /\ \A f \in DOMAIN flows : /\ userOf[flows[f].root] = userOf[flows[f].session]
                               /\ ~caching => flows[f].root = flows[f].session
    /\ \A e \in cache : userOf[e.tok.root] = e.key[2]
    /\ ~caching => cache = {}

\* A slot holds a token of the user it is stamped for; without caching it was minted
\* by a question of the login it is stamped for.
SlotOwn(h) ==
    Filled(h) =>
        /\ slots[h].at <= clock
        /\ slots[h].sub = userOf[slots[h].jti]
        /\ userOf[slots[h].tok.root] = slots[h].sub
        /\ ~caching => /\ slots[h].tok.root = slots[h].jti
                       /\ slots[h].tok.by \in DOMAIN flows
                       /\ flows[slots[h].tok.by].session = slots[h].jti

SlotsOwn == \A h \in Helpers : SlotOwn(h)

\* What a flow of a path may have left to do.
Rests(path) ==
    IF path = "read" THEN {ReadPath, <<"copilot/llm">>, <<>>}
    ELSE {PrivilegedPath, <<"specialist/ops", "specialist/inspect", "specialist/llm">>,
          <<"specialist/inspect", "specialist/llm">>, <<"specialist/llm">>, <<>>}

\* A flow is on its path, and the flows before it are over.
FlowOK(f) ==
    /\ flows[f].todo \in Rests(flows[f].path)
    /\ \A g \in flows[f].after : g \in DOMAIN flows /\ flows[g].over
FlowsOK == \A f \in DOMAIN flows : FlowOK(f)

\* The flow whose token a helper's slot holds.
By(h) == slots[h].tok.by

\* What was stamped by a flow that was over when another began is stamped earlier
\* than now, and than all that the other stamps.
Earlier ==
    \A h \in Compared : Filled(h) =>
        /\ \A g \in DOMAIN flows : By(h) \in flows[g].after => slots[h].at < clock
        /\ \A k \in Compared : Filled(k) /\ By(h) \in flows[By(k)].after => slots[h].at < slots[k].at

\* A helper whose token a flow left in the slot is behind the flow.
Behind == \A h \in Helpers : Filled(h) => h \notin Range(flows[By(h)].todo)

\* Once a flow of the copilot has exchanged for the MCP server the slot is of that
\* flow or one that was not over before it.
McpSince(f) == Filled("copilot/mcp") /\ By("copilot/mcp") \notin flows[f].after
SinceMcp ==
    /\ \A f \in DOMAIN flows :
          flows[f].path = "read" /\ ~flows[f].over /\ "copilot/mcp" \notin Range(flows[f].todo)
              => McpSince(f)
    /\ Filled("copilot/llm") =>
          Filled("copilot/mcp") /\ By("copilot/mcp") \notin flows[By("copilot/llm")].after

\* A leaf is stamped after the token it is compared with, unless that one was
\* acquired again.
LeafAfter(top, leaf) ==
    Filled(top) /\ Filled(leaf) /\ By(top) = By(leaf) /\ slots[top].tok.nth = 0
        => slots[top].at <= slots[leaf].at
LeavesAfter == LeafAfter("copilot/mcp", "copilot/llm") /\ LeafAfter("specialist/ops", "specialist/llm")

\* Without caching.
Uncached == Earlier /\ Behind /\ SinceMcp /\ LeavesAfter

\* The helpers of a path.
OnPath(path) == Range(StepsOf(path)) \cup Servers(path)

\* The inductive invariant.
IndInv == /\ TypeOK /\ OneUser /\ SlotsOwn /\ FlowsOK
          /\ ~caching => Uncached
-----------------------------------------------------------------------------
\* The helpers, and those of each path.
LEMMA TupleFacts ==
    \A a, b, c, d :
        /\ Range(<<>>) = {} /\ Range(<<a>>) = {a} /\ Range(<<a, b>>) = {a, b}
        /\ Range(<<a, b, c>>) = {a, b, c} /\ Range(<<a, b, c, d>>) = {a, b, c, d}
        /\ Tail(<<a>>) = <<>> /\ Tail(<<a, b>>) = <<b>>
        /\ Tail(<<a, b, c>>) = <<b, c>> /\ Tail(<<a, b, c, d>>) = <<b, c, d>>
<1> SUFFICES ASSUME NEW a, NEW b, NEW c, NEW d
             PROVE  /\ Range(<<>>) = {} /\ Range(<<a>>) = {a} /\ Range(<<a, b>>) = {a, b}
                    /\ Range(<<a, b, c>>) = {a, b, c} /\ Range(<<a, b, c, d>>) = {a, b, c, d}
                    /\ Tail(<<a>>) = <<>> /\ Tail(<<a, b>>) = <<b>>
                    /\ Tail(<<a, b, c>>) = <<b, c>> /\ Tail(<<a, b, c, d>>) = <<b, c, d>>
  OBVIOUS
<1>1. /\ Range(<<>>) = {} /\ Range(<<a>>) = {a} /\ Range(<<a, b>>) = {a, b}
      /\ Range(<<a, b, c>>) = {a, b, c} /\ Range(<<a, b, c, d>>) = {a, b, c, d}
  <2>1. 1..1 = {1} /\ 1..2 = {1, 2} /\ 1..3 = {1, 2, 3} /\ 1..4 = {1, 2, 3, 4}
    OBVIOUS
  <2>2. DOMAIN <<>> = {} /\ DOMAIN <<a>> = {1} /\ DOMAIN <<a, b>> = {1, 2}
        /\ DOMAIN <<a, b, c>> = {1, 2, 3} /\ DOMAIN <<a, b, c, d>> = {1, 2, 3, 4}
    BY <2>1
  <2> QED BY <2>2 DEF Range
<1>2. Tail(<<a>>) = <<>> /\ Tail(<<a, b>>) = <<b>>
  OBVIOUS
<1>3. Tail(<<a, b, c>>) = <<b, c>> /\ Tail(<<a, b, c, d>>) = <<b, c, d>>
  OBVIOUS
<1> QED BY <1>1, <1>2, <1>3

LEMMA StepFacts ==
    /\ Range(ReadPath) = {"copilot/mcp", "copilot/llm"}
    /\ Range(PrivilegedPath) =
          {"copilot/specialist", "specialist/ops", "specialist/inspect", "specialist/llm"}
    /\ OnPath("read") = {"copilot/mcp", "copilot/llm", "mcp-inspect"}
    /\ OnPath("privileged") =
          {"copilot/specialist", "specialist/ops", "specialist/inspect", "specialist/llm",
           "mcp-inspect", "mcp-ops"}
<1>1. Range(ReadPath) = {"copilot/mcp", "copilot/llm"}
  BY TupleFacts DEF ReadPath
<1>2. Range(PrivilegedPath) =
         {"copilot/specialist", "specialist/ops", "specialist/inspect", "specialist/llm"}
  BY TupleFacts DEF PrivilegedPath
<1> QED BY <1>1, <1>2 DEF OnPath, StepsOf, Servers

LEMMA HelperFacts ==
    /\ Helpers = {"copilot/mcp", "copilot/llm", "mcp-inspect", "copilot/specialist",
                  "specialist/ops", "specialist/inspect", "specialist/llm", "mcp-ops"}
    /\ CopilotHelpers \subseteq Helpers /\ Compared \subseteq Helpers
    /\ \A path \in {"read", "privileged"} :
          OnPath(path) \subseteq Helpers /\ Servers(path) \subseteq OnPath(path)
BY StepFacts DEF Helpers, CopilotHelpers, Compared, LlmHelpers, Servers, OnPath

\* What is left, and what is left after a step.
LEMMA RestFacts ==
    ASSUME NEW path \in {"read", "privileged"}, NEW todo \in Rests(path)
    PROVE  /\ todo \in Seq(Helpers) /\ Range(todo) \subseteq OnPath(path)
           /\ StepsOf(path) \in Rests(path) /\ <<>> \in Rests(path)
           /\ StepsOf(path) \in Seq(Helpers)
           /\ path = "read" => "copilot/mcp" \in Range(StepsOf(path))
           /\ todo # <<>> =>
                 /\ Tail(todo) \in Rests(path)
                 /\ Head(todo) \in Range(todo) /\ Range(Tail(todo)) = Range(todo) \ {Head(todo)}
                 /\ Head(todo) = "copilot/llm" => path = "read" /\ "copilot/mcp" \notin Range(todo)
                 /\ Head(todo) = "copilot/mcp" => "copilot/llm" \in Range(todo)
                 /\ Head(todo) = "specialist/ops" => "specialist/llm" \in Range(todo)
<1>1. ReadPath \in Seq(Helpers) /\ <<"copilot/llm">> \in Seq(Helpers) /\ <<>> \in Seq(Helpers)
  BY HelperFacts DEF ReadPath
<1>2. /\ PrivilegedPath \in Seq(Helpers)
      /\ <<"specialist/ops", "specialist/inspect", "specialist/llm">> \in Seq(Helpers)
      /\ <<"specialist/inspect", "specialist/llm">> \in Seq(Helpers)
      /\ <<"specialist/llm">> \in Seq(Helpers)
  BY HelperFacts DEF PrivilegedPath
<1>3. StepsOf(path) \in Rests(path) /\ <<>> \in Rests(path) /\ todo \in Seq(Helpers)
      /\ StepsOf(path) \in Seq(Helpers)
  BY <1>1, <1>2 DEF Rests, StepsOf
<1>4. CASE path = "read"
  <2>1. CASE todo = ReadPath
    <3>1. todo = <<"copilot/mcp", "copilot/llm">> /\ Tail(todo) = <<"copilot/llm">> /\ Head(todo) = "copilot/mcp"
      BY <2>1, TupleFacts DEF ReadPath
    <3>2. Range(todo) = {"copilot/mcp", "copilot/llm"} /\ Range(Tail(todo)) = {"copilot/llm"}
      BY <3>1, TupleFacts
    <3> QED BY <1>3, <1>4, <2>1, <3>1, <3>2, StepFacts DEF Rests, StepsOf
  <2>2. CASE todo = <<"copilot/llm">>
    <3>1. Tail(todo) = <<>> /\ Head(todo) = "copilot/llm"
          /\ Range(todo) = {"copilot/llm"} /\ Range(Tail(todo)) = {}
      BY <2>2, TupleFacts
    <3> QED BY <1>3, <1>4, <2>2, <3>1, StepFacts DEF Rests, StepsOf
  <2>3. CASE todo = <<>>
    BY <1>3, <1>4, <2>3, TupleFacts, StepFacts DEF Rests, StepsOf
  <2> QED BY <1>4, <2>1, <2>2, <2>3 DEF Rests
<1>5. CASE path = "privileged"
  <2>1. CASE todo = PrivilegedPath
    <3>1. /\ todo = <<"copilot/specialist", "specialist/ops", "specialist/inspect", "specialist/llm">>
          /\ Tail(todo) = <<"specialist/ops", "specialist/inspect", "specialist/llm">>
          /\ Head(todo) = "copilot/specialist"
      BY <2>1, TupleFacts DEF PrivilegedPath
    <3>2. /\ Range(todo) = {"copilot/specialist", "specialist/ops", "specialist/inspect", "specialist/llm"}
          /\ Range(Tail(todo)) = {"specialist/ops", "specialist/inspect", "specialist/llm"}
      BY <3>1, TupleFacts
    <3> QED BY <1>3, <1>5, <2>1, <3>1, <3>2, StepFacts DEF Rests, StepsOf
  <2>2. CASE todo = <<"specialist/ops", "specialist/inspect", "specialist/llm">>
    <3>1. Tail(todo) = <<"specialist/inspect", "specialist/llm">> /\ Head(todo) = "specialist/ops"
      BY <2>2, TupleFacts
    <3>2. /\ Range(todo) = {"specialist/ops", "specialist/inspect", "specialist/llm"}
          /\ Range(Tail(todo)) = {"specialist/inspect", "specialist/llm"}
      BY <2>2, <3>1, TupleFacts
    <3> QED BY <1>3, <1>5, <2>2, <3>1, <3>2, StepFacts DEF Rests, StepsOf
  <2>3. CASE todo = <<"specialist/inspect", "specialist/llm">>
    <3>1. Tail(todo) = <<"specialist/llm">> /\ Head(todo) = "specialist/inspect"
      BY <2>3, TupleFacts
    <3>2. Range(todo) = {"specialist/inspect", "specialist/llm"} /\ Range(Tail(todo)) = {"specialist/llm"}
      BY <2>3, <3>1, TupleFacts
    <3> QED BY <1>3, <1>5, <2>3, <3>1, <3>2, StepFacts DEF Rests, StepsOf
  <2>4. CASE todo = <<"specialist/llm">>
    <3>1. /\ Tail(todo) = <<>> /\ Head(todo) = "specialist/llm"
          /\ Range(todo) = {"specialist/llm"} /\ Range(Tail(todo)) = {}
      BY <2>4, TupleFacts
    <3> QED BY <1>3, <1>5, <2>4, <3>1, StepFacts DEF Rests, StepsOf
  <2>5. CASE todo = <<>>
    BY <1>3, <1>5, <2>5, TupleFacts, StepFacts DEF Rests, StepsOf
  <2> QED BY <1>5, <2>1, <2>2, <2>3, <2>4, <2>5 DEF Rests
<1> QED BY <1>4, <1>5

\* The exchange of a token that is presented is behind the flow.
LEMMA PresentedFacts ==
    ASSUME TypeOK, NEW f \in DOMAIN flows, NEW h \in Presented(f)
    PROVE  /\ h \in OnPath(flows[f].path) /\ h \notin Range(flows[f].todo)
           /\ h \in {"copilot/mcp", "specialist/ops", "specialist/inspect"}
<1>1. PICK path, todo : path = flows[f].path /\ todo = flows[f].todo
  OBVIOUS
<1>2. Range(<<>>) = {} /\ Range(<<"specialist/llm">>) = {"specialist/llm"}
  BY TupleFacts
<1>3. CASE path = "read" /\ todo = <<>>
  <2>1. h = "copilot/mcp"
    BY <1>1, <1>3 DEF Presented
  <2> QED BY <1>1, <1>2, <1>3, <2>1, StepFacts
<1>4. CASE path = "privileged" /\ todo \in {<<>>, <<"specialist/llm">>}
  <2>1. h \in {"specialist/ops", "specialist/inspect"}
    BY <1>1, <1>4 DEF Presented
  <2>2. "specialist/ops" # "specialist/llm" /\ "specialist/inspect" # "specialist/llm"
    OBVIOUS
  <2> QED BY <1>1, <1>2, <1>4, <2>1, <2>2, StepFacts
<1> QED BY <1>1, <1>3, <1>4 DEF Presented

\* The token a helper uses is the user's, and without caching one it minted.
LEMMA ObtainedFacts ==
    ASSUME TypeOK, OneUser, NEW h \in Helpers, NEW s \in Sessions, NEW root \in Sessions,
           NEW f \in Nat, userOf[root] = userOf[s], NEW tok \in Obtained(h, s, root, f)
    PROVE  /\ tok \in TokenRec /\ userOf[tok.root] = userOf[s]
           /\ tok.by = f \/ \E e \in cache : e.key[1] = h /\ e.tok = tok
           /\ ~caching => tok.root = root /\ tok.by = f
<1>1. CASE tok = Minted(root, f)
  BY <1>1 DEF Minted, Again, TokenRec
<1>2. CASE tok # Minted(root, f)
  <2>1. PICK e \in Hits(h, s) : tok = e.tok
    BY <1>2 DEF Obtained
  <2>2. e \in cache /\ e.key = <<h, userOf[s]>>
    BY DEF Hits, CacheKey
  <2>3. e.tok \in TokenRec /\ e.key[1] = h /\ e.key[2] = userOf[s]
    BY <2>2 DEF TypeOK, CacheEntry
  <2> QED BY <2>1, <2>2, <2>3 DEF OneUser
<1> QED BY <1>1, <1>2

\* Storing such a token keeps the cache.
LEMMA StoredFacts ==
    ASSUME TypeOK, OneUser, NEW h \in Helpers, NEW s \in Sessions, NEW tok \in TokenRec,
           userOf[tok.root] = userOf[s]
    PROVE  /\ Stored(h, s, tok) \subseteq CacheEntry
           /\ \A e \in Stored(h, s, tok) : /\ userOf[e.tok.root] = e.key[2]
                                           /\ e \in cache \/ (e.key[1] = h /\ e.tok = tok)
           /\ ~caching => Stored(h, s, tok) = {}
<1>1. PICK n : n = [key |-> CacheKey(h, s), tok |-> tok]
  OBVIOUS
<1>2. n \in CacheEntry /\ n.tok = tok /\ n.key[1] = h /\ n.key[2] = userOf[s]
  BY <1>1 DEF CacheEntry, CacheKey, TypeOK
<1>3. Stored(h, s, tok) \subseteq cache \cup {n} /\ (~caching => Stored(h, s, tok) = cache)
  BY <1>1 DEF Stored
<1> QED BY <1>2, <1>3 DEF TypeOK, OneUser

\* What a step tells of the flows and slots it leaves alone.
LEMMA FilledSlot ==
    ASSUME TypeOK, SlotsOwn, NEW h \in Helpers, Filled(h)
    PROVE  /\ slots[h] \in Slot /\ slots[h].at \in Nat /\ slots[h].at <= clock
           /\ slots[h].tok \in TokenRec
           /\ ~caching => By(h) \in DOMAIN flows
BY DEF TypeOK, Filled, Slot, SlotsOwn, SlotOwn, By

\* A running flow f, of login s, uses token tok in helper h and leaves m in its slot;
\* n is what becomes of the flow.
NewFlow(f, s, h, n) ==
    /\ n \in Flow /\ n.session = s /\ n.path = flows[f].path /\ n.after = flows[f].after
    /\ ~n.over /\ n.todo \in Rests(n.path)
    /\ h \notin Range(n.todo) /\ Range(n.todo) \subseteq Range(flows[f].todo)
    /\ Range(flows[f].todo) \subseteq Range(n.todo) \cup {h}
    /\ n.root \in Sessions /\ userOf[n.root] = userOf[s] /\ (~caching => n.root = s)

Uses(f, s, h, tok) ==
    /\ f \in Nat /\ Running(f) /\ s = flows[f].session /\ s \in Sessions
    /\ h \in Helpers /\ h \in OnPath(flows[f].path)
    /\ tok \in TokenRec /\ userOf[tok.root] = userOf[s]
    /\ tok.by = f \/ \E e \in cache : e.key[1] = h /\ e.tok = tok
    /\ ~caching => tok.root = s /\ tok.by = f

\* In the order of the path, unless the token is acquired again.
InOrder(f, h, tok) ==
    /\ h = "copilot/llm" => flows[f].path = "read" /\ "copilot/mcp" \notin Range(flows[f].todo)
    /\ tok.nth = 0 /\ ~caching =>
          /\ h = "copilot/mcp" => "copilot/llm" \in Range(flows[f].todo)
          /\ h = "specialist/ops" => "specialist/llm" \in Range(flows[f].todo)

Caches(h, tok) ==
    /\ \A e \in cache' : /\ e \in CacheEntry /\ userOf[e.tok.root] = e.key[2]
                         /\ e \in cache \/ (e.key[1] = h /\ e.tok = tok)
    /\ ~caching => cache' = {}

Stamped(f, s, h, tok, n, m) ==
    /\ Uses(f, s, h, tok) /\ InOrder(f, h, tok) /\ NewFlow(f, s, h, n) /\ Caches(h, tok)
    /\ UNCHANGED <<caching, userOf, snapshots>> /\ again' \in Nat
    /\ flows' \in Seq(Flow) /\ DOMAIN flows' = DOMAIN flows /\ flows'[f] = n
    /\ \A g \in DOMAIN flows \ {f} : flows'[g] = flows[g]
    /\ clock' \in Nat /\ clock <= clock'
    /\ m \in Slot /\ m # NoSlot /\ m.sub = userOf[s] /\ m.jti = s /\ m.tok = tok
    /\ m.at = IF h \in Compared THEN clock' ELSE 0
    /\ slots' \in [Helpers -> {NoSlot} \cup Slot] /\ slots'[h] = m
    /\ \A g \in Helpers \ {h} : slots'[g] = slots[g]

LEMMA StampFacts ==
    ASSUME TypeOK, NEW f \in DOMAIN flows, NEW s, NEW h, NEW tok, NEW n, NEW now \in Nat,
           Uses(f, s, h, tok), InOrder(f, h, tok), NewFlow(f, s, h, n), Caches(h, tok),
           UNCHANGED <<caching, userOf, snapshots>>, again' \in Nat,
           flows' = [flows EXCEPT ![f] = n], slots' = Stamp(h, s, tok, now),
           clock' = now, clock <= now
    PROVE  \E m : Stamped(f, s, h, tok, n, m)
<1>1. s \in Sessions /\ h \in Helpers /\ tok \in TokenRec /\ userOf[s] \in Users
  BY DEF Uses, TypeOK
<1>2. PICK at \in Nat : at = IF h \in Compared THEN now ELSE 0
  OBVIOUS
<1>3. PICK m : m = [sub |-> userOf[s], jti |-> s, tok |-> tok, at |-> at]
  OBVIOUS
<1>4. m \in Slot /\ m.sub = userOf[s] /\ m.jti = s /\ m.tok = tok /\ m.at = at
  BY <1>1, <1>3 DEF Slot
<1>5. m # NoSlot
  BY <1>3 DEF NoSlot
<1>6. slots' = [slots EXCEPT ![h] = m]
  BY <1>2, <1>3 DEF Stamp
<1>7. /\ slots' \in [Helpers -> {NoSlot} \cup Slot] /\ slots'[h] = m
      /\ \A g \in Helpers \ {h} : slots'[g] = slots[g]
  BY <1>1, <1>4, <1>6 DEF TypeOK
<1>8. n \in Flow
  BY DEF NewFlow
<1>9. /\ flows' \in Seq(Flow) /\ DOMAIN flows' = DOMAIN flows /\ flows'[f] = n
      /\ \A g \in DOMAIN flows \ {f} : flows'[g] = flows[g]
  BY <1>8 DEF TypeOK
<1>10. m.at = IF h \in Compared THEN clock' ELSE 0
  BY <1>2, <1>4
<1> QED BY <1>4, <1>5, <1>7, <1>9, <1>10 DEF Stamped

\* Time at a stamp.
LEMMA TickFacts ==
    ASSUME TypeOK, NEW h, clock' \in Ticks(h)
    PROVE  clock' \in Nat /\ clock <= clock'
BY DEF TypeOK, Ticks, Later

LEMMA ExchangeFacts ==
    ASSUME IndInv, NEW f \in DOMAIN flows, Exchange(f)
    PROVE  \E s, h, tok, n, m : Stamped(f, s, h, tok, n, m)
<1>1. PICK s, h, root, path, todo : /\ s = flows[f].session /\ h = Head(flows[f].todo)
                                    /\ root = SubjectRoot(f, h) /\ path = flows[f].path
                                    /\ todo = flows[f].todo
  OBVIOUS
<1>2. TypeOK /\ OneUser /\ FlowsOK /\ f \in Nat
  BY DEF IndInv, TypeOK
<1>3. /\ Running(f) /\ todo # <<>> /\ clock' \in Ticks(h)
      /\ UNCHANGED <<caching, userOf, snapshots, again>>
  BY <1>1 DEF Exchange, config
<1>4. PICK tok \in Obtained(h, s, root, f) :
        /\ flows' = [flows EXCEPT ![f].todo = Tail(@),
                                  ![f].root = IF h \in LlmHelpers THEN @ ELSE tok.root]
        /\ slots' = Stamp(h, s, tok, clock')
        /\ cache' = Stored(h, s, tok)
  BY <1>1 DEF Exchange
<1>5. PICK o \in Flow : o = flows[f]
  BY <1>2 DEF TypeOK
<1>6. /\ s \in Sessions /\ path \in {"read", "privileged"} /\ todo \in Rests(path)
      /\ root \in Sessions /\ userOf[root] = userOf[s] /\ (~caching => root = s)
  BY <1>1, <1>2, <1>5 DEF Flow, SubjectRoot, OneUser, FlowsOK, FlowOK
<1>7. /\ todo \in Seq(Helpers) /\ Tail(todo) \in Rests(path) /\ Range(todo) \subseteq OnPath(path)
      /\ h \in Range(todo) /\ Range(Tail(todo)) = Range(todo) \ {h}
      /\ h = "copilot/llm" => path = "read" /\ "copilot/mcp" \notin Range(todo)
      /\ h = "copilot/mcp" => "copilot/llm" \in Range(todo)
      /\ h = "specialist/ops" => "specialist/llm" \in Range(todo)
  BY <1>1, <1>3, <1>6, RestFacts
<1>8. h \in Helpers /\ h \in OnPath(path)
  BY <1>6, <1>7, HelperFacts
<1>9. /\ tok \in TokenRec /\ userOf[tok.root] = userOf[s]
      /\ tok.by = f \/ \E e \in cache : e.key[1] = h /\ e.tok = tok
      /\ ~caching => tok.root = root /\ tok.by = f
  BY <1>2, <1>6, <1>8, ObtainedFacts
<1>10. PICK r \in Sessions : /\ r = IF h \in LlmHelpers THEN o.root ELSE tok.root
                             /\ userOf[r] = userOf[s] /\ (~caching => r = s)
  BY <1>1, <1>2, <1>5, <1>6, <1>9 DEF Flow, TokenRec, OneUser
<1>11. PICK n : n = [o EXCEPT !.todo = Tail(todo), !.root = r]
  OBVIOUS
<1>12. Tail(todo) \in Seq(Helpers)
  BY <1>6, <1>7, RestFacts
<1>13. n \in Flow /\ n.session = s /\ n.root = r /\ n.todo = Tail(todo) /\ n.path = path /\ n.after = o.after
  BY <1>1, <1>5, <1>10, <1>11, <1>12 DEF Flow
<1>14. ~n.over
  BY <1>3, <1>5, <1>11, Zenon DEF Running, Flow
<1>15. flows' = [flows EXCEPT ![f] = n]
  BY <1>1, <1>2, <1>4, <1>5, <1>10, <1>11 DEF TypeOK
<1>16. NewFlow(f, s, h, n)
  BY <1>1, <1>5, <1>7, <1>10, <1>13, <1>14 DEF NewFlow
<1>17. Uses(f, s, h, tok)
  BY <1>1, <1>2, <1>3, <1>6, <1>8, <1>9 DEF Uses
<1>18. InOrder(f, h, tok)
  BY <1>1, <1>7 DEF InOrder
<1>19. Caches(h, tok)
  BY <1>2, <1>4, <1>6, <1>8, <1>9, StoredFacts DEF Caches
<1>20. PICK now \in Nat : now = clock' /\ clock <= now
  BY <1>2, <1>3, TickFacts
<1>21. slots' = Stamp(h, s, tok, now) /\ again' \in Nat
  BY <1>2, <1>3, <1>4, <1>20 DEF TypeOK
<1> QED BY <1>2, <1>3, <1>15, <1>16, <1>17, <1>18, <1>19, <1>20, <1>21, StampFacts

\* A token acquired again is stamped, too.
LEMMA AgainFacts ==
    ASSUME IndInv, NEW f \in DOMAIN flows, NEW h \in Presented(f), NEW tok,
           tok = Again(SubjectRoot(f, h), f, again + 1), Running(f),
           again' = again + 1, clock' \in Ticks(h),
           flows' = [flows EXCEPT ![f].root = tok.root],
           slots' = Stamp(h, flows[f].session, tok, clock'),
           cache' = Stored(h, flows[f].session, tok),
           UNCHANGED <<caching, userOf, snapshots>>
    PROVE  \E s, n, m : Stamped(f, s, h, tok, n, m)
<1>1. PICK s, root, path, todo : /\ s = flows[f].session /\ root = SubjectRoot(f, h)
                                 /\ path = flows[f].path /\ todo = flows[f].todo
  OBVIOUS
<1>2. TypeOK /\ OneUser /\ FlowsOK /\ f \in Nat /\ again \in Nat
  BY DEF IndInv, TypeOK
<1>3. PICK o \in Flow : o = flows[f]
  BY <1>2 DEF TypeOK
<1>4. /\ s \in Sessions /\ path \in {"read", "privileged"} /\ todo \in Rests(path)
      /\ root \in Sessions /\ userOf[root] = userOf[s] /\ (~caching => root = s)
  BY <1>1, <1>2, <1>3 DEF Flow, SubjectRoot, OneUser, FlowsOK, FlowOK
<1>5. /\ h \in OnPath(path) /\ h \notin Range(todo) /\ h # "copilot/llm"
  BY <1>1, <1>2, PresentedFacts
<1>6. h \in Helpers
  BY <1>4, <1>5, HelperFacts
<1>7. /\ tok \in TokenRec /\ tok.root = root /\ tok.by = f /\ tok.nth # 0
  BY <1>1, <1>2, <1>4 DEF Again, TokenRec
<1>8. PICK n : n = [o EXCEPT !.root = root]
  OBVIOUS
<1>9. n \in Flow /\ n.session = s /\ n.root = root /\ n.todo = todo /\ n.path = path /\ n.after = o.after
  BY <1>1, <1>3, <1>4, <1>8 DEF Flow
<1>10. ~n.over
  BY <1>3, <1>8, Zenon DEF Running, Flow
<1>11. flows' = [flows EXCEPT ![f] = n]
  BY <1>2, <1>3, <1>7, <1>8 DEF TypeOK
<1>12. NewFlow(f, s, h, n)
  BY <1>1, <1>3, <1>4, <1>5, <1>9, <1>10 DEF NewFlow
<1>13. Uses(f, s, h, tok)
  BY <1>1, <1>2, <1>4, <1>5, <1>6, <1>7 DEF Uses
<1>14. InOrder(f, h, tok)
  BY <1>5, <1>7 DEF InOrder
<1>15. Caches(h, tok)
  BY <1>1, <1>2, <1>4, <1>6, <1>7, StoredFacts DEF Caches
<1>16. PICK now \in Nat : now = clock' /\ clock <= now
  BY <1>2, TickFacts
<1>17. slots' = Stamp(h, s, tok, now) /\ again' \in Nat
  BY <1>1, <1>2, <1>16
<1> QED BY <1>2, <1>11, <1>12, <1>13, <1>14, <1>15, <1>16, <1>17, StampFacts

\* And the exchange of an MCP server.
LEMMA ToolFacts ==
    ASSUME IndInv, NEW f \in DOMAIN flows, NEW h \in Servers(flows[f].path), ToolCall(f, h)
    PROVE  \E s, tok, n, m : Stamped(f, s, h, tok, n, m)
<1>1. PICK s, root, path, tok : /\ s = flows[f].session /\ root = flows[f].root
                                /\ path = flows[f].path /\ tok = Minted(root, f)
  OBVIOUS
<1>2. TypeOK /\ OneUser /\ FlowsOK /\ f \in Nat /\ again \in Nat /\ clock \in Nat
  BY DEF IndInv, TypeOK
<1>3. PICK n \in Flow : n = flows[f]
  BY <1>2 DEF TypeOK
<1>4. /\ s \in Sessions /\ path \in {"read", "privileged"}
      /\ root \in Sessions /\ userOf[root] = userOf[s] /\ (~caching => root = s)
  BY <1>1, <1>2, <1>3 DEF Flow, OneUser
<1>5. /\ Running(f) /\ flows[f].todo = <<>> /\ flows' = flows /\ slots' = Stamp(h, s, tok, clock)
      /\ UNCHANGED <<cache, snapshots, again, clock, caching, userOf>>
  BY <1>1 DEF ToolCall, config
<1>6. h \in {"mcp-inspect", "mcp-ops"} /\ h \in OnPath(path) /\ h \in Helpers
  BY <1>1, <1>4, HelperFacts DEF Servers
<1>7. tok \in TokenRec /\ tok.root = root /\ tok.by = f
  BY <1>1, <1>2, <1>4 DEF Minted, Again, TokenRec
<1>8. Range(flows[f].todo) = {}
  BY <1>5, TupleFacts
<1>9. ~n.over
  BY <1>3, <1>5, Zenon DEF Running
<1>10. n.todo \in Rests(n.path)
  BY <1>2, <1>3 DEF FlowsOK, FlowOK
<1>11. NewFlow(f, s, h, n)
  BY <1>1, <1>3, <1>4, <1>8, <1>9, <1>10 DEF NewFlow
<1>12. Uses(f, s, h, tok)
  BY <1>1, <1>2, <1>4, <1>5, <1>6, <1>7 DEF Uses
<1>13. InOrder(f, h, tok)
  BY <1>6 DEF InOrder
<1>14. Caches(h, tok)
  BY <1>2, <1>5 DEF Caches, OneUser, TypeOK
<1>15. flows' = [flows EXCEPT ![f] = n]
  BY <1>2, <1>3, <1>5 DEF TypeOK
<1>16. PICK now \in Nat : now = clock
  BY <1>2
<1>17. clock' = now /\ clock <= now /\ again' \in Nat /\ slots' = Stamp(h, s, tok, now)
       /\ UNCHANGED <<caching, userOf, snapshots>>
  BY <1>2, <1>5, <1>16
<1> QED BY <1>2, <1>11, <1>12, <1>13, <1>14, <1>15, <1>16, <1>17, StampFacts

\* A stamp keeps the invariant.
LEMMA StampInv ==
    ASSUME IndInv, NEW f \in DOMAIN flows, NEW s, NEW h, NEW tok, NEW n, NEW m,
           Stamped(f, s, h, tok, n, m)
    PROVE  IndInv'
<1>1. /\ TypeOK /\ OneUser /\ SlotsOwn /\ FlowsOK /\ clock \in Nat
      /\ UNCHANGED <<caching, userOf>> /\ again' \in Nat
  BY DEF IndInv, TypeOK, Stamped
<1>2. /\ f \in Nat /\ ~flows[f].over /\ s = flows[f].session /\ s \in Sessions
      /\ h \in Helpers /\ tok \in TokenRec /\ userOf[tok.root] = userOf[s]
      /\ ~caching => tok.root = s /\ tok.by = f
  BY DEF Stamped, Uses, Running
<1>3. /\ n \in Flow /\ n.session = s /\ n.path = flows[f].path /\ n.after = flows[f].after
      /\ ~n.over /\ n.todo \in Rests(n.path)
      /\ h \notin Range(n.todo) /\ Range(n.todo) \subseteq Range(flows[f].todo)
      /\ Range(flows[f].todo) \subseteq Range(n.todo) \cup {h}
      /\ n.root \in Sessions /\ userOf[n.root] = userOf[s] /\ (~caching => n.root = s)
  BY DEF Stamped, NewFlow
<1>4. /\ flows' \in Seq(Flow) /\ DOMAIN flows' = DOMAIN flows /\ flows'[f] = n
      /\ \A g \in DOMAIN flows \ {f} : flows'[g] = flows[g]
  BY DEF Stamped
<1>5. /\ \A g \in DOMAIN flows : /\ flows'[g].session = flows[g].session
                                 /\ flows'[g].path = flows[g].path
                                 /\ flows'[g].after = flows[g].after
                                 /\ Range(flows'[g].todo) \subseteq Range(flows[g].todo)
      /\ \A g \in DOMAIN flows : flows'[g].over <=> flows[g].over
  <2>1. \A g \in DOMAIN flows : /\ flows'[g].session = flows[g].session
                                /\ flows'[g].path = flows[g].path
                                /\ flows'[g].after = flows[g].after
                                /\ Range(flows'[g].todo) \subseteq Range(flows[g].todo)
    BY <1>2, <1>3, <1>4
  <2>2. \A g \in DOMAIN flows : flows'[g].over <=> flows[g].over
    BY <1>2, <1>3, <1>4, Zenon
  <2> QED BY <2>1, <2>2
<1>6. clock' \in Nat /\ clock <= clock'
  BY DEF Stamped
<1>7. /\ m \in Slot /\ m # NoSlot /\ m.sub = userOf[s] /\ m.jti = s /\ m.tok = tok
      /\ m.at = (IF h \in Compared THEN clock' ELSE 0) /\ m.at \in Nat
  BY DEF Stamped, Slot
<1>8. /\ slots' \in [Helpers -> {NoSlot} \cup Slot] /\ slots'[h] = m
      /\ \A g \in Helpers \ {h} : slots'[g] = slots[g]
  BY DEF Stamped
<1>9. Filled(h)' /\ \A g \in Helpers \ {h} : (Filled(g)' <=> Filled(g)) /\ By(g)' = By(g)
  BY <1>7, <1>8 DEF Filled, By, NoSlot
<1>10. TypeOK'
  <2>1. cache' \subseteq CacheEntry
    BY DEF Stamped, Caches
  <2> QED BY <1>1, <1>4, <1>6, <1>8, <2>1 DEF TypeOK
<1>11. OneUser'
  <2>1. (\A e \in cache' : userOf[e.tok.root] = e.key[2]) /\ (~caching => cache' = {})
    BY DEF Stamped, Caches
  <2> QED BY <1>1, <1>3, <1>4, <2>1 DEF OneUser
<1>12. SlotsOwn'
  <2> SUFFICES ASSUME NEW g \in Helpers, SlotOwn(g), Filled(g)' PROVE SlotOwn(g)'
    BY <1>1 DEF SlotsOwn, SlotOwn
  <2>1. CASE g = h
    <3>1. m.at <= clock'
      BY <1>6, <1>7
    <3>2. f \in DOMAIN flows' /\ flows'[f].session = s
      BY <1>3, <1>4
    <3> QED BY <1>1, <1>2, <1>7, <1>8, <2>1, <3>1, <3>2 DEF SlotOwn
  <2>2. CASE g # h
    <3>1. slots'[g] = slots[g] /\ Filled(g)
      BY <1>8, <1>9, <2>2
    <3>2. slots[g].at <= clock'
      BY <1>1, <1>6, <3>1, FilledSlot
    <3> QED BY <1>1, <1>4, <1>5, <3>1, <3>2 DEF SlotOwn
  <2> QED BY <2>1, <2>2
<1>13. FlowsOK'
  <2> SUFFICES ASSUME NEW g \in DOMAIN flows, FlowOK(g) PROVE FlowOK(g)'
    BY <1>1, <1>4 DEF FlowsOK
  <2>1. flows'[g].todo \in Rests(flows'[g].path)
    BY <1>3, <1>4 DEF FlowOK
  <2>2. \A k \in flows[g].after : k \in DOMAIN flows /\ flows[k].over
    BY DEF FlowOK
  <2>3. ASSUME NEW k \in flows'[g].after PROVE k \in DOMAIN flows' /\ flows'[k].over
    <3>1. k \in DOMAIN flows /\ flows[k].over
      BY <1>5, <2>2, <2>3
    <3>2. flows'[k].over
      BY <1>5, <3>1, Zenon
    <3> QED BY <1>4, <3>1, <3>2
  <2> QED BY <2>1, <2>3 DEF FlowOK
<1>14. \A g \in DOMAIN flows : f \notin flows[g].after
  BY <1>1, <1>2, Zenon DEF FlowsOK, FlowOK
<1>15. ASSUME ~caching PROVE Uncached'
  <2>1. Earlier /\ Behind /\ SinceMcp /\ LeavesAfter
    BY <1>15 DEF IndInv, Uncached
  <2>2. By(h)' = f
    BY <1>2, <1>7, <1>8, <1>15 DEF By
  <2>3. \A g \in Helpers : Filled(g) => /\ slots[g].at \in Nat /\ slots[g].at <= clock
                                        /\ By(g) \in DOMAIN flows
    BY <1>1, <1>15, FilledSlot
  <2>4. Compared \subseteq Helpers /\ {"copilot/mcp", "copilot/llm", "specialist/ops", "specialist/llm"} \subseteq Compared
    BY HelperFacts DEF Compared, LlmHelpers
  <2>5. Earlier'
    <3> SUFFICES ASSUME NEW j \in Compared, Filled(j)'
                 PROVE  /\ \A g \in DOMAIN flows' : By(j)' \in flows'[g].after => slots'[j].at < clock'
                        /\ \A k \in Compared : Filled(k)' /\ By(j)' \in flows'[By(k)'].after
                                                  => slots'[j].at < slots'[k].at
      BY DEF Earlier
    <3>1. CASE j = h
      <4>1. \A g \in DOMAIN flows : By(j)' \notin flows'[g].after
        BY <1>5, <1>14, <2>2, <3>1
      <4>2. \A k \in Compared : Filled(k)' => By(k)' \in DOMAIN flows
        BY <1>9, <2>2, <2>3, <2>4
      <4> QED BY <1>4, <4>1, <4>2
    <3>2. CASE j # h
      <4>1. slots'[j] = slots[j] /\ Filled(j) /\ By(j)' = By(j) /\ j \in Helpers
        BY <1>8, <1>9, <2>4, <3>2
      <4>2. ASSUME NEW g \in DOMAIN flows', By(j)' \in flows'[g].after
            PROVE  slots[j].at < clock /\ slots[j].at < clock'
        <5>1. By(j) \in flows[g].after /\ g \in DOMAIN flows
          BY <1>4, <1>5, <4>1, <4>2
        <5>2. slots[j].at < clock
          BY <2>1, <4>1, <5>1 DEF Earlier
        <5> QED BY <1>1, <1>6, <2>3, <4>1, <5>2
      <4>3. ASSUME NEW k \in Compared, Filled(k)', By(j)' \in flows'[By(k)'].after
            PROVE  slots'[j].at < slots'[k].at
        <5>1. CASE k = h
          <6>1. By(k)' = f /\ slots'[k].at = clock'
            BY <1>7, <1>8, <2>2, <4>3, <5>1
          <6> QED BY <1>4, <4>1, <4>2, <4>3, <6>1
        <5>2. CASE k # h
          <6>1. slots'[k] = slots[k] /\ Filled(k) /\ By(k)' = By(k) /\ By(k) \in DOMAIN flows
            BY <1>8, <1>9, <2>3, <2>4, <4>3, <5>2
          <6>2. By(j) \in flows[By(k)].after
            BY <1>5, <4>1, <4>3, <6>1
          <6> QED BY <2>1, <4>1, <6>1, <6>2 DEF Earlier
        <5> QED BY <5>1, <5>2
      <4> QED BY <4>1, <4>2, <4>3
    <3> QED BY <3>1, <3>2
  <2>6. Behind'
    <3> SUFFICES ASSUME NEW j \in Helpers, Filled(j)' PROVE j \notin Range(flows'[By(j)'].todo)
      BY DEF Behind
    <3>1. CASE j = h
      BY <1>3, <1>4, <2>2, <3>1
    <3>2. CASE j # h
      <4>1. Filled(j) /\ By(j)' = By(j) /\ By(j) \in DOMAIN flows
        BY <1>9, <2>3, <3>2
      <4> QED BY <1>5, <2>1, <4>1 DEF Behind
    <3> QED BY <3>1, <3>2
  <2>7. ASSUME NEW g \in DOMAIN flows, McpSince(g) PROVE McpSince(g)'
    <3>1. CASE h = "copilot/mcp"
      BY <1>5, <1>9, <1>14, <2>2, <3>1 DEF McpSince
    <3>2. CASE h # "copilot/mcp"
      <4>1. "copilot/mcp" \in Helpers \ {h}
        BY <2>4, <3>2
      <4> QED BY <1>5, <1>9, <2>7, <4>1 DEF McpSince
    <3> QED BY <3>1, <3>2
  <2>8. h = "copilot/mcp" => McpSince(f)'
    BY <1>5, <1>9, <1>14, <2>2 DEF McpSince
  <2>9. SinceMcp'
    <3>1. ASSUME NEW g \in DOMAIN flows', flows'[g].path = "read", ~flows'[g].over,
                 "copilot/mcp" \notin Range(flows'[g].todo)
          PROVE  McpSince(g)'
      <4>1. g \in DOMAIN flows /\ flows[g].path = "read"
        BY <1>4, <1>5, <3>1
      <4>2. ~flows[g].over
        BY <1>5, <3>1, <4>1, Zenon
      <4>3. CASE "copilot/mcp" \notin Range(flows[g].todo)
        <5>1. McpSince(g)
          BY <2>1, <4>1, <4>2, <4>3 DEF SinceMcp
        <5> QED BY <2>7, <4>1, <5>1
      <4>4. CASE "copilot/mcp" \in Range(flows[g].todo)
        <5>1. g = f /\ h = "copilot/mcp"
          BY <1>3, <1>4, <3>1, <4>1, <4>4
        <5> QED BY <2>8, <5>1
      <4> QED BY <4>3, <4>4
    <3>2. ASSUME NEW g, g = By("copilot/llm")', Filled("copilot/llm")' PROVE McpSince(g)'
      <4>1. CASE h = "copilot/llm"
        <5>1. flows[f].path = "read" /\ "copilot/mcp" \notin Range(flows[f].todo)
          BY <4>1 DEF Stamped, InOrder
        <5>2. McpSince(f)
          BY <1>2, <2>1, <5>1 DEF SinceMcp
        <5>3. g = f
          BY <2>2, <3>2, <4>1
        <5> QED BY <2>7, <5>2, <5>3
      <4>2. CASE h # "copilot/llm"
        <5>1. Filled("copilot/llm") /\ By("copilot/llm") = g /\ g \in DOMAIN flows
          BY <1>9, <2>3, <2>4, <3>2, <4>2
        <5>2. McpSince(g)
          BY <2>1, <5>1 DEF SinceMcp, McpSince
        <5> QED BY <2>7, <5>1, <5>2
      <4> QED BY <4>1, <4>2
    <3>3. PICK g : g = By("copilot/llm")'
      OBVIOUS
    <3>4. Filled("copilot/llm")' =>
             Filled("copilot/mcp")' /\ By("copilot/mcp")' \notin flows'[By("copilot/llm")'].after
      BY <3>2, <3>3 DEF McpSince
    <3> QED BY <3>1, <3>4 DEF SinceMcp
  <2>10. LeavesAfter'
    <3>1. ASSUME NEW top, NEW leaf,
                 (top = "copilot/mcp" /\ leaf = "copilot/llm") \/ (top = "specialist/ops" /\ leaf = "specialist/llm")
          PROVE  LeafAfter(top, leaf)'
      <4> SUFFICES ASSUME Filled(top)', Filled(leaf)', By(top)' = By(leaf)', slots'[top].tok.nth = 0
                   PROVE  slots'[top].at <= slots'[leaf].at
        BY DEF LeafAfter
      <4>0. top \in Compared /\ leaf \in Compared /\ top # leaf /\ top \in Helpers /\ leaf \in Helpers
        BY <2>4, <3>1
      <4>1. CASE h = top
        <5>1. tok.nth = 0
          BY <1>7, <1>8, <4>1
        <5>2. leaf \in Range(flows[f].todo)
          BY <1>15, <3>1, <4>1, <5>1 DEF Stamped, InOrder
        <5>3. Filled(leaf) /\ By(leaf) = f
          BY <1>9, <2>2, <4>0, <4>1
        <5> QED BY <2>1, <4>0, <5>2, <5>3 DEF Behind
      <4>2. CASE h = leaf
        <5>1. slots'[leaf].at = clock' /\ slots'[top] = slots[top] /\ Filled(top)
          BY <1>7, <1>8, <1>9, <4>0, <4>2
        <5> QED BY <1>1, <1>6, <2>3, <4>0, <5>1
      <4>3. CASE h # top /\ h # leaf
        <5>1. /\ slots'[leaf] = slots[leaf] /\ slots'[top] = slots[top] /\ Filled(top) /\ Filled(leaf)
              /\ By(top) = By(leaf)
          BY <1>8, <1>9, <4>0, <4>3
        <5> QED BY <2>1, <3>1, <5>1 DEF LeavesAfter, LeafAfter
      <4> QED BY <4>1, <4>2, <4>3
    <3> QED BY <3>1 DEF LeavesAfter
  <2> QED BY <2>5, <2>6, <2>9, <2>10 DEF Uncached
<1> QED BY <1>1, <1>10, <1>11, <1>12, <1>13, <1>15 DEF IndInv

\* A question begins: later than every stamp.
LEMMA BeginInv ==
    ASSUME IndInv, NEW s \in Sessions, NEW path \in {"read", "privileged"}, Begin(s, path)
    PROVE  IndInv'
<1>1. /\ TypeOK /\ OneUser /\ SlotsOwn /\ FlowsOK /\ clock \in Nat
      /\ UNCHANGED <<slots, cache, again, caching, userOf>>
  BY DEF IndInv, TypeOK, Begin, config
<1>2. PICK after : after = {f \in DOMAIN flows : flows[f].over}
  OBVIOUS
<1>3. PICK n : n = [session |-> s, path |-> path, todo |-> StepsOf(path), root |-> s,
                    over |-> FALSE, after |-> after]
  OBVIOUS
<1>4. /\ StepsOf(path) \in Rests(path) /\ StepsOf(path) \in Seq(Helpers)
      /\ path = "read" => "copilot/mcp" \in Range(StepsOf(path))
  <2>1. <<>> \in Rests(path)
    BY DEF Rests
  <2> QED BY <2>1, RestFacts
<1>5. after \in SUBSET Nat
  BY <1>1, <1>2 DEF TypeOK
<1>6. /\ n \in Flow /\ n.session = s /\ n.root = s /\ n.path = path /\ n.todo = StepsOf(path)
      /\ n.after = after
  BY <1>3, <1>4, <1>5 DEF Flow
<1>7. PICK k \in Nat : k = Len(flows) + 1
  BY <1>1 DEF TypeOK
<1>8. /\ flows' \in Seq(Flow) /\ DOMAIN flows' = DOMAIN flows \cup {k} /\ k \notin DOMAIN flows
      /\ flows'[k] = n /\ \A f \in DOMAIN flows : flows'[f] = flows[f]
  <2>1. flows' = Append(flows, n)
    BY <1>2, <1>3 DEF Begin
  <2> QED BY <1>1, <1>6, <1>7, <2>1 DEF TypeOK
<1>9. \A h : (Filled(h)' <=> Filled(h)) /\ By(h)' = By(h)
  BY <1>1 DEF Filled, By
<1>10. \A h \in Helpers : Filled(h) => slots[h].at \in Nat /\ slots[h].at <= clock
  BY <1>1, FilledSlot
<1>11. /\ clock' \in Nat /\ clock <= clock'
       /\ \A h \in Compared : Filled(h) => slots[h].at < clock'
  <2>1. clock' = IF \E h \in Compared : slots[h].at = clock THEN clock + 1 ELSE clock
    BY DEF Begin, Later
  <2>2. \A h \in Compared : Filled(h) => slots[h].at \in Nat /\ slots[h].at <= clock
    BY <1>10, HelperFacts
  <2> QED BY <1>1, <2>1, <2>2
<1>12. TypeOK' /\ OneUser'
  BY <1>1, <1>6, <1>8, <1>11 DEF TypeOK, OneUser
<1>13. SlotsOwn'
  <2> SUFFICES ASSUME NEW h \in Helpers, SlotOwn(h), Filled(h) PROVE SlotOwn(h)'
    BY <1>1, <1>9 DEF SlotsOwn, SlotOwn
  <2>1. slots[h].at <= clock'
    BY <1>1, <1>10, <1>11
  <2> QED BY <1>1, <1>8, <2>1 DEF SlotOwn
<1>14. FlowsOK'
  <2> SUFFICES ASSUME NEW g \in DOMAIN flows' PROVE FlowOK(g)'
    BY DEF FlowsOK
  <2>1. CASE g = k
    <3>1. \A i \in after : i \in DOMAIN flows /\ flows[i].over
      BY <1>2
    <3> QED BY <1>4, <1>6, <1>8, <2>1, <3>1 DEF FlowOK
  <2>2. CASE g # k
    <3>1. g \in DOMAIN flows /\ FlowOK(g)
      BY <1>1, <1>8, <2>2 DEF FlowsOK
    <3> QED BY <1>8, <3>1 DEF FlowOK
  <2> QED BY <2>1, <2>2
<1>15. ASSUME ~caching PROVE Uncached'
  <2>1. Earlier /\ Behind /\ SinceMcp /\ LeavesAfter
    BY <1>15 DEF IndInv, Uncached
  <2>2. \A h \in Helpers : Filled(h) => By(h) \in DOMAIN flows /\ flows'[By(h)] = flows[By(h)]
    BY <1>1, <1>8, <1>15, FilledSlot
  <2>3. Compared \subseteq Helpers /\ {"copilot/mcp", "copilot/llm"} \subseteq Helpers
    BY HelperFacts
  <2>4. Earlier'
    BY <1>1, <1>9, <1>11, <2>1, <2>2, <2>3 DEF Earlier
  <2>5. Behind'
    BY <1>9, <2>1, <2>2 DEF Behind
  <2>6. SinceMcp'
    <3>1. ASSUME NEW g \in DOMAIN flows', flows'[g].path = "read", ~flows'[g].over,
                 "copilot/mcp" \notin Range(flows'[g].todo)
          PROVE  McpSince(g)'
      <4>1. g # k
        BY <1>4, <1>6, <1>8, <3>1
      <4>2. McpSince(g) /\ flows'[g] = flows[g]
        BY <1>8, <2>1, <3>1, <4>1 DEF SinceMcp
      <4> QED BY <1>9, <4>2 DEF McpSince
    <3> QED BY <1>9, <2>1, <2>2, <2>3, <3>1 DEF SinceMcp
  <2>7. LeavesAfter'
    BY <1>1, <1>9, <2>1 DEF LeavesAfter, LeafAfter
  <2> QED BY <2>4, <2>5, <2>6, <2>7 DEF Uncached
<1> QED BY <1>1, <1>12, <1>13, <1>14, <1>15 DEF IndInv

\* A question is answered.
LEMMA EndInv == ASSUME IndInv, NEW f \in DOMAIN flows, End(f) PROVE IndInv'
<1>1. /\ TypeOK /\ OneUser /\ SlotsOwn /\ FlowsOK
      /\ UNCHANGED <<slots, cache, again, clock, caching, userOf>>
  BY DEF IndInv, End, config
<1>2. PICK o \in Flow : o = flows[f]
  BY <1>1 DEF TypeOK
<1>3. PICK n : n = [o EXCEPT !.over = TRUE, !.todo = <<>>, !.root = o.session]
  OBVIOUS
<1>4. <<>> \in Seq(Helpers)
  OBVIOUS
<1>5. /\ n \in Flow /\ n.session = o.session /\ n.root = o.session /\ n.path = o.path
      /\ n.todo = <<>> /\ n.after = o.after
  BY <1>2, <1>3, <1>4 DEF Flow
<1>6. n.over
  BY <1>2, <1>3, Zenon DEF Flow
<1>7. /\ flows' \in Seq(Flow) /\ DOMAIN flows' = DOMAIN flows /\ flows'[f] = n
      /\ \A g \in DOMAIN flows \ {f} : flows'[g] = flows[g]
  <2>1. flows' = [flows EXCEPT ![f] = n]
    BY <1>1, <1>2, <1>3 DEF End, TypeOK
  <2> QED BY <1>1, <1>5, <2>1 DEF TypeOK
<1>8. Range(n.todo) = {} /\ n.todo \in Rests(n.path)
  BY <1>5, TupleFacts DEF Rests
<1>9. /\ \A g \in DOMAIN flows : /\ flows'[g].session = flows[g].session
                                 /\ flows'[g].path = flows[g].path
                                 /\ flows'[g].after = flows[g].after
                                 /\ Range(flows'[g].todo) \subseteq Range(flows[g].todo)
      /\ \A g \in DOMAIN flows : flows[g].over => flows'[g].over
      /\ \A g \in DOMAIN flows : ~flows'[g].over => g # f
  <2>1. \A g \in DOMAIN flows : /\ flows'[g].session = flows[g].session
                                /\ flows'[g].path = flows[g].path
                                /\ flows'[g].after = flows[g].after
                                /\ Range(flows'[g].todo) \subseteq Range(flows[g].todo)
    BY <1>2, <1>5, <1>7, <1>8
  <2>2. \A g \in DOMAIN flows : (flows[g].over => flows'[g].over) /\ (~flows'[g].over => g # f)
    BY <1>6, <1>7, Zenon
  <2> QED BY <2>1, <2>2
<1>10. \A h : (Filled(h)' <=> Filled(h)) /\ By(h)' = By(h)
  BY <1>1 DEF Filled, By
<1>11. TypeOK' /\ OneUser'
  BY <1>1, <1>2, <1>5, <1>7, <1>9 DEF TypeOK, OneUser
<1>12. SlotsOwn'
  <2> SUFFICES ASSUME NEW h \in Helpers, SlotOwn(h) PROVE SlotOwn(h)'
    BY <1>1 DEF SlotsOwn
  <2> QED BY <1>1, <1>7, <1>9, <1>10 DEF SlotOwn
<1>13. FlowsOK'
  <2> SUFFICES ASSUME NEW g \in DOMAIN flows, FlowOK(g) PROVE FlowOK(g)'
    BY <1>1, <1>7 DEF FlowsOK
  <2>1. flows'[g].todo \in Rests(flows'[g].path)
    BY <1>7, <1>8 DEF FlowOK
  <2>2. \A k \in flows[g].after : k \in DOMAIN flows /\ flows[k].over
    BY DEF FlowOK
  <2>3. ASSUME NEW k \in flows'[g].after PROVE k \in DOMAIN flows' /\ flows'[k].over
    <3>1. k \in DOMAIN flows /\ flows[k].over
      BY <1>9, <2>2, <2>3
    <3>2. flows'[k].over
      BY <1>9, <3>1, Zenon
    <3> QED BY <1>7, <3>1, <3>2
  <2> QED BY <2>1, <2>3 DEF FlowOK
<1>14. ASSUME ~caching PROVE Uncached'
  <2>1. Earlier /\ Behind /\ SinceMcp /\ LeavesAfter
    BY <1>14 DEF IndInv, Uncached
  <2>2. \A h \in Helpers : Filled(h) => By(h) \in DOMAIN flows
    BY <1>1, <1>14, FilledSlot
  <2>3. Compared \subseteq Helpers /\ {"copilot/mcp", "copilot/llm"} \subseteq Helpers
    BY HelperFacts
  <2>4. Earlier'
    BY <1>1, <1>7, <1>9, <1>10, <2>1, <2>2, <2>3 DEF Earlier
  <2>5. Behind'
    BY <1>9, <1>10, <2>1, <2>2 DEF Behind
  <2>6. SinceMcp'
    <3>1. ASSUME NEW g \in DOMAIN flows', flows'[g].path = "read", ~flows'[g].over,
                 "copilot/mcp" \notin Range(flows'[g].todo)
          PROVE  McpSince(g)'
      <4>1. g \in DOMAIN flows \ {f}
        BY <1>7, <1>9, <3>1, Zenon
      <4>2. McpSince(g) /\ flows'[g] = flows[g]
        BY <1>7, <2>1, <3>1, <4>1 DEF SinceMcp
      <4> QED BY <1>10, <4>2 DEF McpSince
    <3> QED BY <1>9, <1>10, <2>1, <2>2, <2>3, <3>1 DEF SinceMcp
  <2>7. LeavesAfter'
    BY <1>1, <1>10, <2>1 DEF LeavesAfter, LeafAfter
  <2> QED BY <2>4, <2>5, <2>6, <2>7 DEF Uncached
<1> QED BY <1>1, <1>11, <1>12, <1>13, <1>14 DEF IndInv

\* A step that changes nothing but the cache.
LEMMA CacheOnly ==
    ASSUME IndInv, cache' \subseteq CacheEntry, \A e \in cache' : userOf[e.tok.root] = e.key[2],
           ~caching => cache' = {}, UNCHANGED <<flows, slots, again, clock, config>>
    PROVE  IndInv'
<1>1. UNCHANGED <<flows, slots, again, clock, caching, userOf>>
  BY DEF config
<1>2. \A h : (Filled(h)' <=> Filled(h)) /\ By(h)' = By(h)
  BY <1>1 DEF Filled, By
<1>3. TypeOK' /\ OneUser'
  BY <1>1 DEF IndInv, TypeOK, OneUser
<1>4. SlotsOwn' /\ FlowsOK'
  BY <1>1, <1>2 DEF IndInv, SlotsOwn, SlotOwn, FlowsOK, FlowOK
<1>5. ~caching => Uncached'
  <2>1. Earlier => Earlier'
    BY <1>1, <1>2 DEF Earlier
  <2>2. Behind => Behind'
    BY <1>1, <1>2 DEF Behind
  <2>3. SinceMcp => SinceMcp'
    BY <1>1, <1>2 DEF SinceMcp, McpSince
  <2>4. LeavesAfter => LeavesAfter'
    BY <1>1, <1>2 DEF LeavesAfter, LeafAfter
  <2> QED BY <2>1, <2>2, <2>3, <2>4 DEF IndInv, Uncached
<1> QED BY <1>1, <1>3, <1>4, <1>5 DEF IndInv

\* The invariant holds at the start.
LEMMA InitInv == Init => IndInv
<1> SUFFICES ASSUME Init PROVE IndInv
  OBVIOUS
<1>1. flows = <<>> /\ DOMAIN flows = {} /\ cache = {} /\ clock = 0 /\ again = 0
      /\ slots = [h \in Helpers |-> NoSlot] /\ caching \in BOOLEAN /\ userOf \in [Sessions -> Users]
  BY DEF Init
<1>2. \A h \in Helpers : ~Filled(h)
  BY <1>1 DEF Filled
<1>3. TypeOK
  BY <1>1 DEF TypeOK
<1>4. OneUser /\ FlowsOK
  BY <1>1 DEF OneUser, FlowsOK
<1>5. SlotsOwn
  BY <1>2 DEF SlotsOwn, SlotOwn
<1>6. \A h \in Compared \cup LlmHelpers \cup {"specialist/ops", "copilot/mcp"} : ~Filled(h)
  BY <1>2, HelperFacts DEF LlmHelpers
<1>7. Uncached
  BY <1>1, <1>2, <1>6 DEF Uncached, Earlier, Behind, SinceMcp, LeavesAfter, LeafAfter, LlmHelpers
<1> QED BY <1>3, <1>4, <1>5, <1>7 DEF IndInv

\* A token acquired again after a 401, or not.
LEMMA ReacquireCases ==
    ASSUME IndInv, NEW f \in DOMAIN flows, NEW h \in Presented(f), Reacquire(f, h)
    PROVE  \/ \E s, tok, n, m : Stamped(f, s, h, tok, n, m)
           \/ cache' \subseteq cache /\ UNCHANGED <<flows, slots, snapshots, again, clock, config>>
<1>1. PICK tok : tok = Again(SubjectRoot(f, h), f, again + 1)
  OBVIOUS
<1>2. CASE /\ again' = again + 1 /\ clock' \in Ticks(h)
           /\ flows' = [flows EXCEPT ![f].root = tok.root]
           /\ slots' = Stamp(h, flows[f].session, tok, clock')
           /\ cache' = Stored(h, flows[f].session, tok)
  BY <1>1, <1>2, AgainFacts DEF Reacquire, config
<1>3. CASE /\ cache' = cache \ Hits(h, flows[f].session)
           /\ UNCHANGED <<flows, slots, again, clock>>
  BY <1>3 DEF Reacquire
<1> QED BY <1>1, <1>2, <1>3 DEF Reacquire

\* Every step preserves the invariant.
LEMMA NextInv == IndInv /\ [Next]_vars => IndInv'
<1> SUFFICES ASSUME IndInv, [Next]_vars PROVE IndInv'
  OBVIOUS
<1>1. TypeOK /\ OneUser
  BY DEF IndInv
<1>2. ASSUME NEW s \in Sessions, NEW path \in {"read", "privileged"}, Begin(s, path)
      PROVE  IndInv'
  BY <1>2, BeginInv
<1>3. ASSUME NEW f \in DOMAIN flows, End(f) PROVE IndInv'
  BY <1>3, EndInv
<1>4. ASSUME NEW f \in DOMAIN flows, Exchange(f) PROVE IndInv'
  BY <1>4, ExchangeFacts, StampInv
<1>5. ASSUME NEW f \in DOMAIN flows, NEW h \in Presented(f), Reacquire(f, h) PROVE IndInv'
  <2>1. CASE \E s, tok, n, m : Stamped(f, s, h, tok, n, m)
    BY <2>1, StampInv
  <2>2. CASE cache' \subseteq cache /\ UNCHANGED <<flows, slots, snapshots, again, clock, config>>
    BY <1>1, <2>2, CacheOnly DEF TypeOK, OneUser
  <2> QED BY <1>5, <2>1, <2>2, ReacquireCases
<1>6. ASSUME NEW f \in DOMAIN flows, NEW server \in Servers(flows[f].path), ToolCall(f, server)
      PROVE  IndInv'
  BY <1>6, ToolFacts, StampInv
<1>7. ASSUME NEW s \in Sessions, NEW h \in {"copilot/mcp", "copilot/specialist"}, Probe(s, h)
      PROVE  IndInv'
  <2>1. PICK tok \in Obtained(h, s, s, 0) : cache' = Stored(h, s, tok)
    BY <1>7 DEF Probe
  <2>2. h \in Helpers
    BY HelperFacts
  <2>3. tok \in TokenRec /\ userOf[tok.root] = userOf[s]
    BY <1>1, <2>2, ObtainedFacts
  <2>4. /\ cache' \subseteq CacheEntry /\ (\A e \in cache' : userOf[e.tok.root] = e.key[2])
        /\ (~caching => cache' = {})
    BY <1>1, <2>1, <2>2, <2>3, StoredFacts
  <2> QED BY <1>7, <2>4, CacheOnly DEF Probe
<1>8. ASSUME UNCHANGED <<flows, slots, cache, again, clock, config>> PROVE IndInv'
  BY <1>1, <1>8, CacheOnly DEF TypeOK, OneUser
<1>9. ASSUME NEW s \in Sessions, Walk(s) PROVE IndInv'
  BY <1>8, <1>9 DEF Walk
<1>10. CASE UNCHANGED vars
  BY <1>8, <1>10 DEF vars
<1> QED BY <1>2, <1>3, <1>4, <1>5, <1>6, <1>7, <1>9, <1>10 DEF Next

\* The elements of a concatenation.
LEMMA ConcatRange ==
    ASSUME NEW S, NEW a \in Seq(S), NEW b \in Seq(S)
    PROVE  a \o b \in Seq(S) /\ \A x \in Range(a \o b) : x \in Range(a) \/ x \in Range(b)
<1>1. a \o b \in Seq(S) /\ DOMAIN (a \o b) = 1..(Len(a) + Len(b))
  OBVIOUS
<1>2. ASSUME NEW i \in 1..(Len(a) + Len(b))
      PROVE  \/ i \in DOMAIN a /\ (a \o b)[i] = a[i]
             \/ i - Len(a) \in DOMAIN b /\ (a \o b)[i] = b[i - Len(a)]
  OBVIOUS
<1> QED BY <1>1, <1>2 DEF Range

\* The rows of the copilot are those of its slots that it shows.
LEMMA CopilotRow ==
    ASSUME NEW s, NEW r \in Range(CopilotRows(s))
    PROVE  \E h \in CopilotHelpers :
              /\ Belongs(h, s) /\ r.hop = h /\ r.tok = Origin(slots[h].tok)
              /\ h = "copilot/llm" => ShowLlm(s)
              /\ h = "copilot/mcp" => ShowInspect(s)
              /\ h = "copilot/specialist" => ShowSpecialist(s)
<1> DEFINE S == {Row(h, slots[h].tok) : h \in CopilotHelpers}
           a == When(ShowLlm(s), Rows("copilot/llm"))
           b == When(ShowInspect(s), Rows("copilot/mcp"))
           c == When(ShowSpecialist(s), Rows("copilot/specialist"))
<1>1. ASSUME NEW shown \in BOOLEAN, NEW h \in CopilotHelpers
      PROVE  /\ When(shown, Rows(h)) \in Seq(S)
             /\ \A x \in Range(When(shown, Rows(h))) : shown /\ x = Row(h, slots[h].tok)
  <2>1. Row(h, slots[h].tok) \in S
    OBVIOUS
  <2> DEFINE row == Row(h, slots[h].tok)
  <2> HIDE DEF S, row
  <2>2. <<row>> \in Seq(S) /\ \A x \in Range(<<row>>) : x = row
    BY <2>1 DEF Range, row
  <2>3. <<>> \in Seq(S) /\ Range(<<>>) = {}
    BY DEF Range
  <2>4. When(shown, Rows(h)) = <<>> \/ (shown /\ When(shown, Rows(h)) = <<row>>)
    BY DEF When, Rows, row
  <2> QED BY <2>2, <2>3, <2>4 DEF row
<1>2. /\ "copilot/llm" \in CopilotHelpers /\ "copilot/mcp" \in CopilotHelpers
      /\ "copilot/specialist" \in CopilotHelpers
      /\ ShowLlm(s) \in BOOLEAN /\ ShowInspect(s) \in BOOLEAN /\ ShowSpecialist(s) \in BOOLEAN
  BY DEF CopilotHelpers, ShowLlm, ShowInspect, ShowSpecialist
<1>3. a \in Seq(S) /\ b \in Seq(S) /\ c \in Seq(S)
  BY <1>1, <1>2
<1>4. /\ \A x \in Range(a) : ShowLlm(s) /\ x = Row("copilot/llm", slots["copilot/llm"].tok)
      /\ \A x \in Range(b) : ShowInspect(s) /\ x = Row("copilot/mcp", slots["copilot/mcp"].tok)
      /\ \A x \in Range(c) :
            ShowSpecialist(s) /\ x = Row("copilot/specialist", slots["copilot/specialist"].tok)
  BY <1>1, <1>2
<1>5. CopilotRows(s) = (a \o b) \o c
  BY DEF CopilotRows
<1> HIDE DEF S, a, b, c
<1>6. r \in Range(a) \/ r \in Range(b) \/ r \in Range(c)
  BY <1>3, <1>5, ConcatRange
<1>7. \A h, tok : Row(h, tok).hop = h /\ Row(h, tok).tok = Origin(tok)
  BY DEF Row
<1>8. /\ ShowLlm(s) => Belongs("copilot/llm", s)
      /\ ShowInspect(s) => Belongs("copilot/mcp", s)
      /\ ShowSpecialist(s) => Belongs("copilot/specialist", s)
  BY DEF ShowLlm, ShowInspect, ShowSpecialist
<1>9. CASE r \in Range(a)
  BY <1>2, <1>4, <1>7, <1>8, <1>9
<1>10. CASE r \in Range(b)
  BY <1>2, <1>4, <1>7, <1>8, <1>10
<1>11. CASE r \in Range(c)
  BY <1>2, <1>4, <1>7, <1>8, <1>11
<1> QED BY <1>6, <1>9, <1>10, <1>11

(* IndInv is an invariant: tokens pass only between logins of one user, a slot is of
   the login it is stamped for, and without caching the stamps that are compared tell
   what questions answered before left from what was stamped since. *)
THEOREM Invariance == Spec => []IndInv
BY InitInv, NextInv, PTL DEF Spec

(* The rows the copilot's GET /last-token contributes are the calling user's own,
   and without caching of this login's own questions, whatever other sessions,
   probes and failures left in the shared slots. *)
THEOREM TopIsOwn == Spec => []TopIsThisSession
<1>1. IndInv => TopIsThisSession
  <2> SUFFICES ASSUME IndInv, NEW s \in Sessions, NEW r \in Range(CopilotRows(s))
               PROVE  /\ userOf[r.tok.root] = userOf[s]
                      /\ ~caching => /\ r.tok.root = s
                                     /\ r.tok.by \in {f \in DOMAIN flows : flows[f].session = s}
    BY DEF TopIsThisSession
  <2>1. PICK h \in CopilotHelpers : Belongs(h, s) /\ r.tok = Origin(slots[h].tok)
    BY CopilotRow
  <2>2. /\ h \in Helpers /\ Filled(h) /\ slots[h].jti = s /\ slots[h].sub = userOf[s]
        /\ r.tok.root = slots[h].tok.root /\ r.tok.by = slots[h].tok.by
    BY <2>1, HelperFacts DEF Belongs, Origin
  <2>3. SlotOwn(h)
    BY <2>2 DEF IndInv, SlotsOwn
  <2> QED BY <2>2, <2>3 DEF SlotOwn
<1> QED BY <1>1, Invariance, PTL

(* Without caching the copilot never shows an LLM leaf under the exchange of a
   question that began after the leaf's was answered, nor under that of one that was
   answered before the leaf's began, whatever overlaps, fails or is acquired again
   (the comparison of issuedAt stamps in lastTokenHandler). *)
THEOREM LeavesBelong == Spec => []LeafOfItsFlow
<1>1. IndInv => LeafOfItsFlow
  <2> SUFFICES ASSUME IndInv, ~caching, NEW s \in Sessions, NEW l \in Range(CopilotRows(s)),
                      NEW r \in Range(CopilotRows(s)), l.hop = "copilot/llm"
               PROVE  l.tok.by \notin flows[r.tok.by].after /\ r.tok.by \notin flows[l.tok.by].after
    BY DEF LeafOfItsFlow, Before
  <2>1. /\ TypeOK /\ SlotsOwn /\ FlowsOK /\ Earlier /\ SinceMcp
        /\ {"copilot/mcp", "copilot/llm"} \subseteq Compared /\ Compared \subseteq Helpers
    BY HelperFacts DEF IndInv, Uncached, Compared, LlmHelpers
  <2>0. \A h : Origin(slots[h].tok).by = By(h)
    BY DEF Origin, By
  <2>2. ShowLlm(s) /\ Belongs("copilot/llm", s) /\ l.tok.by = By("copilot/llm")
    <3>1. PICK k \in CopilotHelpers : /\ l.hop = k /\ l.tok = Origin(slots[k].tok) /\ Belongs(k, s)
                                      /\ k = "copilot/llm" => ShowLlm(s)
      BY CopilotRow
    <3> QED BY <2>0, <3>1
  <2>3. /\ ShowInspect(s) /\ Filled("copilot/mcp") /\ Filled("copilot/llm")
        /\ slots["copilot/llm"].at >= slots["copilot/mcp"].at
    BY <2>2 DEF ShowLlm, ShowInspect, Belongs
  <2>4. /\ slots["copilot/llm"].at \in Nat /\ slots["copilot/mcp"].at \in Nat
        /\ By("copilot/llm") \in DOMAIN flows /\ By("copilot/mcp") \in DOMAIN flows
    BY <2>1, <2>3, FilledSlot
  <2>5. PICK h \in CopilotHelpers : /\ r.tok.by = By(h)
                                    /\ h = "copilot/specialist" => ShowSpecialist(s)
    <3>1. PICK h \in CopilotHelpers : /\ r.tok = Origin(slots[h].tok)
                                      /\ h = "copilot/specialist" => ShowSpecialist(s)
      BY CopilotRow
    <3> QED BY <2>0, <3>1
  <2>6. h \in {"copilot/mcp", "copilot/llm"}
    BY <2>3, <2>5 DEF ShowSpecialist, CopilotHelpers
  <2>7. By("copilot/llm") \notin flows[By("copilot/mcp")].after
    BY <2>1, <2>3, <2>4 DEF Earlier
  <2>8. By("copilot/mcp") \notin flows[By("copilot/llm")].after
    BY <2>1, <2>3 DEF SinceMcp
  <2>9. By("copilot/llm") \notin flows[By("copilot/llm")].after
    BY <2>1, <2>3, <2>4 DEF Earlier
  <2> QED BY <2>2, <2>5, <2>6, <2>7, <2>8, <2>9
<1> QED BY <1>1, Invariance, PTL
-----------------------------------------------------------------------------
-----------------------------------------------------------------------------
(***************************************************************************)
(* The ledger (TokenLedger).                                               *)
(***************************************************************************)
\* The helper whose slot a hop's token is taken from.
HelperOf(hop) == CASE hop = "gateway/mcp-inspect" -> "mcp-inspect"
                   [] hop = "gateway/mcp-ops" -> "mcp-ops"
                   [] OTHER -> hop

\* A helper's token is of a question on whose path the helper is, or of a probe.
MintedFor(h, tok) ==
    /\ tok.by \in {0} \cup DOMAIN flows
    /\ tok.by = 0 => h \in {"copilot/mcp", "copilot/specialist"}
    /\ tok.by # 0 => h \in OnPath(flows[tok.by].path)

TokensMinted ==
    /\ \A h \in Helpers : Filled(h) => MintedFor(h, slots[h].tok)
    /\ \A e \in cache : MintedFor(e.key[1], e.tok)

\* The order in which the ledger lists hops.
Rank(hop) ==
    CASE hop = "inbound" -> 0
      [] hop = "copilot/llm" -> 1
      [] hop = "copilot/mcp" -> 2
      [] hop = "copilot/specialist" -> 3
      [] hop = "specialist/llm" -> 4
      [] hop = "specialist/inspect" -> 5
      [] hop = "gateway/mcp-inspect" -> 6
      [] hop = "mcp-inspect" -> 7
      [] hop = "specialist/ops" -> 8
      [] hop = "gateway/mcp-ops" -> 9
      [] hop = "mcp-ops" -> 10

LedgerRow ==
    [hop : AllHops \cup {"inbound"}, tok : [root : Sessions, by : Nat],
     act : {ActClaim[path][h] : path \in {"read", "privileged"}, h \in AllHops} \cup {<<>>},
     mayAct : {MayActClaim[h] : h \in AllHops} \cup {"copilot"}, leaf : BOOLEAN]

RowOK(r) ==
    /\ r \in LedgerRow /\ r.hop \in AllHops /\ MintedFor(HelperOf(r.hop), r.tok)
    /\ r.act = ActClaim[PathOf(r.tok)][r.hop]
    /\ r.mayAct = MayActClaim[r.hop]
    /\ r.leaf <=> r.hop \in LlmHelpers

HopsOf(rows) == {rows[i].hop : i \in DOMAIN rows}

\* Rows in the order of the ledger, between two ranks.
Segment(rows, lo, hi) ==
    /\ rows \in Seq(LedgerRow)
    /\ \A i \in DOMAIN rows :
          RowOK(rows[i]) /\ lo <= Rank(rows[i].hop) /\ Rank(rows[i].hop) <= hi
    /\ \A i, j \in DOMAIN rows : i < j => Rank(rows[i].hop) < Rank(rows[j].hop)

\* What the services below answer under a branch: with a row there is its subject's.
BelowOK(branch, rows) ==
    IF branch = "copilot/mcp"
    THEN Segment(rows, 6, 7) /\ (rows = <<>> \/ HopsOf(rows) = {"gateway/mcp-inspect", "mcp-inspect"})
    ELSE /\ Segment(rows, 4, 10)
         /\ \A hop \in HopsOf(rows) :
               SubjectHop(hop, "privileged") \in HopsOf(rows) \cup {"copilot/specialist"}

SnapshotsOK ==
    \A e \in snapshots : /\ e.key[1] \in {"copilot/mcp", "copilot/specialist"}
                         /\ e.by = e.key[2].by
                         /\ BelowOK(e.key[1], e.rows)

\* The inductive invariant, on top of IndInv.
LedgerInv == TokensMinted /\ SnapshotsOK
-----------------------------------------------------------------------------
\* The path that the question of a helper's token took.
LEMMA MintedPath ==
    ASSUME TypeOK, NEW h \in Helpers, NEW tok, MintedFor(h, tok)
    PROVE  /\ PathOf(tok) \in {"read", "privileged"}
           /\ h \in {"specialist/llm", "specialist/inspect", "specialist/ops", "mcp-ops"} =>
                 PathOf(tok) = "privileged"
           /\ h \in {"copilot/mcp", "copilot/llm"} => PathOf(tok) = "read"
<1>1. CASE tok.by = 0
  BY <1>1 DEF MintedFor, PathOf
<1>2. CASE tok.by # 0
  <2>1. /\ tok.by \in DOMAIN flows /\ PathOf(tok) = flows[tok.by].path
        /\ h \in OnPath(PathOf(tok))
    BY <1>2 DEF MintedFor, PathOf
  <2>2. flows[tok.by] \in Flow
    BY <2>1 DEF TypeOK
  <2>3. PathOf(tok) \in {"read", "privileged"}
    BY <2>1, <2>2 DEF Flow
  <2> QED BY <2>1, <2>3, StepFacts
<1> QED BY <1>1, <1>2

\* Hops and ranks.
LEMMA HopFacts ==
    /\ AllHops = {"copilot/mcp", "copilot/llm", "mcp-inspect", "copilot/specialist",
                  "specialist/ops", "specialist/inspect", "specialist/llm", "mcp-ops",
                  "gateway/mcp-inspect", "gateway/mcp-ops"}
    /\ \A hop \in AllHops : HelperOf(hop) \in Helpers /\ Rank(hop) \in 1..10
    /\ \A h \in Helpers : HelperOf(h) = h
    /\ Rank("inbound") = 0
BY HelperFacts DEF AllHops, HelperOf, Rank

\* A row made of a helper's token.
LEMMA RowMade ==
    ASSUME TypeOK, NEW hop \in AllHops, NEW tok \in TokenRec, MintedFor(HelperOf(hop), tok)
    PROVE  RowOK(Row(hop, tok)) /\ Row(hop, tok).hop = hop /\ Row(hop, tok).tok = Origin(tok)
<1>0. PICK o : o = Origin(tok)
  OBVIOUS
<1>1. HelperOf(hop) \in Helpers
  BY HopFacts
<1>2. /\ PathOf(tok) \in {"read", "privileged"} /\ PathOf(o) = PathOf(tok)
      /\ o \in [root : Sessions, by : Nat] /\ MintedFor(HelperOf(hop), o)
  <2>1. o \in [root : Sessions, by : Nat] /\ o.by = tok.by
    BY <1>0 DEF Origin, TokenRec
  <2> QED BY <1>1, <2>1, MintedPath DEF PathOf, MintedFor
<1>3. PICK act, next, leaf : /\ act = ActClaim[PathOf(tok)][hop] /\ next = MayActClaim[hop]
                             /\ leaf = (hop \in LlmHelpers)
  OBVIOUS
<1>4. PICK r : r = [hop |-> hop, tok |-> o, act |-> act, mayAct |-> next, leaf |-> leaf]
  OBVIOUS
<1>5. Row(hop, tok) = r
  BY <1>0, <1>3, <1>4 DEF Row
<1>6. r \in LedgerRow
  <2> DEFINE Acts == {ActClaim[path][h] : path \in {"read", "privileged"}, h \in AllHops} \cup {<<>>}
             Nexts == {MayActClaim[h] : h \in AllHops} \cup {"copilot"}
  <2>1. act \in Acts
    BY <1>2, <1>3
  <2>2. next \in Nexts
    BY <1>3
  <2>3. leaf \in BOOLEAN
    BY <1>3
  <2>4. LedgerRow = [hop : AllHops \cup {"inbound"}, tok : [root : Sessions, by : Nat], act : Acts, mayAct : Nexts, leaf : BOOLEAN]
    BY DEF LedgerRow
  <2> HIDE DEF Acts, Nexts
  <2> QED BY <1>2, <1>4, <2>1, <2>2, <2>3, <2>4
<1>7. r.hop = hop /\ r.tok = o /\ r.act = act /\ r.mayAct = next /\ r.leaf = leaf
  BY <1>4
<1>8. r.leaf <=> hop \in LlmHelpers
  BY <1>3, <1>7, Zenon
<1>9. /\ r.hop \in AllHops /\ MintedFor(HelperOf(r.hop), r.tok)
      /\ r.act = ActClaim[PathOf(r.tok)][r.hop] /\ r.mayAct = MayActClaim[r.hop]
  BY <1>2, <1>3, <1>7
<1>10. RowOK(r)
  BY <1>6, <1>7, <1>8, <1>9, Zenon DEF RowOK
<1> QED BY <1>0, <1>5, <1>7, <1>10

\* Two segments, one after the other.
LEMMA SegmentConcat ==
    ASSUME NEW a, NEW b, NEW lo \in Nat, NEW m \in Nat, NEW n \in Nat, NEW hi \in Nat,
           Segment(a, lo, m), Segment(b, n, hi), m < n, lo <= n, m <= hi
    PROVE  Segment(a \o b, lo, hi) /\ HopsOf(a \o b) = HopsOf(a) \cup HopsOf(b)
<1>1. PICK c : c = a \o b
  OBVIOUS
<1>2. a \in Seq(LedgerRow) /\ b \in Seq(LedgerRow)
  BY DEF Segment
<1>3. /\ c \in Seq(LedgerRow) /\ DOMAIN c = 1..(Len(a) + Len(b)) /\ Len(a) \in Nat /\ Len(b) \in Nat
      /\ DOMAIN a = 1..Len(a) /\ DOMAIN b = 1..Len(b)
      /\ \A i \in 1..Len(a) : c[i] = a[i]
      /\ \A i \in 1..Len(b) : c[i + Len(a)] = b[i]
      /\ \A i \in DOMAIN c : i \notin 1..Len(a) => i - Len(a) \in 1..Len(b) /\ c[i] = b[i - Len(a)]
  BY <1>1, <1>2
<1>4. \A r : RowOK(r) => Rank(r.hop) \in Nat
  BY HopFacts DEF RowOK
<1>5. ASSUME NEW i \in DOMAIN c
      PROVE  /\ RowOK(c[i]) /\ lo <= Rank(c[i].hop) /\ Rank(c[i].hop) <= hi
             /\ c[i].hop \in HopsOf(a) \cup HopsOf(b)
  <2>1. CASE i \in 1..Len(a)
    <3>1. c[i] = a[i] /\ RowOK(a[i]) /\ lo <= Rank(a[i].hop) /\ Rank(a[i].hop) <= m /\ a[i].hop \in HopsOf(a)
      BY <1>3, <2>1 DEF Segment, HopsOf
    <3> QED BY <1>4, <3>1
  <2>2. CASE i \notin 1..Len(a)
    <3>1. PICK k \in 1..Len(b) : c[i] = b[k]
      BY <1>3, <2>2
    <3>2. RowOK(b[k]) /\ n <= Rank(b[k].hop) /\ Rank(b[k].hop) <= hi /\ b[k].hop \in HopsOf(b)
      BY <1>3 DEF Segment, HopsOf
    <3> QED BY <1>4, <3>1, <3>2
  <2> QED BY <2>1, <2>2
<1>6. ASSUME NEW i \in DOMAIN c, NEW j \in DOMAIN c, i < j PROVE Rank(c[i].hop) < Rank(c[j].hop)
  <2>1. CASE j \in 1..Len(a)
    <3>1. i \in 1..Len(a) /\ c[i] = a[i] /\ c[j] = a[j]
      BY <1>3, <1>6, <2>1
    <3> QED BY <1>3, <1>6, <2>1, <3>1 DEF Segment
  <2>2. CASE i \in 1..Len(a) /\ j \notin 1..Len(a)
    <3>1. PICK k \in 1..Len(b) : c[i] = a[i] /\ c[j] = b[k]
      BY <1>3, <2>2
    <3>2. RowOK(a[i]) /\ Rank(a[i].hop) <= m /\ RowOK(b[k]) /\ n <= Rank(b[k].hop)
      BY <1>3, <2>2 DEF Segment
    <3> QED BY <1>4, <3>1, <3>2
  <2>3. CASE i \notin 1..Len(a)
    <3>1. PICK k, l \in 1..Len(b) : k < l /\ c[i] = b[k] /\ c[j] = b[l]
      <4>1. i \in Nat /\ j \in Nat /\ j \notin 1..Len(a)
        BY <1>3, <1>6, <2>3
      <4> QED BY <1>3, <1>6, <2>3, <4>1
    <3> QED BY <1>3, <3>1 DEF Segment
  <2> QED BY <2>1, <2>2, <2>3
<1>7. ASSUME NEW hop \in HopsOf(a) \cup HopsOf(b) PROVE hop \in HopsOf(c)
  <2>1. CASE hop \in HopsOf(a)
    <3>1. PICK i \in 1..Len(a) : hop = a[i].hop
      BY <1>3, <2>1 DEF HopsOf
    <3>2. i \in DOMAIN c /\ c[i].hop = hop
      BY <1>3, <3>1
    <3> QED BY <3>2 DEF HopsOf
  <2>2. CASE hop \in HopsOf(b)
    <3>1. PICK i \in 1..Len(b) : hop = b[i].hop
      BY <1>3, <2>2 DEF HopsOf
    <3>2. i + Len(a) \in DOMAIN c /\ c[i + Len(a)].hop = hop
      BY <1>3, <3>1
    <3> QED BY <3>2 DEF HopsOf
  <2> QED BY <2>1, <2>2
<1>8. HopsOf(c) = HopsOf(a) \cup HopsOf(b)
  BY <1>5, <1>7 DEF HopsOf
<1>9. Segment(c, lo, hi)
  BY <1>3, <1>5, <1>6 DEF Segment
<1> QED BY <1>1, <1>8, <1>9

\* No row, one row, two rows.
LEMMA SegmentEmpty == \A lo, hi : Segment(<<>>, lo, hi) /\ HopsOf(<<>>) = {}
BY DEF Segment, HopsOf

LEMMA SegmentOne ==
    ASSUME NEW r, RowOK(r), NEW n, n = Rank(r.hop)
    PROVE  n \in Nat /\ Segment(<<r>>, n, n) /\ HopsOf(<<r>>) = {r.hop}
<1>1. r \in LedgerRow /\ n \in Nat
  BY HopFacts DEF RowOK
<1>2. PICK s : s = <<r>>
  OBVIOUS
<1>3. s \in Seq(LedgerRow) /\ DOMAIN s = {1} /\ s[1] = r
  BY <1>1, <1>2
<1>4. Segment(s, n, n)
  BY <1>1, <1>3 DEF Segment
<1>5. HopsOf(s) = {r.hop}
  BY <1>3 DEF HopsOf
<1> QED BY <1>1, <1>2, <1>4, <1>5

LEMMA SegmentWider ==
    ASSUME NEW rows, NEW lo \in Nat, NEW hi \in Nat, NEW l \in Nat, NEW h \in Nat,
           Segment(rows, lo, hi), l <= lo, hi <= h
    PROVE  Segment(rows, l, h)
<1>1. \A r : RowOK(r) => Rank(r.hop) \in Nat
  BY HopFacts DEF RowOK
<1>2. ASSUME NEW i \in DOMAIN rows PROVE RowOK(rows[i]) /\ l <= Rank(rows[i].hop) /\ Rank(rows[i].hop) <= h
  <2>1. RowOK(rows[i]) /\ lo <= Rank(rows[i].hop) /\ Rank(rows[i].hop) <= hi
    BY DEF Segment
  <2> QED BY <1>1, <2>1
<1> QED BY <1>2 DEF Segment
\* The subject of every hop.
LEMMA SubjectFacts ==
    /\ \A path : /\ \A hop \in CopilotHelpers : SubjectHop(hop, path) = "inbound"
                 /\ \A hop \in {"specialist/ops", "specialist/inspect", "specialist/llm"} :
                       SubjectHop(hop, path) = "copilot/specialist"
                 /\ SubjectHop("gateway/mcp-ops", path) = "specialist/ops"
                 /\ SubjectHop("mcp-ops", path) = "gateway/mcp-ops"
                 /\ SubjectHop("mcp-inspect", path) = "gateway/mcp-inspect"
    /\ SubjectHop("gateway/mcp-inspect", "read") = "copilot/mcp"
    /\ SubjectHop("gateway/mcp-inspect", "privileged") = "specialist/inspect"
BY DEF SubjectHop, CopilotHelpers, ClientOf, LlmHelpers, GatewayHop

\* A slot's row.
LEMMA SlotRow ==
    ASSUME TypeOK, TokensMinted, NEW hop \in AllHops, NEW h, h = HelperOf(hop), Filled(h)
    PROVE  RowOK(Row(hop, slots[h].tok)) /\ Row(hop, slots[h].tok).hop = hop
<1>1. h \in Helpers
  BY HopFacts
<1>2. slots[h].tok \in TokenRec
  BY <1>1 DEF TypeOK, Slot, Filled
<1>3. MintedFor(h, slots[h].tok)
  BY <1>1 DEF TokensMinted
<1> QED BY <1>2, <1>3, RowMade

\* The rows of one slot.
LEMMA RowsSegment ==
    ASSUME TypeOK, TokensMinted, NEW h \in Helpers, NEW n, n = Rank(h)
    PROVE  /\ n \in Nat /\ Segment(Rows(h), n, n) /\ HopsOf(Rows(h)) \subseteq {h}
           /\ Filled(h) => HopsOf(Rows(h)) = {h}
<1>0. h \in AllHops /\ HelperOf(h) = h /\ n \in Nat
  BY HopFacts DEF AllHops
<1>1. CASE Filled(h)
  <2>1. PICK r : r = Row(h, slots[h].tok)
    OBVIOUS
  <2>2. RowOK(r) /\ r.hop = h
    BY <1>0, <1>1, <2>1, SlotRow
  <2>3. Rows(h) = <<r>>
    BY <1>1, <2>1 DEF Rows
  <2> QED BY <2>2, <2>3, SegmentOne
<1>2. CASE ~Filled(h)
  <2>1. Rows(h) = <<>>
    BY <1>2 DEF Rows
  <2> QED BY <1>0, <1>2, <2>1, SegmentEmpty
<1> QED BY <1>1, <1>2

\* What an MCP server answers.
LEMMA McpSegment ==
    ASSUME TypeOK, TokensMinted, NEW h \in {"mcp-inspect", "mcp-ops"},
           NEW n, n = Rank(GatewayHop(h))
    PROVE  /\ n \in Nat /\ Segment(McpRows(h), n, n + 1)
           /\ IF Filled(h) THEN HopsOf(McpRows(h)) = {GatewayHop(h), h} ELSE McpRows(h) = <<>>
<1>0. /\ GatewayHop(h) \in AllHops /\ h \in AllHops
      /\ HelperOf(GatewayHop(h)) = h /\ HelperOf(h) = h
      /\ n \in Nat /\ Rank(h) = n + 1
  BY HopFacts DEF GatewayHop, HelperOf, Rank
<1>1. CASE Filled(h)
  <2>1. PICK q, r : q = Row(GatewayHop(h), slots[h].tok) /\ r = Row(h, slots[h].tok)
    OBVIOUS
  <2>2. RowOK(q) /\ q.hop = GatewayHop(h) /\ RowOK(r) /\ r.hop = h
    BY <1>0, <1>1, <2>1, SlotRow
  <2>3. McpRows(h) = <<q>> \o <<r>>
    BY <1>1, <2>1 DEF McpRows
  <2>4. Segment(<<q>>, n, n) /\ HopsOf(<<q>>) = {GatewayHop(h)}
    BY <2>2, SegmentOne
  <2>5. Segment(<<r>>, n + 1, n + 1) /\ HopsOf(<<r>>) = {h}
    BY <1>0, <2>2, SegmentOne
  <2>6. PICK m \in Nat : m = n + 1
    BY <1>0
  <2>7. Segment(<<q>> \o <<r>>, n, m) /\ HopsOf(<<q>> \o <<r>>) = HopsOf(<<q>>) \cup HopsOf(<<r>>)
    BY <1>0, <2>4, <2>5, <2>6, SegmentConcat
  <2> QED BY <1>0, <1>1, <2>3, <2>4, <2>5, <2>6, <2>7
<1>2. CASE ~Filled(h)
  <2>1. McpRows(h) = <<>>
    BY <1>2 DEF McpRows
  <2> QED BY <1>0, <1>2, <2>1, SegmentEmpty
<1> QED BY <1>1, <1>2

\* A branch of the specialist with what its server answers.
LEMMA BranchSegment ==
    ASSUME TypeOK, TokensMinted, NEW b \in Helpers, NEW h \in {"mcp-inspect", "mcp-ops"},
           NEW n, n = Rank(b), Rank(GatewayHop(h)) = n + 1,
           NEW below \in McpAnswers(h), NEW rows, rows = When(Filled(b), Rows(b) \o below)
    PROVE  /\ n \in Nat /\ Segment(rows, n, n + 2)
           /\ rows = <<>> \/ HopsOf(rows) = {b} \/ HopsOf(rows) = {b, GatewayHop(h), h}
           /\ Filled(b) => HopsOf(rows) = {b} \cup HopsOf(below)
<1>1. n \in Nat /\ Segment(Rows(b), n, n) /\ (Filled(b) => HopsOf(Rows(b)) = {b})
  BY RowsSegment
<1>2. PICK k, m \in Nat : k = n + 1 /\ m = n + 2
  BY <1>1
<1>3. Segment(below, k, m) /\ (HopsOf(below) = {} \/ HopsOf(below) = {GatewayHop(h), h})
  <2>1. below = <<>> \/ below = McpRows(h)
    BY DEF McpAnswers
  <2>2. k + 1 = m
    BY <1>1, <1>2
  <2> QED BY <1>1, <1>2, <2>1, <2>2, McpSegment, SegmentEmpty
<1>4. /\ Segment(Rows(b) \o below, n, m)
      /\ HopsOf(Rows(b) \o below) = HopsOf(Rows(b)) \cup HopsOf(below)
  BY <1>1, <1>2, <1>3, SegmentConcat
<1>5. CASE Filled(b)
  <2>1. rows = Rows(b) \o below
    BY <1>5 DEF When
  <2> QED BY <1>1, <1>2, <1>3, <1>4, <1>5, <2>1
<1>6. CASE ~Filled(b)
  <2>1. rows = <<>>
    BY <1>6 DEF When
  <2> QED BY <1>1, <1>2, <1>6, <2>1, SegmentEmpty
<1> QED BY <1>5, <1>6

\* What the specialist answers.
LEMMA SpecialistSegment ==
    ASSUME TypeOK, TokensMinted, NEW i \in McpAnswers("mcp-inspect"), NEW o \in McpAnswers("mcp-ops")
    PROVE  BelowOK("copilot/specialist", SpecialistRows(i, o))
<1> DEFINE a == When(ShowSpecialistLlm, Rows("specialist/llm"))
           b == When(Filled("specialist/inspect"), Rows("specialist/inspect") \o i)
           c == When(Filled("specialist/ops"), Rows("specialist/ops") \o o)
<1>1. Segment(a, 4, 4) /\ HopsOf(a) \subseteq {"specialist/llm"}
  <2>1. Segment(Rows("specialist/llm"), 4, 4) /\ HopsOf(Rows("specialist/llm")) \subseteq {"specialist/llm"}
    BY RowsSegment, HelperFacts DEF Rank
  <2> QED BY <2>1, SegmentEmpty DEF When
<1>2. /\ Segment(b, 5, 7)
      /\ \/ HopsOf(b) = {} \/ HopsOf(b) = {"specialist/inspect"}
         \/ HopsOf(b) = {"specialist/inspect", "gateway/mcp-inspect", "mcp-inspect"}
  <2>1. PICK rows : rows = b
    OBVIOUS
  <2>2. /\ Rank("specialist/inspect") = 5 /\ GatewayHop("mcp-inspect") = "gateway/mcp-inspect"
        /\ Rank("gateway/mcp-inspect") = 5 + 1
    BY DEF Rank, GatewayHop
  <2>3. /\ Segment(rows, 5, 5 + 2)
        /\ \/ rows = <<>> \/ HopsOf(rows) = {"specialist/inspect"}
           \/ HopsOf(rows) = {"specialist/inspect", "gateway/mcp-inspect", "mcp-inspect"}
    BY <2>1, <2>2, BranchSegment, HelperFacts
  <2> QED BY <2>1, <2>3, SegmentEmpty
<1>3. /\ Segment(c, 8, 10)
      /\ \/ HopsOf(c) = {} \/ HopsOf(c) = {"specialist/ops"}
         \/ HopsOf(c) = {"specialist/ops", "gateway/mcp-ops", "mcp-ops"}
  <2>1. PICK rows : rows = c
    OBVIOUS
  <2>2. /\ Rank("specialist/ops") = 8 /\ GatewayHop("mcp-ops") = "gateway/mcp-ops"
        /\ Rank("gateway/mcp-ops") = 8 + 1
    BY DEF Rank, GatewayHop
  <2>3. /\ Segment(rows, 8, 8 + 2)
        /\ \/ rows = <<>> \/ HopsOf(rows) = {"specialist/ops"}
           \/ HopsOf(rows) = {"specialist/ops", "gateway/mcp-ops", "mcp-ops"}
    BY <2>1, <2>2, BranchSegment, HelperFacts
  <2> QED BY <2>1, <2>3, SegmentEmpty
<1>4. SpecialistRows(i, o) = (a \o b) \o c
  BY DEF SpecialistRows
<1> HIDE DEF a, b, c
<1>5. Segment(a \o b, 4, 7) /\ HopsOf(a \o b) = HopsOf(a) \cup HopsOf(b)
  BY <1>1, <1>2, SegmentConcat
<1>6. Segment((a \o b) \o c, 4, 10) /\ HopsOf((a \o b) \o c) = HopsOf(a) \cup HopsOf(b) \cup HopsOf(c)
  BY <1>3, <1>5, SegmentConcat
<1>7. \A hop \in HopsOf(a) \cup HopsOf(b) \cup HopsOf(c) :
         SubjectHop(hop, "privileged") \in (HopsOf(a) \cup HopsOf(b) \cup HopsOf(c)) \cup {"copilot/specialist"}
  <2>1. \A hop \in HopsOf(a) : SubjectHop(hop, "privileged") = "copilot/specialist"
    BY <1>1, SubjectFacts
  <2>2. \A hop \in HopsOf(b) : SubjectHop(hop, "privileged") \in HopsOf(b) \cup {"copilot/specialist"}
    BY <1>2, SubjectFacts
  <2>3. \A hop \in HopsOf(c) : SubjectHop(hop, "privileged") \in HopsOf(c) \cup {"copilot/specialist"}
    BY <1>3, SubjectFacts
  <2> QED BY <2>1, <2>2, <2>3
<1> QED BY <1>4, <1>6, <1>7 DEF BelowOK

\* What the service below a branch answers.
LEMMA AnswersOK ==
    ASSUME TypeOK, TokensMinted, NEW s, ShowsBranch(s), NEW rows \in BelowAnswers(s)
    PROVE  BelowOK(Branch(s), rows)
<1>1. CASE ShowInspect(s)
  <2>1. rows = McpRows("mcp-inspect") /\ Branch(s) = "copilot/mcp"
    BY <1>1 DEF BelowAnswers, Branch
  <2>2. GatewayHop("mcp-inspect") = "gateway/mcp-inspect" /\ Rank("gateway/mcp-inspect") = 6 /\ 6 + 1 = 7
    BY DEF GatewayHop, Rank
  <2>3. Segment(rows, 6, 7) /\ (rows = <<>> \/ HopsOf(rows) = {"gateway/mcp-inspect", "mcp-inspect"})
    BY <2>1, <2>2, McpSegment
  <2> QED BY <2>1, <2>3 DEF BelowOK
<1>2. CASE ~ShowInspect(s)
  <2>1. rows \in SpecialistAnswers /\ Branch(s) = "copilot/specialist"
    BY <1>2 DEF BelowAnswers, Branch
  <2> QED BY <2>1, SpecialistSegment DEF SpecialistAnswers
<1> QED BY <1>1, <1>2
-----------------------------------------------------------------------------
\* No step changes the path of a question.
Grows ==
    /\ DOMAIN flows \subseteq DOMAIN flows'
    /\ \A f \in DOMAIN flows : flows'[f].path = flows[f].path

LEMMA MintedStays ==
    ASSUME TypeOK, Grows, NEW h, NEW tok, MintedFor(h, tok)
    PROVE  MintedFor(h, tok)' /\ PathOf(tok)' = PathOf(tok)
<1>1. DOMAIN flows \subseteq Nat
  BY DEF TypeOK
<1>2. CASE tok.by = 0
  BY <1>2 DEF MintedFor, PathOf
<1>3. CASE tok.by # 0
  <2>1. tok.by \in DOMAIN flows /\ flows'[tok.by].path = flows[tok.by].path /\ tok.by \in DOMAIN flows'
    BY <1>3 DEF MintedFor, Grows
  <2> QED BY <1>3, <2>1 DEF MintedFor, PathOf
<1> QED BY <1>2, <1>3

LEMMA RowStays == ASSUME TypeOK, Grows, NEW r, RowOK(r) PROVE RowOK(r)'
<1>1. MintedFor(HelperOf(r.hop), r.tok)' /\ PathOf(r.tok)' = PathOf(r.tok)
  BY MintedStays DEF RowOK
<1> QED BY <1>1 DEF RowOK

LEMMA SegmentStays ==
    ASSUME TypeOK, Grows, NEW rows, NEW lo, NEW hi, Segment(rows, lo, hi)
    PROVE  Segment(rows, lo, hi)'
<1>1. \A i \in DOMAIN rows : RowOK(rows[i])'
  BY RowStays DEF Segment
<1> QED BY <1>1 DEF Segment

LEMMA BelowStays ==
    ASSUME TypeOK, Grows, NEW branch, NEW rows, BelowOK(branch, rows)
    PROVE  BelowOK(branch, rows)'
BY SegmentStays DEF BelowOK

LEMMA SnapshotsStay ==
    ASSUME TypeOK, Grows, SnapshotsOK, UNCHANGED snapshots
    PROVE  SnapshotsOK'
BY BelowStays DEF SnapshotsOK


\* A token that is minted by a question on its path, or taken from the cache.
LEMMA TokenFacts ==
    ASSUME TokensMinted, NEW h, NEW tok, NEW f \in {0} \cup DOMAIN flows,
           tok.by = f \/ \E e \in cache : e.key[1] = h /\ e.tok = tok,
           f = 0 => h \in {"copilot/mcp", "copilot/specialist"},
           f # 0 => h \in OnPath(flows[f].path)
    PROVE  MintedFor(h, tok)
<1>1. CASE tok.by = f
  BY <1>1 DEF MintedFor
<1>2. CASE \E e \in cache : e.key[1] = h /\ e.tok = tok
  BY <1>2 DEF TokensMinted
<1> QED BY <1>1, <1>2

\* What becomes of the slots and the cache in a stamp.
LEMMA StampLedger ==
    ASSUME IndInv, LedgerInv, NEW f \in DOMAIN flows, NEW s, NEW h, NEW tok, NEW n, NEW m,
           Stamped(f, s, h, tok, n, m)
    PROVE  LedgerInv'
<1>1. /\ TypeOK /\ TokensMinted /\ SnapshotsOK /\ f \in Nat /\ f # 0
  BY DEF IndInv, LedgerInv, TypeOK
<1>2. /\ DOMAIN flows' = DOMAIN flows /\ flows'[f] = n /\ n.path = flows[f].path
      /\ \A g \in DOMAIN flows \ {f} : flows'[g] = flows[g]
  BY DEF Stamped, NewFlow
<1>3. Grows
  BY <1>2 DEF Grows
<1>4. MintedFor(h, tok)
  <2>1. /\ tok.by = f \/ \E e \in cache : e.key[1] = h /\ e.tok = tok
        /\ h \in OnPath(flows[f].path)
    BY DEF Stamped, Uses
  <2> QED BY <1>1, <2>1, TokenFacts
<1>5. ASSUME NEW e \in cache' PROVE MintedFor(e.key[1], e.tok)'
  <2>1. e \in cache \/ (e.key[1] = h /\ e.tok = tok)
    BY DEF Stamped, Caches
  <2>2. MintedFor(e.key[1], e.tok)
    BY <1>1, <1>4, <2>1 DEF TokensMinted
  <2> QED BY <1>1, <1>3, <2>2, MintedStays
<1>6. ASSUME NEW g \in Helpers, Filled(g)', NEW t, t = slots'[g].tok PROVE MintedFor(g, t)'
  <2>1. MintedFor(g, t)
    <3>1. CASE g = h
      BY <1>4, <1>6, <3>1 DEF Stamped
    <3>2. CASE g # h
      <4>1. slots'[g] = slots[g]
        BY <3>2 DEF Stamped
      <4> QED BY <1>1, <1>6, <4>1 DEF TokensMinted, Filled
    <3> QED BY <3>1, <3>2
  <2> QED BY <1>1, <1>3, <2>1, MintedStays
<1>7. TokensMinted'
  BY <1>5, <1>6 DEF TokensMinted
<1>8. SnapshotsOK'
  BY <1>1, <1>3, SnapshotsStay DEF Stamped
<1> QED BY <1>7, <1>8 DEF LedgerInv

\* What leaves the slots alone keeps the rest.
LEMMA LedgerKept ==
    ASSUME IndInv, LedgerInv, Grows, UNCHANGED slots, SnapshotsOK',
           \A e \in cache' : MintedFor(e.key[1], e.tok)
    PROVE  LedgerInv'
<1>1. TypeOK
  BY DEF IndInv
<1>2. \A h : Filled(h)' <=> Filled(h)
  BY DEF Filled
<1>3. TokensMinted'
  BY <1>1, <1>2, MintedStays DEF LedgerInv, TokensMinted
<1> QED BY <1>3 DEF LedgerInv

\* The memory after a walk.
LEMMA WalkLedger ==
    ASSUME IndInv, LedgerInv, NEW s \in Sessions, Walk(s)
    PROVE  LedgerInv'
<1>1. /\ TypeOK /\ TokensMinted /\ SnapshotsOK
      /\ ShowsBranch(s) /\ UNCHANGED <<flows, slots, cache, caching>>
  BY DEF IndInv, LedgerInv, Walk, config
<1>2. PICK rows \in BelowAnswers(s) : Remember(SnapshotKey(s), rows, slots[Branch(s)].tok.by)
  BY DEF Walk
<1>3. PICK n : n = [key |-> SnapshotKey(s), rows |-> rows, by |-> slots[Branch(s)].tok.by, at |-> walks + 1]
  OBVIOUS
<1>4. snapshots' \subseteq snapshots \cup {n}
  BY <1>2, <1>3 DEF Remember
<1>5. /\ n.key[1] \in {"copilot/mcp", "copilot/specialist"} /\ n.by = n.key[2].by
      /\ n.key[1] = Branch(s) /\ n.rows = rows
  BY <1>3 DEF SnapshotKey, Branch
<1>6. BelowOK(Branch(s), rows)
  BY <1>1, AnswersOK
<1>7. Grows
  BY <1>1 DEF Grows
<1>8. ASSUME NEW e \in snapshots'
      PROVE  /\ e.key[1] \in {"copilot/mcp", "copilot/specialist"} /\ e.by = e.key[2].by
             /\ BelowOK(e.key[1], e.rows)'
  <2>1. /\ e.key[1] \in {"copilot/mcp", "copilot/specialist"} /\ e.by = e.key[2].by
        /\ BelowOK(e.key[1], e.rows)
    BY <1>1, <1>4, <1>5, <1>6 DEF SnapshotsOK
  <2> QED BY <1>1, <1>7, <2>1, BelowStays
<1>9. SnapshotsOK'
  BY <1>8 DEF SnapshotsOK
<1> QED BY <1>1, <1>7, <1>9, LedgerKept DEF TokensMinted

\* Init and Next.
LEMMA LedgerInit == Init => LedgerInv
<1> SUFFICES ASSUME Init PROVE LedgerInv
  OBVIOUS
<1>1. /\ DOMAIN flows = {} /\ slots = [h \in Helpers |-> NoSlot] /\ cache = {} /\ snapshots = {}
  BY DEF Init
<1>2. \A h \in Helpers : ~Filled(h)
  BY <1>1 DEF Filled
<1> QED BY <1>1, <1>2 DEF LedgerInv, TokensMinted, SnapshotsOK
LEMMA LedgerNext == IndInv /\ LedgerInv /\ [Next]_vars => LedgerInv'
<1> SUFFICES ASSUME IndInv, LedgerInv, [Next]_vars PROVE LedgerInv'
  OBVIOUS
<1>1. TypeOK /\ TokensMinted /\ SnapshotsOK
  BY DEF IndInv, LedgerInv
<1>2. ASSUME Grows, UNCHANGED <<slots, snapshots>>, \A e \in cache' : MintedFor(e.key[1], e.tok)
      PROVE  LedgerInv'
  BY <1>1, <1>2, SnapshotsStay, LedgerKept
<1>3. ASSUME UNCHANGED flows PROVE Grows
  BY <1>3 DEF Grows
<1>4. ASSUME NEW s \in Sessions, NEW path \in {"read", "privileged"}, Begin(s, path)
      PROVE  LedgerInv'
  <2>1. PICK n : flows' = Append(flows, n)
    BY <1>4 DEF Begin
  <2>2. DOMAIN flows \subseteq DOMAIN flows' /\ \A f \in DOMAIN flows : flows'[f] = flows[f]
    <3>1. flows \in Seq(Flow)
      BY <1>1 DEF TypeOK
    <3>2. /\ DOMAIN flows = 1..Len(flows) /\ DOMAIN flows' = 1..(Len(flows) + 1) /\ Len(flows) \in Nat
          /\ \A f \in 1..Len(flows) : flows'[f] = flows[f]
      <4>1. PICK F : F = Flow \cup {n}
        OBVIOUS
      <4>2. flows \in Seq(F) /\ n \in F
        BY <3>1, <4>1
      <4> QED BY <2>1, <4>2
    <3> QED BY <3>2
  <2> QED BY <1>1, <1>2, <1>4, <2>2 DEF Begin, Grows, TokensMinted
<1>5. ASSUME NEW f \in DOMAIN flows, End(f) PROVE LedgerInv'
  <2>1. Grows
    <3>1. PICK o \in Flow : o = flows[f]
      BY <1>1 DEF TypeOK
    <3>2. PICK n : n = [o EXCEPT !.over = TRUE, !.todo = <<>>, !.root = o.session]
      OBVIOUS
    <3>3. n.path = o.path
      BY <3>2 DEF Flow
    <3>4. flows' = [flows EXCEPT ![f] = n]
      BY <1>1, <1>5, <3>1, <3>2 DEF End, TypeOK
    <3>5. DOMAIN flows' = DOMAIN flows /\ \A g \in DOMAIN flows : flows'[g].path = flows[g].path
      BY <1>1, <3>1, <3>3, <3>4 DEF TypeOK
    <3> QED BY <3>5 DEF Grows
  <2> QED BY <1>1, <1>2, <1>5, <2>1 DEF End, TokensMinted
<1>6. ASSUME NEW f \in DOMAIN flows, Exchange(f) PROVE LedgerInv'
  BY <1>6, ExchangeFacts, StampLedger
<1>7. ASSUME NEW f \in DOMAIN flows, NEW h \in Presented(f), Reacquire(f, h) PROVE LedgerInv'
  <2>1. CASE \E s, tok, n, m : Stamped(f, s, h, tok, n, m)
    BY <2>1, StampLedger
  <2>2. CASE cache' \subseteq cache /\ UNCHANGED <<flows, slots, snapshots, again, clock, config>>
    BY <1>1, <1>2, <1>3, <2>2 DEF TokensMinted
  <2> QED BY <1>7, <2>1, <2>2, ReacquireCases
<1>8. ASSUME NEW f \in DOMAIN flows, NEW server \in Servers(flows[f].path), ToolCall(f, server)
      PROVE  LedgerInv'
  BY <1>8, ToolFacts, StampLedger
<1>9. ASSUME NEW s \in Sessions, NEW h \in {"copilot/mcp", "copilot/specialist"}, Probe(s, h)
      PROVE  LedgerInv'
  <2>1. PICK tok \in Obtained(h, s, s, 0) : cache' = Stored(h, s, tok)
    BY <1>9 DEF Probe
  <2>2. TypeOK /\ OneUser /\ h \in Helpers
    BY HelperFacts DEF IndInv
  <2>3. tok \in TokenRec /\ userOf[tok.root] = userOf[s]
        /\ (tok.by = 0 \/ \E e \in cache : e.key[1] = h /\ e.tok = tok)
    BY <2>2, ObtainedFacts
  <2>4. MintedFor(h, tok)
    <3>1. PICK z : z = 0
      OBVIOUS
    <3>2. /\ z \in {0} \cup DOMAIN flows /\ (z = 0 => h \in {"copilot/mcp", "copilot/specialist"})
          /\ (z # 0 => h \in OnPath(flows[z].path))
          /\ tok.by = z \/ \E e \in cache : e.key[1] = h /\ e.tok = tok
      BY <2>3, <3>1
    <3> QED BY <1>1, <3>2, TokenFacts
  <2>5. \A e \in cache' : e \in cache \/ (e.key[1] = h /\ e.tok = tok)
    BY <2>1, <2>2, <2>3, StoredFacts
  <2>6. \A e \in cache' : MintedFor(e.key[1], e.tok)
    BY <1>1, <2>4, <2>5 DEF TokensMinted
  <2> QED BY <1>2, <1>3, <1>9, <2>6 DEF Probe
<1>10. ASSUME NEW s \in Sessions, Walk(s) PROVE LedgerInv'
  BY <1>10, WalkLedger
<1>11. CASE UNCHANGED vars
  BY <1>1, <1>2, <1>3, <1>11 DEF vars, TokensMinted
<1> QED BY <1>4, <1>5, <1>6, <1>7, <1>8, <1>9, <1>10, <1>11 DEF Next


(* LedgerInv is an invariant: a token comes from a question on whose path its helper
   is, and the memory holds what was fetched with its key. *)
THEOREM LedgerInvariance == Spec => []LedgerInv
BY Invariance, LedgerInit, LedgerNext, PTL DEF Spec

(* What the copilot serves from memory in place of a refused walk was fetched for
   the question whose exchange it stands under (the key of createDownstreamChainFetcher
   holds the bearer). *)
THEOREM SnapshotsAreOwn == Spec => []SnapshotOfItsQuestion
<1>1. LedgerInv => SnapshotOfItsQuestion
  <2> SUFFICES ASSUME LedgerInv, NEW s \in Sessions, NEW e \in Snapshot(s)
               PROVE  e.by = slots[Branch(s)].tok.by
    BY DEF SnapshotOfItsQuestion
  <2>1. e \in snapshots /\ e.key[2] = slots[Branch(s)].tok
    BY DEF Snapshot, SnapshotKey
  <2> QED BY <2>1 DEF LedgerInv, SnapshotsOK
<1> QED BY <1>1, LedgerInvariance, PTL

-----------------------------------------------------------------------------
\* The actors before the newest, and the newest.
LEMMA FrontOfAppend ==
    ASSUME NEW S, NEW s \in Seq(S), NEW x \in S, NEW t, t = Append(s, x)
    PROVE  Front(t) = s /\ Last(t) = x
<1>1. t \in Seq(S) /\ Len(t) = Len(s) + 1 /\ t[Len(t)] = x /\ Len(s) \in Nat
      /\ \A i \in 1..Len(s) : t[i] = s[i]
  OBVIOUS
<1>2. PICK n \in Nat : n = Len(s) /\ Len(t) - 1 = n
  BY <1>1
<1>3. SubSeq(t, 1, n) \in Seq(S) /\ Len(SubSeq(t, 1, n)) = n
      /\ \A i \in 1..n : SubSeq(t, 1, n)[i] = t[i]
  BY <1>1, <1>2
<1>4. SubSeq(t, 1, n) = s
  BY <1>1, <1>2, <1>3, SeqEqual
<1> QED BY <1>1, <1>2, <1>4 DEF Front, Last

\* Sequences of up to four elements.
LEMMA SameTuples ==
    ASSUME NEW S, NEW s \in Seq(S), NEW t \in Seq(S), NEW n \in 1..4, Len(s) = n, Len(t) = n,
           s[1] = t[1], n >= 2 => s[2] = t[2], n >= 3 => s[3] = t[3], n = 4 => s[4] = t[4]
    PROVE  s = t
<1>1. \A i \in 1..n : i = 1 \/ (i = 2 /\ n >= 2) \/ (i = 3 /\ n >= 3) \/ (i = 4 /\ n = 4)
  OBVIOUS
<1>2. \A i \in 1..Len(s) : s[i] = t[i]
  BY <1>1
<1> QED BY <1>2, SeqEqual

LEMMA AppendTuples ==
    \A a, b, c, d :
        /\ Append(<<>>, a) = <<a>> /\ Append(<<a>>, b) = <<a, b>>
        /\ Append(<<a, b>>, c) = <<a, b, c>> /\ Append(<<a, b, c>>, d) = <<a, b, c, d>>
        /\ <<a>> \o <<b, c>> = <<a, b, c>> /\ <<a, b>> \o <<c, d>> = <<a, b, c, d>>
<1> SUFFICES ASSUME NEW a, NEW b, NEW c, NEW d
             PROVE  /\ Append(<<>>, a) = <<a>> /\ Append(<<a>>, b) = <<a, b>>
                    /\ Append(<<a, b>>, c) = <<a, b, c>> /\ Append(<<a, b, c>>, d) = <<a, b, c, d>>
                    /\ <<a>> \o <<b, c>> = <<a, b, c>> /\ <<a, b>> \o <<c, d>> = <<a, b, c, d>>
  OBVIOUS
<1> DEFINE S == {a, b, c, d}
           Tuple(t, n) == /\ t \in Seq(S) /\ Len(t) = n /\ t[1] = a
                          /\ n >= 2 => t[2] = b
                          /\ n >= 3 => t[3] = c
                          /\ n = 4 => t[4] = d
<1>1. \A n \in 1..4 : \A t, u : Tuple(t, n) /\ Tuple(u, n) => t = u
  <2> HIDE DEF S
  <2> QED BY SameTuples
<1>2. Tuple(<<a>>, 1) /\ Tuple(<<a, b>>, 2) /\ Tuple(<<a, b, c>>, 3) /\ Tuple(<<a, b, c, d>>, 4)
  OBVIOUS
<1>3. a \in S /\ b \in S /\ c \in S /\ d \in S /\ <<>> \in Seq(S) /\ Len(<<>>) = 0
  OBVIOUS
<1>4. Tuple(Append(<<>>, a), 1)
  BY <1>3
<1>5. Tuple(Append(<<a>>, b), 2)
  <2>1. PICK p : p = <<a>>
    OBVIOUS
  <2> HIDE DEF S
  <2>2. Tuple(Append(p, b), 2)
    BY <1>2, <1>3, <2>1
  <2> QED BY <2>1, <2>2
<1>6. Tuple(Append(<<a, b>>, c), 3)
  <2>1. PICK p : p = <<a, b>>
    OBVIOUS
  <2> HIDE DEF S
  <2>2. Tuple(Append(p, c), 3)
    BY <1>2, <1>3, <2>1
  <2> QED BY <2>1, <2>2
<1>7. Tuple(Append(<<a, b, c>>, d), 4)
  <2>1. PICK p : p = <<a, b, c>>
    OBVIOUS
  <2> HIDE DEF S
  <2>2. Tuple(Append(p, d), 4)
    BY <1>2, <1>3, <2>1
  <2> QED BY <2>1, <2>2
<1>8. Tuple(<<a>> \o <<b, c>>, 3)
  <2>1. PICK p, q : p = <<a>> /\ q = <<b, c>>
    OBVIOUS
  <2>2. q \in Seq(S) /\ Len(q) = 2 /\ q[1] = b /\ q[2] = c
    BY <2>1
  <2> HIDE DEF S
  <2>3. Tuple(p \o q, 3)
    BY <1>2, <2>1, <2>2
  <2> QED BY <2>1, <2>3
<1>9. Tuple(<<a, b>> \o <<c, d>>, 4)
  <2>1. PICK p, q : p = <<a, b>> /\ q = <<c, d>>
    OBVIOUS
  <2>2. q \in Seq(S) /\ Len(q) = 2 /\ q[1] = c /\ q[2] = d
    BY <2>1
  <2> HIDE DEF S
  <2>3. Tuple(p \o q, 4)
    BY <1>2, <2>1, <2>2
  <2> QED BY <2>1, <2>3
<1> HIDE DEF Tuple
<1> QED BY <1>1, <1>2, <1>4, <1>5, <1>6, <1>7, <1>8, <1>9

LEMMA FrontOfTuples ==
    \A a, b, c, d :
        /\ Front(<<a>>) = <<>> /\ Last(<<a>>) = a
        /\ Front(<<a, b>>) = <<a>> /\ Last(<<a, b>>) = b
        /\ Front(<<a, b, c>>) = <<a, b>> /\ Last(<<a, b, c>>) = c
        /\ Front(<<a, b, c, d>>) = <<a, b, c>> /\ Last(<<a, b, c, d>>) = d
<1> SUFFICES ASSUME NEW a, NEW b, NEW c, NEW d
             PROVE  /\ Front(<<a>>) = <<>> /\ Last(<<a>>) = a
                    /\ Front(<<a, b>>) = <<a>> /\ Last(<<a, b>>) = b
                    /\ Front(<<a, b, c>>) = <<a, b>> /\ Last(<<a, b, c>>) = c
                    /\ Front(<<a, b, c, d>>) = <<a, b, c>> /\ Last(<<a, b, c, d>>) = d
  OBVIOUS
<1> DEFINE S == {a, b, c, d}
<1>1. PICK e, p, q, r, s : /\ e = <<>> /\ p = <<a>> /\ q = <<a, b>> /\ r = <<a, b, c>>
                           /\ s = <<a, b, c, d>>
  OBVIOUS
<1>2. /\ a \in S /\ b \in S /\ c \in S /\ d \in S
      /\ e \in Seq(S) /\ p \in Seq(S) /\ q \in Seq(S) /\ r \in Seq(S)
  BY <1>1
<1> HIDE DEF S
<1>3. p = Append(e, a) /\ q = Append(p, b) /\ r = Append(q, c) /\ s = Append(r, d)
  BY <1>1, AppendTuples
<1>4. Front(p) = e /\ Last(p) = a
  BY <1>2, <1>3, FrontOfAppend
<1>5. Front(q) = p /\ Last(q) = b
  BY <1>2, <1>3, FrontOfAppend
<1>6. Front(r) = q /\ Last(r) = c
  BY <1>2, <1>3, FrontOfAppend
<1>7. Front(s) = r /\ Last(s) = d
  BY <1>2, <1>3, FrontOfAppend
<1> QED BY <1>1, <1>4, <1>5, <1>6, <1>7

LEMMA ActTable ==
    /\ \A path \in {"read", "privileged"} : \A hop \in CopilotHelpers :
          ActClaim[path][hop] = <<"copilot">>
    /\ \A hop \in {"specialist/ops", "specialist/inspect", "specialist/llm"} :
          ActClaim["privileged"][hop] = <<"copilot", "specialist">>
    /\ \A hop \in {"gateway/mcp-inspect", "gateway/mcp-ops"} :
          /\ ActClaim["read"][hop] = <<"copilot", "agentgateway">>
          /\ ActClaim["privileged"][hop] = <<"copilot", "specialist", "agentgateway">>
    /\ \A hop \in {"mcp-inspect", "mcp-ops"} :
          /\ ActClaim["read"][hop] = <<"copilot", "agentgateway", hop>>
          /\ ActClaim["privileged"][hop] = <<"copilot", "specialist", "agentgateway", hop>>
<1>1. ASSUME NEW path \in {"read", "privileged"}, NEW hop \in CopilotHelpers
      PROVE  ActClaim[path][hop] = <<"copilot">>
  BY HopFacts DEF ActClaim, CopilotHelpers
<1>2. ASSUME NEW hop \in {"specialist/ops", "specialist/inspect", "specialist/llm"}
      PROVE  ActClaim["privileged"][hop] = <<"copilot", "specialist">>
  BY HopFacts DEF ActClaim, CopilotHelpers
<1>3. ASSUME NEW hop \in {"gateway/mcp-inspect", "gateway/mcp-ops"}
      PROVE  /\ ActClaim["read"][hop] = <<"copilot", "agentgateway">>
             /\ ActClaim["privileged"][hop] = <<"copilot", "specialist", "agentgateway">>
  <2>1. Append(<<"copilot">>, "agentgateway") = <<"copilot", "agentgateway">>
    BY AppendTuples
  <2>2. Append(<<"copilot", "specialist">>, "agentgateway") = <<"copilot", "specialist", "agentgateway">>
    BY AppendTuples
  <2>3. hop \in AllHops /\ hop \notin CopilotHelpers
    BY HopFacts DEF CopilotHelpers
  <2> QED BY <2>1, <2>2, <2>3 DEF ActClaim
<1>4. ASSUME NEW hop \in {"mcp-inspect", "mcp-ops"}
      PROVE  /\ ActClaim["read"][hop] = <<"copilot", "agentgateway", hop>>
             /\ ActClaim["privileged"][hop] = <<"copilot", "specialist", "agentgateway", hop>>
  <2>1. <<"copilot">> \o <<"agentgateway", hop>> = <<"copilot", "agentgateway", hop>>
    BY AppendTuples
  <2>2. <<"copilot", "specialist">> \o <<"agentgateway", hop>>
           = <<"copilot", "specialist", "agentgateway", hop>>
    BY AppendTuples
  <2>3. hop \in AllHops /\ hop \notin CopilotHelpers /\ hop \notin {"gateway/mcp-inspect", "gateway/mcp-ops"}
    BY HopFacts DEF CopilotHelpers
  <2> QED BY <2>1, <2>2, <2>3 DEF ActClaim
<1> QED BY <1>1, <1>2, <1>3, <1>4

\* The grants of the exchanges that the hops stand for: whom they name next.
LEMMA NamedNext ==
    /\ MayActClaim["copilot/mcp"] = "agentgateway"
    /\ MayActClaim["copilot/specialist"] = "specialist"
    /\ MayActClaim["specialist/inspect"] = "agentgateway"
    /\ MayActClaim["specialist/ops"] = "agentgateway"
    /\ MayActClaim["gateway/mcp-inspect"] = "mcp-inspect"
    /\ MayActClaim["gateway/mcp-ops"] = "mcp-ops"
<1> DEFINE Names(c, a, n) == Curity!GrantFor(c, a).mayAct = n
<1>1. \A g \in Curity!CLIENT_POLICY :
         /\ g.client = "copilot" /\ g.aud = "mcp-gateway" => g.mayAct = "agentgateway"
         /\ g.client = "copilot" /\ g.aud = "agent-specialist" => g.mayAct = "specialist"
         /\ g.client = "specialist" /\ g.aud = "mcp-gateway" => g.mayAct = "agentgateway"
         /\ g.client = "agentgateway" /\ g.aud = "mcp-inspect" => g.mayAct = "mcp-inspect"
         /\ g.client = "agentgateway" /\ g.aud = "mcp-ops" => g.mayAct = "mcp-ops"
  BY DEF Curity!CLIENT_POLICY, Curity!Grant
<1>2. /\ \E g \in Curity!CLIENT_POLICY : g.client = "copilot" /\ g.aud = "mcp-gateway"
      /\ \E g \in Curity!CLIENT_POLICY : g.client = "copilot" /\ g.aud = "agent-specialist"
      /\ \E g \in Curity!CLIENT_POLICY : g.client = "specialist" /\ g.aud = "mcp-gateway"
      /\ \E g \in Curity!CLIENT_POLICY : g.client = "agentgateway" /\ g.aud = "mcp-inspect"
      /\ \E g \in Curity!CLIENT_POLICY : g.client = "agentgateway" /\ g.aud = "mcp-ops"
  BY DEF Curity!CLIENT_POLICY, Curity!Grant
<1>3. /\ Names("copilot", "mcp-gateway", "agentgateway")
      /\ Names("copilot", "agent-specialist", "specialist")
      /\ Names("specialist", "mcp-gateway", "agentgateway")
      /\ Names("agentgateway", "mcp-inspect", "mcp-inspect")
      /\ Names("agentgateway", "mcp-ops", "mcp-ops")
  BY <1>1, <1>2 DEF Curity!GrantFor
<1>4. \A hop \in AllHops : MayActClaim[hop] = Curity!GrantFor(ClientOf(hop), AudienceOf(hop)).mayAct
  BY DEF MayActClaim
<1>5. /\ ClientOf("copilot/mcp") = "copilot" /\ AudienceOf("copilot/mcp") = "mcp-gateway"
      /\ ClientOf("copilot/specialist") = "copilot" /\ AudienceOf("copilot/specialist") = "agent-specialist"
      /\ ClientOf("specialist/inspect") = "specialist" /\ AudienceOf("specialist/inspect") = "mcp-gateway"
      /\ ClientOf("specialist/ops") = "specialist" /\ AudienceOf("specialist/ops") = "mcp-gateway"
      /\ ClientOf("gateway/mcp-inspect") = "agentgateway" /\ AudienceOf("gateway/mcp-inspect") = "mcp-inspect"
      /\ ClientOf("gateway/mcp-ops") = "agentgateway" /\ AudienceOf("gateway/mcp-ops") = "mcp-ops"
  BY DEF ClientOf, AudienceOf, CopilotHelpers, LlmHelpers
<1> QED BY <1>3, <1>4, <1>5, HopFacts

\* The hops of a chain, and the one under the inbound token.
PathHops(path) ==
    IF path = "read" THEN {"copilot/llm", "copilot/mcp", "gateway/mcp-inspect", "mcp-inspect"}
    ELSE AllHops \ {"copilot/llm", "copilot/mcp"}

ActOf(path, hop) == IF hop = "inbound" THEN <<>> ELSE ActClaim[path][hop]
MayActOf(hop) == IF hop = "inbound" THEN "copilot" ELSE MayActClaim[hop]

\* The nearest row before a hop that fits is its subject's, and names its actor.
LEMMA NearestIsSubject ==
    ASSUME NEW path \in {"read", "privileged"}, NEW hop \in PathHops(path),
           NEW u, u = SubjectHop(hop, path)
    PROVE  /\ u \in PathHops(path) \cup {"inbound"} /\ u \notin LlmHelpers
           /\ Rank(u) < Rank(hop)
           /\ ActClaim[path][hop] # <<>>
           /\ ActOf(path, u) = Front(ActClaim[path][hop])
           /\ MayActOf(u) = Last(ActClaim[path][hop]) /\ MayActOf(u) # Curity!NoOne
           /\ \A g \in PathHops(path) : Rank(u) < Rank(g) /\ Rank(g) < Rank(hop) =>
                 ActClaim[path][g] # Front(ActClaim[path][hop])
<1> DEFINE A == ActClaim[path]
<1>0. Curity!NoOne = "none"
  BY DEF Curity!NoOne
<1>1. CASE path = "read"
  <2>1. /\ A["copilot/llm"] = <<"copilot">> /\ A["copilot/mcp"] = <<"copilot">>
        /\ A["gateway/mcp-inspect"] = <<"copilot", "agentgateway">>
        /\ A["mcp-inspect"] = <<"copilot", "agentgateway", "mcp-inspect">>
    BY <1>1, ActTable DEF CopilotHelpers
  <2>2. /\ Front(A["copilot/llm"]) = <<>> /\ Last(A["copilot/llm"]) = "copilot"
        /\ Front(A["copilot/mcp"]) = <<>> /\ Last(A["copilot/mcp"]) = "copilot"
        /\ Front(A["gateway/mcp-inspect"]) = <<"copilot">>
        /\ Last(A["gateway/mcp-inspect"]) = "agentgateway"
        /\ Front(A["mcp-inspect"]) = <<"copilot", "agentgateway">>
        /\ Last(A["mcp-inspect"]) = "mcp-inspect"
    BY <2>1, FrontOfTuples
  <2>3. /\ <<"copilot">> # <<>> /\ <<"copilot", "agentgateway">> # <<>>
        /\ <<"copilot", "agentgateway", "mcp-inspect">> # <<>>
        /\ <<"copilot">> # <<"copilot", "agentgateway">>
    OBVIOUS
  <2> HIDE DEF A
  <2>4. CASE hop = "copilot/llm"
    <3>1. u = "inbound"
      BY <2>4, SubjectFacts DEF CopilotHelpers
    <3> QED BY <1>0, <1>1, <2>1, <2>2, <2>3, <2>4, <3>1 DEF A, PathHops, Rank, ActOf, MayActOf, LlmHelpers
  <2>5. CASE hop = "copilot/mcp"
    <3>1. u = "inbound"
      BY <2>5, SubjectFacts DEF CopilotHelpers
    <3> QED BY <1>0, <1>1, <2>1, <2>2, <2>3, <2>5, <3>1 DEF A, PathHops, Rank, ActOf, MayActOf, LlmHelpers
  <2>6. CASE hop = "gateway/mcp-inspect"
    <3>1. u = "copilot/mcp"
      BY <1>1, <2>6, SubjectFacts
    <3> QED BY <1>0, <1>1, <2>1, <2>2, <2>3, <2>6, <3>1, NamedNext DEF A, PathHops, Rank, ActOf, MayActOf, LlmHelpers
  <2>7. CASE hop = "mcp-inspect"
    <3>1. u = "gateway/mcp-inspect"
      BY <1>1, <2>7, SubjectFacts
    <3> QED BY <1>0, <1>1, <2>1, <2>2, <2>3, <2>7, <3>1, NamedNext DEF A, PathHops, Rank, ActOf, MayActOf, LlmHelpers
  <2> QED BY <1>1, <2>4, <2>5, <2>6, <2>7 DEF PathHops
<1>2. CASE path = "privileged"
  <2>1. /\ A["copilot/specialist"] = <<"copilot">>
        /\ A["specialist/llm"] = <<"copilot", "specialist">>
        /\ A["specialist/inspect"] = <<"copilot", "specialist">>
        /\ A["specialist/ops"] = <<"copilot", "specialist">>
        /\ A["gateway/mcp-inspect"] = <<"copilot", "specialist", "agentgateway">>
        /\ A["gateway/mcp-ops"] = <<"copilot", "specialist", "agentgateway">>
        /\ A["mcp-inspect"] = <<"copilot", "specialist", "agentgateway", "mcp-inspect">>
        /\ A["mcp-ops"] = <<"copilot", "specialist", "agentgateway", "mcp-ops">>
    BY <1>2, ActTable DEF CopilotHelpers
  <2>2. /\ Front(A["copilot/specialist"]) = <<>> /\ Last(A["copilot/specialist"]) = "copilot"
        /\ \A h \in {"specialist/llm", "specialist/inspect", "specialist/ops"} :
              Front(A[h]) = <<"copilot">> /\ Last(A[h]) = "specialist"
        /\ \A h \in {"gateway/mcp-inspect", "gateway/mcp-ops"} :
              Front(A[h]) = <<"copilot", "specialist">> /\ Last(A[h]) = "agentgateway"
        /\ \A h \in {"mcp-inspect", "mcp-ops"} :
              Front(A[h]) = <<"copilot", "specialist", "agentgateway">> /\ Last(A[h]) = h
    <3>1. /\ \A h \in {"specialist/llm", "specialist/inspect", "specialist/ops"} :
                A[h] = <<"copilot", "specialist">>
          /\ \A h \in {"gateway/mcp-inspect", "gateway/mcp-ops"} :
                A[h] = <<"copilot", "specialist", "agentgateway">>
          /\ \A h \in {"mcp-inspect", "mcp-ops"} :
                A[h] = <<"copilot", "specialist", "agentgateway", h>>
      BY <2>1
    <3> HIDE DEF A
    <3>2. Front(A["copilot/specialist"]) = <<>> /\ Last(A["copilot/specialist"]) = "copilot"
      BY <2>1, FrontOfTuples
    <3>3. ASSUME NEW h \in {"specialist/llm", "specialist/inspect", "specialist/ops"}
          PROVE  Front(A[h]) = <<"copilot">> /\ Last(A[h]) = "specialist"
      <4>1. A[h] = <<"copilot", "specialist">>
        BY <3>1
      <4> QED BY <4>1, FrontOfTuples
    <3>4. ASSUME NEW h \in {"gateway/mcp-inspect", "gateway/mcp-ops"}
          PROVE  Front(A[h]) = <<"copilot", "specialist">> /\ Last(A[h]) = "agentgateway"
      <4>1. A[h] = <<"copilot", "specialist", "agentgateway">>
        BY <3>1
      <4> QED BY <4>1, FrontOfTuples
    <3>5. ASSUME NEW h \in {"mcp-inspect", "mcp-ops"}
          PROVE  Front(A[h]) = <<"copilot", "specialist", "agentgateway">> /\ Last(A[h]) = h
      <4>1. A[h] = <<"copilot", "specialist", "agentgateway", h>>
        BY <3>1
      <4> QED BY <4>1, FrontOfTuples
    <3> QED BY <3>2, <3>3, <3>4, <3>5
  <2>3. /\ <<"copilot">> # <<>> /\ <<"copilot", "specialist">> # <<>>
        /\ <<"copilot", "specialist", "agentgateway">> # <<>>
        /\ <<"copilot", "specialist", "agentgateway", "mcp-inspect">> # <<>>
        /\ <<"copilot", "specialist", "agentgateway", "mcp-ops">> # <<>>
        /\ <<"copilot">> # <<"copilot", "specialist">>
        /\ <<"copilot", "specialist">> # <<"copilot", "specialist", "agentgateway">>
        /\ <<"copilot", "specialist", "agentgateway">> # <<"copilot", "specialist", "agentgateway", "mcp-inspect">>
    OBVIOUS
  <2>4. PathHops(path) = {"copilot/specialist", "specialist/llm", "specialist/inspect", "specialist/ops",
                          "gateway/mcp-inspect", "mcp-inspect", "gateway/mcp-ops", "mcp-ops"}
    BY <1>2, HopFacts DEF PathHops
  <2> HIDE DEF A
  <2>5. CASE hop = "copilot/specialist"
    <3>1. u = "inbound"
      BY <2>5, SubjectFacts DEF CopilotHelpers
    <3> QED BY <1>0, <2>1, <2>2, <2>3, <2>4, <2>5, <3>1 DEF A, Rank, ActOf, MayActOf, LlmHelpers
  <2>6. CASE hop \in {"specialist/llm", "specialist/inspect", "specialist/ops"}
    <3>1. u = "copilot/specialist"
      BY <2>6, SubjectFacts
    <3> QED BY <1>0, <2>1, <2>2, <2>3, <2>4, <2>6, <3>1, NamedNext DEF A, Rank, ActOf, MayActOf, LlmHelpers
  <2>7. CASE hop = "gateway/mcp-inspect"
    <3>1. u = "specialist/inspect"
      BY <1>2, <2>7, SubjectFacts
    <3> QED BY <1>0, <2>1, <2>2, <2>3, <2>4, <2>7, <3>1, NamedNext DEF A, Rank, ActOf, MayActOf, LlmHelpers
  <2>8. CASE hop = "gateway/mcp-ops"
    <3>1. u = "specialist/ops"
      BY <1>2, <2>8, SubjectFacts
    <3> QED BY <1>0, <2>1, <2>2, <2>3, <2>4, <2>8, <3>1, NamedNext DEF A, Rank, ActOf, MayActOf, LlmHelpers
  <2>9. CASE hop = "mcp-inspect"
    <3>1. u = "gateway/mcp-inspect"
      BY <1>2, <2>9, SubjectFacts
    <3> QED BY <1>0, <2>1, <2>2, <2>3, <2>4, <2>9, <3>1, NamedNext DEF A, Rank, ActOf, MayActOf, LlmHelpers
  <2>10. CASE hop = "mcp-ops"
    <3>1. u = "gateway/mcp-ops"
      BY <1>2, <2>10, SubjectFacts
    <3> QED BY <1>0, <2>1, <2>2, <2>3, <2>4, <2>10, <3>1, NamedNext DEF A, Rank, ActOf, MayActOf, LlmHelpers
  <2> QED BY <2>4, <2>5, <2>6, <2>7, <2>8, <2>9, <2>10
<1> QED BY <1>1, <1>2

\* A leaf that fits is not the nearest row that does: the subject's row is nearer.
LEMMA LeafIsShadowed ==
    ASSUME NEW b \in {"read", "privileged"}, NEW hop \in PathHops(b), NEW l \in PathHops(b) \cap LlmHelpers,
           NEW q \in {"read", "privileged"}, NEW p \in {"read", "privileged"},
           l = "specialist/llm" => p = "privileged",
           hop \in {"specialist/llm", "specialist/inspect", "specialist/ops"} => q = "privileged",
           Front(ActClaim[q][hop]) = ActClaim[p][l],
           NEW u, u = SubjectHop(hop, b)
    PROVE  /\ u \in PathHops(b) /\ Rank(l) < Rank(u)
           /\ \A r \in {"read", "privileged"} :
                 (u \in {"specialist/inspect", "specialist/ops"} => r = "privileged") =>
                     ActClaim[r][u] = ActClaim[p][l]
<1>1. CASE b = "read"
  <2>1. l = "copilot/llm" /\ ActClaim[p][l] = <<"copilot">>
    BY <1>1, ActTable DEF PathHops, LlmHelpers, CopilotHelpers
  <2>2. CASE hop \in {"copilot/llm", "copilot/mcp"}
    <3>1. ActClaim[q][hop] = <<"copilot">>
      BY <2>2, ActTable DEF CopilotHelpers
    <3> QED BY <2>1, <3>1, FrontOfTuples
  <2>3. CASE hop = "mcp-inspect"
    <3>1. ActClaim[q][hop] = <<"copilot", "agentgateway", hop>>
          \/ ActClaim[q][hop] = <<"copilot", "specialist", "agentgateway", hop>>
      BY <2>3, ActTable
    <3>2. Front(ActClaim[q][hop]) # <<"copilot">>
      <4>1. CASE ActClaim[q][hop] = <<"copilot", "agentgateway", hop>>
        BY <4>1, FrontOfTuples
      <4>2. CASE ActClaim[q][hop] = <<"copilot", "specialist", "agentgateway", hop>>
        BY <4>2, FrontOfTuples
      <4> QED BY <3>1, <4>1, <4>2
    <3> QED BY <2>1, <3>2
  <2>4. CASE hop = "gateway/mcp-inspect"
    <3>1. u = "copilot/mcp" /\ \A r \in {"read", "privileged"} : ActClaim[r][u] = <<"copilot">>
      BY <1>1, <2>4, SubjectFacts, ActTable DEF CopilotHelpers
    <3> QED BY <1>1, <2>1, <3>1 DEF PathHops, Rank
  <2> QED BY <1>1, <2>2, <2>3, <2>4 DEF PathHops
<1>2. CASE b = "privileged"
  <2>1. l = "specialist/llm" /\ ActClaim[p][l] = <<"copilot", "specialist">>
    BY <1>2, ActTable DEF PathHops, LlmHelpers
  <2>2. CASE hop = "copilot/specialist"
    <3>1. ActClaim[q][hop] = <<"copilot">>
      BY <2>2, ActTable DEF CopilotHelpers
    <3> QED BY <2>1, <3>1, FrontOfTuples
  <2>3. CASE hop \in {"specialist/llm", "specialist/inspect", "specialist/ops"}
    <3>1. ActClaim[q][hop] = <<"copilot", "specialist">>
      BY <2>3, ActTable
    <3>2. Front(ActClaim[q][hop]) = <<"copilot">>
      BY <3>1, FrontOfTuples
    <3> QED BY <2>1, <3>2
  <2>4. CASE hop \in {"mcp-inspect", "mcp-ops"}
    <3>1. ActClaim[q][hop] = <<"copilot", "agentgateway", hop>>
          \/ ActClaim[q][hop] = <<"copilot", "specialist", "agentgateway", hop>>
      BY <2>4, ActTable
    <3>2. Front(ActClaim[q][hop]) # <<"copilot", "specialist">>
      <4>1. CASE ActClaim[q][hop] = <<"copilot", "agentgateway", hop>>
        BY <4>1, FrontOfTuples
      <4>2. CASE ActClaim[q][hop] = <<"copilot", "specialist", "agentgateway", hop>>
        <5>1. Front(ActClaim[q][hop]) = <<"copilot", "specialist", "agentgateway">>
          BY <4>2, FrontOfTuples
        <5>2. <<"copilot", "specialist", "agentgateway">> # <<"copilot", "specialist">>
          OBVIOUS
        <5> QED BY <5>1, <5>2
      <4> QED BY <3>1, <4>1, <4>2
    <3> QED BY <2>1, <3>2
  <2>5. CASE hop \in {"gateway/mcp-inspect", "gateway/mcp-ops"}
    <3>1. u \in {"specialist/inspect", "specialist/ops"} /\ ActClaim["privileged"][u] = <<"copilot", "specialist">>
      BY <1>2, <2>5, SubjectFacts, ActTable
    <3>2. u \in PathHops(b) /\ Rank(l) < Rank(u)
      BY <1>2, <2>1, <3>1, HopFacts DEF PathHops, Rank
    <3> QED BY <2>1, <3>1, <3>2
  <2>6. hop \in {"copilot/specialist", "specialist/llm", "specialist/inspect", "specialist/ops",
                "gateway/mcp-inspect", "mcp-inspect", "gateway/mcp-ops", "mcp-ops"}
    BY <1>2, HopFacts DEF PathHops
  <2> QED BY <2>2, <2>3, <2>4, <2>5, <2>6
<1> QED BY <1>1, <1>2

\* The greatest of some positions.
LEMMA MaxFacts ==
    ASSUME NEW n \in Nat, NEW S \in SUBSET (1..n), S # {}
    PROVE  Max(S) \in S /\ \A y \in S : Max(S) >= y
<1> DEFINE R == OpToRel(<, Nat)
           T == {n - x : x \in S}
<1>1. T \subseteq Nat /\ T # {}
  OBVIOUS
<1>2. PICK m \in T : \A k \in T : ~(<<k, m>> \in R)
  <2> HIDE DEF T, R
  <2> QED BY <1>1, NatLessThanWellFounded, WFMin DEF R
<1>3. \A k \in T : ~(k < m)
  BY <1>1, <1>2 DEF OpToRel
<1>4. PICK x \in S : m = n - x
  BY <1>2
<1>5. \A y \in S : x >= y
  BY <1>3, <1>4
<1>6. \E g \in S : \A y \in S : g >= y
  BY <1>5
<1> QED BY <1>6 DEF Max

\* A chain of a branch: the hops of its path in their order, none without the hop
\* whose token it was exchanged from.
TopOf(path) == IF path = "read" THEN "copilot/mcp" ELSE "copilot/specialist"

GoodChain(s, path, c) ==
    /\ Len(c) \in Nat /\ DOMAIN c = 1..Len(c) /\ 1 \in DOMAIN c
    /\ c[1] = InboundRow(s)
    /\ \A i \in DOMAIN c \ {1} :
          /\ RowOK(c[i]) /\ c[i].hop \in PathHops(path)
          /\ \E k \in DOMAIN c : c[k].hop = SubjectHop(c[i].hop, path)
          /\ \E k \in DOMAIN c \ {1} : c[k].hop = TopOf(path)
    /\ \A i, j \in DOMAIN c : i < j => Rank(c[i].hop) < Rank(c[j].hop)

\* Positions and ranks agree.
LEMMA GoodOrder ==
    ASSUME NEW s, NEW path \in {"read", "privileged"}, NEW c, GoodChain(s, path, c)
    PROVE  /\ \A i \in DOMAIN c : i \in Nat /\ i >= 1 /\ Rank(c[i].hop) \in Nat
           /\ \A i, j \in DOMAIN c : Rank(c[i].hop) < Rank(c[j].hop) => i < j
           /\ \A i, j \in DOMAIN c : c[i].hop = c[j].hop => i = j
           /\ \A i \in DOMAIN c : i = 1 <=> c[i].hop = "inbound"
<1>1. c[1].hop = "inbound" /\ Rank(c[1].hop) = 0
  BY HopFacts DEF GoodChain, InboundRow
<1>2. \A i \in DOMAIN c \ {1} : c[i].hop \in AllHops
  BY DEF GoodChain, RowOK
<1>3. "inbound" \notin AllHops
  BY HopFacts
<1>4. \A i \in DOMAIN c : i \in Nat /\ i >= 1 /\ Rank(c[i].hop) \in Nat
  <2>1. DOMAIN c = 1..Len(c) /\ Len(c) \in Nat
    BY DEF GoodChain
  <2> QED BY <1>1, <1>2, <2>1, HopFacts
<1>5. ASSUME NEW i \in DOMAIN c, NEW j \in DOMAIN c
      PROVE  i < j \/ i = j \/ j < i
  BY <1>4
<1>6. \A i, j \in DOMAIN c : i < j => Rank(c[i].hop) < Rank(c[j].hop)
  BY DEF GoodChain
<1>7. \A i, j \in DOMAIN c : Rank(c[i].hop) < Rank(c[j].hop) => i < j
  BY <1>4, <1>5, <1>6
<1>8. \A i, j \in DOMAIN c : c[i].hop = c[j].hop => i = j
  BY <1>4, <1>5, <1>6
<1> QED BY <1>1, <1>2, <1>3, <1>4, <1>7, <1>8

\* The path of a row's token.
LEMMA RowPath ==
    ASSUME TypeOK, NEW r, RowOK(r)
    PROVE  /\ PathOf(r.tok) \in {"read", "privileged"}
           /\ r.act = ActClaim[PathOf(r.tok)][r.hop] /\ r.mayAct = MayActClaim[r.hop]
           /\ r.hop \in {"specialist/llm", "specialist/inspect", "specialist/ops"} =>
                 PathOf(r.tok) = "privileged"
           /\ r.hop = "copilot/mcp" => PathOf(r.tok) = "read"
           /\ r.hop = "copilot/specialist" /\ r.tok.by # 0 => PathOf(r.tok) = "privileged"
           /\ r.leaf => r.hop \in LlmHelpers
           /\ r.hop \notin LlmHelpers => ~r.leaf
<1>1. /\ r.hop \in AllHops /\ MintedFor(HelperOf(r.hop), r.tok)
      /\ r.act = ActClaim[PathOf(r.tok)][r.hop] /\ r.mayAct = MayActClaim[r.hop]
  BY DEF RowOK
<1>2. r.leaf <=> r.hop \in LlmHelpers
  BY Zenon DEF RowOK
<1>3. PICK h : h = HelperOf(r.hop)
  OBVIOUS
<1>4. h \in Helpers /\ MintedFor(h, r.tok)
  BY <1>1, <1>3, HopFacts
<1>5. r.hop \in Helpers => h = r.hop
  BY <1>3, HopFacts
<1>6. /\ PathOf(r.tok) \in {"read", "privileged"}
      /\ h \in {"specialist/llm", "specialist/inspect", "specialist/ops"} => PathOf(r.tok) = "privileged"
      /\ h = "copilot/mcp" => PathOf(r.tok) = "read"
  BY <1>1, <1>4, MintedPath
<1>7. ASSUME h = "copilot/specialist", r.tok.by # 0 PROVE PathOf(r.tok) = "privileged"
  <2>1. /\ r.tok.by \in DOMAIN flows /\ PathOf(r.tok) = flows[r.tok.by].path
        /\ h \in OnPath(PathOf(r.tok))
    BY <1>4, <1>7 DEF MintedFor, PathOf
  <2> QED BY <1>6, <1>7, <2>1, StepFacts
<1> QED BY <1>1, <1>2, <1>5, <1>6, <1>7, HelperFacts

\* The row of a hop's subject stands before it.
IsSubject(c, path, i, k) ==
    k \in DOMAIN c /\ k < i /\ k \in 1..(i-1) /\ c[k].hop = SubjectHop(c[i].hop, path)

LEMMA SubjectBefore ==
    ASSUME TypeOK, NEW s, NEW path \in {"read", "privileged"}, NEW c, GoodChain(s, path, c),
           NEW i \in DOMAIN c \ {1}
    PROVE  /\ c[i].hop \in PathHops(path) /\ RowOK(c[i]) /\ i > 1 /\ i \in Nat
           /\ 1..(i-1) \subseteq DOMAIN c
           /\ \E k : IsSubject(c, path, i, k)
<1>1. c[i].hop \in PathHops(path) /\ RowOK(c[i]) /\ DOMAIN c = 1..Len(c) /\ Len(c) \in Nat
  BY DEF GoodChain
<1>2. PICK k \in DOMAIN c : c[k].hop = SubjectHop(c[i].hop, path)
  BY DEF GoodChain
<1>3. Rank(c[k].hop) < Rank(c[i].hop)
  BY <1>1, <1>2, NearestIsSubject
<1>4. k < i
  BY <1>3, GoodOrder
<1> QED BY <1>1, <1>2, <1>4 DEF IsSubject

\* "A parent is always on the spine": the row a token is shown under is no leaf.
LEMMA ParentOnSpine ==
    ASSUME TypeOK, NEW s, NEW path \in {"read", "privileged"}, NEW c, GoodChain(s, path, c),
           NEW i \in DOMAIN c \ {1}, NEW p, p = FindParentIndex(c, i), p # NoParent
    PROVE  ~c[p].leaf
<1> DEFINE fits == {j \in 1..(i-1) : c[i].act # <<>> /\ c[j].act = Front(c[i].act)}
<1>1. /\ c[i].hop \in PathHops(path) /\ RowOK(c[i]) /\ i > 1 /\ i \in Nat
      /\ 1..(i-1) \subseteq DOMAIN c
  BY SubjectBefore
<1>0. PICK k : IsSubject(c, path, i, k)
  BY SubjectBefore
<1>2. k \in 1..(i-1) /\ c[k].hop = SubjectHop(c[i].hop, path)
  BY <1>0 DEF IsSubject
<1>3. fits # {} /\ p = Max(fits)
  BY DEF FindParentIndex, NoParent
<1>4. p \in fits /\ \A y \in fits : p >= y
  <2>1. PICK n \in Nat : n = i - 1
    BY <1>1
  <2>2. fits \in SUBSET (1..n)
    BY <2>1
  <2> HIDE DEF fits
  <2> QED BY <1>3, <2>2, MaxFacts
<1>5. ASSUME c[p].leaf PROVE FALSE
  <2>1. p \in DOMAIN c /\ p < i /\ p \in Nat /\ c[p].act = Front(c[i].act) /\ c[i].act # <<>>
    BY <1>1, <1>4
  <2>2. p # 1
    <3>1. c[1].leaf = FALSE
      BY DEF GoodChain, InboundRow
    <3> QED BY <1>5, <3>1
  <2>3. RowOK(c[p]) /\ c[p].hop \in PathHops(path)
    BY <2>1, <2>2 DEF GoodChain
  <2>4. PICK q, r : q = PathOf(c[i].tok) /\ r = PathOf(c[p].tok)
    OBVIOUS
  <2>5. /\ c[p].hop \in LlmHelpers /\ q \in {"read", "privileged"} /\ r \in {"read", "privileged"}
        /\ c[i].act = ActClaim[q][c[i].hop] /\ c[p].act = ActClaim[r][c[p].hop]
        /\ c[p].hop = "specialist/llm" => r = "privileged"
        /\ c[i].hop \in {"specialist/llm", "specialist/inspect", "specialist/ops"} => q = "privileged"
    BY <1>1, <1>5, <2>3, <2>4, RowPath
  <2>6. PICK l, hop, u : l = c[p].hop /\ hop = c[i].hop /\ u = c[k].hop
    OBVIOUS
  <2>7. Front(ActClaim[q][hop]) = ActClaim[r][l]
    BY <2>1, <2>5, <2>6
  <2>8. /\ u \in PathHops(path) /\ Rank(l) < Rank(u)
        /\ \A t \in {"read", "privileged"} :
              (u \in {"specialist/inspect", "specialist/ops"} => t = "privileged") =>
                  ActClaim[t][u] = ActClaim[r][l]
    BY <1>1, <1>2, <2>3, <2>5, <2>6, <2>7, LeafIsShadowed
  <2>9. p < k /\ k \in DOMAIN c
    BY <1>1, <1>2, <2>1, <2>6, <2>8, GoodOrder
  <2>10. RowOK(c[k])
    BY <2>1, <2>9 DEF GoodChain
  <2>11. c[k].act = ActClaim[r][l]
    <3>1. PICK t : t = PathOf(c[k].tok)
      OBVIOUS
    <3>2. /\ t \in {"read", "privileged"} /\ c[k].act = ActClaim[t][u]
          /\ u \in {"specialist/inspect", "specialist/ops"} => t = "privileged"
      BY <2>6, <2>10, <3>1, RowPath
    <3> QED BY <2>8, <3>2
  <2>12. k \in fits
    BY <1>2, <2>1, <2>5, <2>6, <2>11
  <2> QED BY <1>4, <2>1, <2>9, <2>12, <1>1
<1> QED BY <1>5

\* The position on the spine tells the rows of the spine apart.
LEMMA NumbersDiffer ==
    ASSUME NEW c, NEW i \in Nat, NEW j \in Nat, 1 <= i, i < j, ~c[i].leaf
    PROVE  Number(c, i) # Number(c, j)
<1> DEFINE S(n) == {k \in 1..(n-1) : ~c[k].leaf}
<1>1. S(i) \subseteq S(j) /\ i \in S(j) /\ i \notin S(i)
  OBVIOUS
<1>2. IsFiniteSet(S(j))
  <2>1. IsFiniteSet(1..(j-1))
    BY FS_Interval
  <2>2. S(j) \in SUBSET (1..(j-1))
    OBVIOUS
  <2> QED BY <2>1, <2>2, FS_Subset
<1>3. Cardinality(S(i)) = Cardinality(S(j)) => S(i) = S(j)
  <2> HIDE DEF S
  <2> QED BY <1>1, <1>2, FS_Subset
<1>4. Number(c, i) = Cardinality(S(i)) /\ Number(c, j) = Cardinality(S(j))
  BY DEF Number
<1> HIDE DEF S
<1> QED BY <1>1, <1>3, <1>4

\* In a chain of one question every row is shown under its subject's.
LEMMA RowTrue ==
    ASSUME TypeOK, NEW s, NEW path \in {"read", "privileged"}, NEW c, GoodChain(s, path, c),
           NEW tok, PathOf(tok) = path, \A j \in DOMAIN c \ {1} : c[j].tok = tok,
           NEW i \in DOMAIN c \ {1}
    PROVE  RowIsTrue(c, i, FindParentIndex(c, i))
<1> DEFINE fits == {j \in 1..(i-1) : c[i].act # <<>> /\ c[j].act = Front(c[i].act)}
           A == ActClaim[path]
<1>1. /\ c[i].hop \in PathHops(path) /\ RowOK(c[i]) /\ i > 1 /\ i \in Nat
      /\ 1..(i-1) \subseteq DOMAIN c
  BY SubjectBefore
<1>0. PICK k : IsSubject(c, path, i, k)
  BY SubjectBefore
<1>2. k \in 1..(i-1) /\ k < i /\ k \in DOMAIN c /\ k \in Nat /\ c[k].hop = SubjectHop(c[i].hop, path)
  BY <1>0, <1>1 DEF IsSubject
<1>3. \A j \in DOMAIN c \ {1} :
         /\ RowOK(c[j]) /\ c[j].hop \in PathHops(path)
         /\ c[j].act = A[c[j].hop] /\ c[j].mayAct = MayActClaim[c[j].hop]
         /\ c[j].hop \notin LlmHelpers => ~c[j].leaf
  <2>1. \A j \in DOMAIN c \ {1} : RowOK(c[j]) /\ c[j].hop \in PathHops(path) /\ PathOf(c[j].tok) = path
    BY DEF GoodChain
  <2> QED BY <2>1, RowPath
<1>4. /\ c[1].hop = "inbound" /\ c[1].act = <<>> /\ c[1].mayAct = "copilot" /\ ~c[1].leaf
  BY DEF GoodChain, InboundRow
<1>5. PICK hop, u : hop = c[i].hop /\ u = c[k].hop
  OBVIOUS
<1>6. /\ u \in PathHops(path) \cup {"inbound"} /\ u \notin LlmHelpers
      /\ Rank(u) < Rank(hop) /\ A[hop] # <<>>
      /\ ActOf(path, u) = Front(A[hop])
      /\ MayActOf(u) = Last(A[hop]) /\ MayActOf(u) # Curity!NoOne
      /\ \A g \in PathHops(path) : Rank(u) < Rank(g) /\ Rank(g) < Rank(hop) => A[g] # Front(A[hop])
  BY <1>1, <1>2, <1>5, NearestIsSubject
<1>7. c[i].act = A[hop]
  BY <1>3, <1>5
<1>8. k = 1 <=> u = "inbound"
  BY <1>2, <1>5, GoodOrder
<1>9. c[k].act = Front(A[hop]) /\ c[k].mayAct = Last(A[hop]) /\ c[k].mayAct # Curity!NoOne /\ ~c[k].leaf
  <2>1. CASE k = 1
    BY <1>4, <1>5, <1>6, <1>8, <2>1 DEF ActOf, MayActOf
  <2>2. CASE k # 1
    <3>1. c[k].act = A[u] /\ c[k].mayAct = MayActClaim[u] /\ ~c[k].leaf
      BY <1>2, <1>3, <1>5, <1>6, <2>2
    <3> QED BY <1>6, <1>8, <2>2, <3>1 DEF ActOf, MayActOf
  <2> QED BY <2>1, <2>2
<1>10. k \in fits
  BY <1>2, <1>6, <1>7, <1>9
<1>11. ASSUME NEW j \in 1..(i-1), j > k PROVE c[j].act # Front(A[hop])
  <2>1. j \in DOMAIN c /\ j # 1 /\ j < i /\ j \in Nat
    BY <1>1, <1>2, <1>11
  <2>2. Rank(c[k].hop) < Rank(c[j].hop) /\ Rank(c[j].hop) < Rank(c[i].hop)
    BY <1>2, <1>11, <2>1 DEF GoodChain
  <2>3. c[j].act = A[c[j].hop] /\ c[j].hop \in PathHops(path)
    BY <1>3, <2>1
  <2> QED BY <1>5, <1>6, <2>2, <2>3
<1>12. Max(fits) = k
  <2>1. \A j \in fits : j \in Nat /\ k >= j
    <3>1. \A j \in fits : j \in 1..(i-1) /\ c[j].act = Front(A[hop])
      BY <1>7
    <3> QED BY <1>1, <1>2, <1>11, <3>1
  <2> HIDE DEF fits
  <2> QED BY <1>2, <1>10, <2>1 DEF Max
<1>13. FindParentIndex(c, i) = k
  BY <1>10, <1>12 DEF FindParentIndex
<1> HIDE DEF fits, A
<1>14. k # NoParent
  BY <1>2 DEF NoParent
<1>15. Mark(c, i, k) = "named"
  BY <1>7, <1>9, <1>14 DEF Mark
<1>16. ParentNumber(c, k) = Number(c, k)
  BY <1>9 DEF ParentNumber
<1>17. ASSUME NEW j \in DOMAIN c, ~c[j].leaf, Number(c, j) = Number(c, k)
       PROVE  c[j].hop = SubjectHop(c[i].hop, PathOf(c[i].tok))
  <2>1. j \in Nat /\ j >= 1 /\ k >= 1
    BY <1>2, GoodOrder
  <2>2. j = k
    BY <1>2, <1>9, <1>17, <2>1, NumbersDiffer
  <2> QED BY <1>2, <2>2
<1> QED BY <1>13, <1>15, <1>16, <1>17 DEF RowIsTrue

-----------------------------------------------------------------------------
\* The inbound token and the rows under it.
LEMMA ChainIsGood ==
    ASSUME NEW s \in Sessions, NEW path \in {"read", "privileged"}, NEW rows, Segment(rows, 1, 10),
           HopsOf(rows) \subseteq PathHops(path),
           \A hop \in HopsOf(rows) : SubjectHop(hop, path) \in HopsOf(rows) \cup {"inbound"},
           HopsOf(rows) = {} \/ TopOf(path) \in HopsOf(rows),
           NEW c, c = <<InboundRow(s)>> \o rows
    PROVE  GoodChain(s, path, c)
<1>1. PICK r : r = InboundRow(s)
  OBVIOUS
<1>2. r \in LedgerRow /\ r.hop = "inbound"
  BY <1>1 DEF LedgerRow, InboundRow, Token
<1>3. PICK top : top = <<r>>
  OBVIOUS
<1>4. top \in Seq(LedgerRow) /\ Len(top) = 1 /\ top[1] = r
  BY <1>2, <1>3
<1>5. rows \in Seq(LedgerRow)
  BY DEF Segment
<1>6. c = top \o rows
  BY <1>1, <1>3
<1>7. /\ c \in Seq(LedgerRow) /\ Len(c) = Len(rows) + 1 /\ Len(rows) \in Nat /\ DOMAIN c = 1..Len(c)
      /\ DOMAIN rows = 1..Len(rows) /\ c[1] = r
      /\ \A i \in 1..Len(rows) : c[i + 1] = rows[i]
      /\ \A i \in DOMAIN c \ {1} : i - 1 \in DOMAIN rows /\ c[i] = rows[i - 1]
  BY <1>4, <1>5, <1>6
<1>8. \A hop \in HopsOf(rows) : \E k \in DOMAIN c \ {1} : c[k].hop = hop
  <2> SUFFICES ASSUME NEW hop \in HopsOf(rows) PROVE \E k \in DOMAIN c \ {1} : c[k].hop = hop
    OBVIOUS
  <2>1. PICK i \in DOMAIN rows : hop = rows[i].hop
    BY DEF HopsOf
  <2>2. PICK k : k = i + 1
    OBVIOUS
  <2>3. k \in DOMAIN c \ {1} /\ c[k] = rows[i]
    BY <1>7, <2>2
  <2> QED BY <2>1, <2>3
<1>9. ASSUME NEW i \in DOMAIN c \ {1}
      PROVE  /\ RowOK(c[i]) /\ c[i].hop \in PathHops(path)
             /\ \E k \in DOMAIN c : c[k].hop = SubjectHop(c[i].hop, path)
             /\ \E k \in DOMAIN c \ {1} : c[k].hop = TopOf(path)
  <2>1. PICK j \in DOMAIN rows : c[i] = rows[j]
    BY <1>7
  <2>2. RowOK(rows[j]) /\ rows[j].hop \in HopsOf(rows)
    BY DEF Segment, HopsOf
  <2>3. PICK u : u = SubjectHop(c[i].hop, path)
    OBVIOUS
  <2>4. u \in HopsOf(rows) \cup {"inbound"}
    BY <2>1, <2>2, <2>3
  <2>5. \E k \in DOMAIN c : c[k].hop = u
    BY <1>2, <1>7, <1>8, <2>4
  <2>6. TopOf(path) \in HopsOf(rows)
    BY <2>2
  <2> QED BY <1>8, <2>1, <2>2, <2>3, <2>5, <2>6
<1>10. ASSUME NEW i \in DOMAIN c, NEW j \in DOMAIN c, i < j
       PROVE  Rank(c[i].hop) < Rank(c[j].hop)
  <2>1. PICK l : l = j - 1
    OBVIOUS
  <2>2. l \in DOMAIN rows /\ c[j] = rows[l] /\ RowOK(rows[l]) /\ 1 <= Rank(rows[l].hop)
    BY <1>7, <1>10, <2>1 DEF Segment
  <2>3. Rank(rows[l].hop) \in Nat
    BY <2>2, HopFacts DEF RowOK
  <2>4. CASE i = 1
    BY <1>2, <1>7, <2>2, <2>3, <2>4, HopFacts
  <2>5. CASE i # 1
    <3>1. PICK k : k = i - 1
      OBVIOUS
    <3>2. k \in DOMAIN rows /\ c[i] = rows[k] /\ k < l
      BY <1>7, <1>10, <2>1, <2>2, <2>5, <3>1
    <3> QED BY <2>2, <3>2 DEF Segment
  <2> QED BY <2>4, <2>5
<1>11. Len(c) \in Nat /\ DOMAIN c = 1..Len(c) /\ 1 \in DOMAIN c /\ c[1] = InboundRow(s)
  BY <1>1, <1>7
<1> QED BY <1>9, <1>10, <1>11 DEF GoodChain

\* What a branch is displayed with fits it, also from memory.
LEMMA BelowFits ==
    ASSUME TypeOK, TokensMinted, SnapshotsOK, NEW s, ShowsBranch(s),
           NEW below \in BelowAnswers(s) \cup {SnapshotRows(s)}
    PROVE  BelowOK(Branch(s), below)
<1>1. CASE below \in BelowAnswers(s)
  BY <1>1, AnswersOK
<1>2. CASE below = SnapshotRows(s)
  <2>1. CASE Snapshot(s) = {}
    <3>1. below = <<>>
      BY <1>2, <2>1 DEF SnapshotRows
    <3> QED BY <3>1, SegmentEmpty DEF BelowOK
  <2>2. CASE Snapshot(s) # {}
    <3>1. PICK e \in Snapshot(s) : below = e.rows
      BY <1>2, <2>2 DEF SnapshotRows
    <3>2. e \in snapshots /\ e.key[1] = Branch(s)
      BY <3>1 DEF Snapshot, SnapshotKey
    <3> QED BY <3>1, <3>2 DEF SnapshotsOK
  <2> QED BY <2>1, <2>2
<1> QED BY <1>1, <1>2

\* The copilot's own rows.
LEMMA OwnRows ==
    ASSUME TypeOK, TokensMinted, NEW s
    PROVE  /\ Segment(CopilotRows(s), 1, 3)
           /\ HopsOf(CopilotRows(s)) = {h \in CopilotHelpers :
                 \/ h = "copilot/llm" /\ ShowLlm(s)
                 \/ h = "copilot/mcp" /\ ShowInspect(s)
                 \/ h = "copilot/specialist" /\ ShowSpecialist(s)}
<1> DEFINE a == When(ShowLlm(s), Rows("copilot/llm"))
           b == When(ShowInspect(s), Rows("copilot/mcp"))
           c == When(ShowSpecialist(s), Rows("copilot/specialist"))
<1>1. /\ ShowLlm(s) => Filled("copilot/llm")
      /\ ShowInspect(s) => Filled("copilot/mcp")
      /\ ShowSpecialist(s) => Filled("copilot/specialist")
  BY DEF ShowLlm, ShowInspect, ShowSpecialist, Belongs
<1>2. Rank("copilot/llm") = 1 /\ Rank("copilot/mcp") = 2 /\ Rank("copilot/specialist") = 3
  BY DEF Rank
<1>3. /\ Segment(a, 1, 1) /\ (ShowLlm(s) => HopsOf(a) = {"copilot/llm"})
      /\ ~ShowLlm(s) => HopsOf(a) = {}
  BY <1>1, <1>2, RowsSegment, SegmentEmpty, HelperFacts DEF When
<1>4. /\ Segment(b, 2, 2) /\ (ShowInspect(s) => HopsOf(b) = {"copilot/mcp"})
      /\ ~ShowInspect(s) => HopsOf(b) = {}
  BY <1>1, <1>2, RowsSegment, SegmentEmpty, HelperFacts DEF When
<1>5. /\ Segment(c, 3, 3) /\ (ShowSpecialist(s) => HopsOf(c) = {"copilot/specialist"})
      /\ ~ShowSpecialist(s) => HopsOf(c) = {}
  BY <1>1, <1>2, RowsSegment, SegmentEmpty, HelperFacts DEF When
<1>6. CopilotRows(s) = (a \o b) \o c
  BY DEF CopilotRows
<1> HIDE DEF a, b, c
<1>7. Segment(a \o b, 1, 2) /\ HopsOf(a \o b) = HopsOf(a) \cup HopsOf(b)
  BY <1>3, <1>4, SegmentConcat
<1>8. Segment((a \o b) \o c, 1, 3) /\ HopsOf((a \o b) \o c) = HopsOf(a) \cup HopsOf(b) \cup HopsOf(c)
  BY <1>5, <1>7, SegmentConcat
<1> QED BY <1>3, <1>4, <1>5, <1>6, <1>8 DEF CopilotHelpers

\* Every chain displayed is one of the branch the copilot chose.
PathShown(s) == IF ShowInspect(s) THEN "read" ELSE "privileged"

LEMMA ShownIsGood ==
    ASSUME TypeOK, TokensMinted, SnapshotsOK, NEW s \in Sessions, NEW c \in ChainsShown(s)
    PROVE  GoodChain(s, PathShown(s), c)
<1> DEFINE top == CopilotRows(s)
           path == PathShown(s)
<1>1. /\ path \in {"read", "privileged"}
      /\ ShowInspect(s) => path = "read"
      /\ ~ShowInspect(s) => path = "privileged"
  BY DEF PathShown
<1>2. PICK below : /\ c = (<<InboundRow(s)>> \o top) \o When(ShowsBranch(s), below)
                   /\ ShowsBranch(s) => BelowOK(Branch(s), below)
  <2>1. CASE ShowsBranch(s)
    <3>1. PICK below \in BelowAnswers(s) \cup {SnapshotRows(s)} : c = Chain(s, below)
      BY <2>1 DEF ChainsShown
    <3> QED BY <2>1, <3>1, BelowFits DEF Chain
  <2>2. CASE ~ShowsBranch(s)
    BY <2>2 DEF ChainsShown, Chain
  <2> QED BY <2>1, <2>2
<1>3. PICK w : w = When(ShowsBranch(s), below)
  OBVIOUS
<1>4. /\ Segment(top, 1, 3)
      /\ HopsOf(top) = {h \in CopilotHelpers :
            \/ h = "copilot/llm" /\ ShowLlm(s)
            \/ h = "copilot/mcp" /\ ShowInspect(s)
            \/ h = "copilot/specialist" /\ ShowSpecialist(s)}
  BY OwnRows
<1>5. /\ ShowLlm(s) => ShowInspect(s)
      /\ ShowSpecialist(s) => ~ShowInspect(s)
      /\ ShowsBranch(s) <=> ShowInspect(s) \/ ShowSpecialist(s)
  BY DEF ShowLlm, ShowSpecialist, ShowsBranch
<1>6. /\ Segment(w, 4, 10)
      /\ ~ShowsBranch(s) => HopsOf(w) = {}
      /\ ShowInspect(s) => HopsOf(w) \subseteq {"gateway/mcp-inspect", "mcp-inspect"}
                           /\ (HopsOf(w) = {} \/ "gateway/mcp-inspect" \in HopsOf(w))
      /\ ShowSpecialist(s) =>
            \A hop \in HopsOf(w) : SubjectHop(hop, "privileged") \in HopsOf(w) \cup {"copilot/specialist"}
  <2>1. CASE ~ShowsBranch(s)
    <3>1. w = <<>>
      BY <1>3, <2>1 DEF When
    <3> QED BY <1>5, <2>1, <3>1, SegmentEmpty
  <2>2. CASE ShowInspect(s)
    <3>1. w = below /\ Branch(s) = "copilot/mcp"
      BY <1>3, <1>5, <2>2 DEF When, Branch
    <3>2. Segment(w, 6, 7) /\ (w = <<>> \/ HopsOf(w) = {"gateway/mcp-inspect", "mcp-inspect"})
      BY <1>2, <1>5, <2>2, <3>1 DEF BelowOK
    <3>3. Segment(w, 4, 10)
      BY <3>2, SegmentWider
    <3> QED BY <1>5, <2>2, <3>2, <3>3, SegmentEmpty
  <2>3. CASE ShowSpecialist(s)
    <3>1. w = below /\ Branch(s) = "copilot/specialist"
      BY <1>3, <1>5, <2>3 DEF When, Branch
    <3>2. /\ Segment(w, 4, 10)
          /\ \A hop \in HopsOf(w) : SubjectHop(hop, "privileged") \in HopsOf(w) \cup {"copilot/specialist"}
      BY <1>2, <1>5, <2>3, <3>1 DEF BelowOK
    <3> QED BY <1>5, <2>3, <3>2
  <2> QED BY <1>5, <2>1, <2>2, <2>3
<1> HIDE DEF top, path
<1>7. PICK rows : rows = top \o w
  OBVIOUS
<1>8. Segment(rows, 1, 10) /\ HopsOf(rows) = HopsOf(top) \cup HopsOf(w)
  BY <1>4, <1>6, <1>7, SegmentConcat
<1>9. c = <<InboundRow(s)>> \o rows
  <2>1. PICK r : r = InboundRow(s)
    OBVIOUS
  <2>2. r \in LedgerRow
    BY <2>1 DEF LedgerRow, InboundRow, Token
  <2>3. PICK one : one = <<r>>
    OBVIOUS
  <2>4. one \in Seq(LedgerRow)
    BY <2>2, <2>3
  <2>5. top \in Seq(LedgerRow) /\ w \in Seq(LedgerRow)
    BY <1>4, <1>6 DEF Segment
  <2>6. (one \o top) \o w = one \o (top \o w)
    BY <2>4, <2>5, ConcatAssociative
  <2> QED BY <1>2, <1>3, <1>7, <2>1, <2>3, <2>6
<1>10. /\ HopsOf(rows) \subseteq PathHops(path)
       /\ \A hop \in HopsOf(rows) : SubjectHop(hop, path) \in HopsOf(rows) \cup {"inbound"}
       /\ HopsOf(rows) = {} \/ TopOf(path) \in HopsOf(rows)
  <2>1. CASE ShowInspect(s)
    <3>1. HopsOf(top) \subseteq {"copilot/llm", "copilot/mcp"} /\ "copilot/mcp" \in HopsOf(top)
      BY <1>4, <1>5, <2>1 DEF CopilotHelpers
    <3>2. path = "read"
      BY <1>1, <2>1
    <3>3. \A hop \in HopsOf(top) : SubjectHop(hop, path) = "inbound"
      BY <3>1, SubjectFacts DEF CopilotHelpers
    <3>4. \A hop \in HopsOf(w) : SubjectHop(hop, path) \in HopsOf(rows)
      BY <1>6, <1>8, <2>1, <3>1, <3>2, SubjectFacts
    <3> QED BY <1>6, <1>8, <2>1, <3>1, <3>2, <3>3, <3>4 DEF PathHops, TopOf
  <2>2. CASE ShowSpecialist(s)
    <3>1. HopsOf(top) = {"copilot/specialist"}
      BY <1>4, <1>5, <2>2 DEF CopilotHelpers
    <3>2. path = "privileged"
      BY <1>1, <1>5, <2>2
    <3>3. \A hop \in HopsOf(top) : SubjectHop(hop, path) = "inbound"
      BY <3>1, SubjectFacts DEF CopilotHelpers
    <3>4. \A hop \in HopsOf(w) : SubjectHop(hop, path) \in HopsOf(rows)
      BY <1>6, <1>8, <2>2, <3>1, <3>2
    <3>5. \A hop \in HopsOf(w) : hop \in AllHops /\ hop \notin {"copilot/llm", "copilot/mcp"}
      <4>1. \A hop \in HopsOf(w) : hop \in AllHops /\ 4 <= Rank(hop)
        BY <1>6 DEF Segment, HopsOf, RowOK
      <4>2. Rank("copilot/llm") = 1 /\ Rank("copilot/mcp") = 2
        BY DEF Rank
      <4> QED BY <4>1, <4>2
    <3>6. "copilot/specialist" \in PathHops(path)
      BY <3>2, HopFacts DEF PathHops
    <3>7. HopsOf(w) \subseteq PathHops(path)
      BY <3>2, <3>5 DEF PathHops
    <3> QED BY <1>8, <3>1, <3>2, <3>3, <3>4, <3>6, <3>7 DEF TopOf
  <2>3. CASE ~ShowsBranch(s)
    <3>1. HopsOf(rows) = {}
      BY <1>4, <1>5, <1>6, <1>8, <2>3
    <3> QED BY <3>1
  <2> QED BY <1>5, <2>1, <2>2, <2>3
<1>11. GoodChain(s, path, c)
  BY <1>1, <1>8, <1>9, <1>10, ChainIsGood
<1> QED BY <1>11 DEF path

\* In a chain of one question all tokens are of the path the branch stands for.
LEMMA OnePath ==
    ASSUME TypeOK, NEW s \in Sessions, NEW path \in {"read", "privileged"}, NEW c, GoodChain(s, path, c),
           NEW f \in DOMAIN flows, \A i \in DOMAIN c \ {1} : c[i].tok = Token(s, f),
           NEW i \in DOMAIN c \ {1}
    PROVE  PathOf(Token(s, f)) = path
<1>1. PICK k \in DOMAIN c \ {1} : c[k].hop = TopOf(path)
  BY DEF GoodChain
<1>2. RowOK(c[k]) /\ c[k].tok = Token(s, f)
  BY DEF GoodChain
<1>3. f # 0
  BY DEF TypeOK
<1>4. c[k].tok.by = f
  BY <1>2 DEF Token
<1>5. CASE path = "read"
  BY <1>1, <1>2, <1>5, RowPath DEF TopOf
<1>6. CASE path = "privileged"
  BY <1>1, <1>2, <1>3, <1>4, <1>6, RowPath DEF TopOf
<1> QED BY <1>5, <1>6

(* The delegation ledger of the page tells the truth: it places no token under a leaf,
   whatever the chain, and in every chain of one question, cut short or not, live or
   from memory, it places each token under the one it was exchanged from, with no
   warning (findParentIndex and diffAgainst, over the rows of the last-token routes). *)
THEOREM LedgerIsFaithful == Spec => []LedgerFaithful
<1>1. IndInv /\ LedgerInv => LedgerFaithful
  <2> SUFFICES ASSUME IndInv, LedgerInv, NEW s \in Sessions, NEW chain \in ChainsShown(s),
                      NEW i \in DOMAIN chain \ {1}
               PROVE  /\ FindParentIndex(chain, i) # NoParent => ~chain[FindParentIndex(chain, i)].leaf
                      /\ (\E f \in DOMAIN flows : \A j \in DOMAIN chain \ {1} : chain[j].tok = Token(s, f))
                            => RowIsTrue(chain, i, FindParentIndex(chain, i))
    BY DEF LedgerFaithful
  <2>1. TypeOK /\ TokensMinted /\ SnapshotsOK
    BY DEF IndInv, LedgerInv
  <2>2. PICK path \in {"read", "privileged"} : GoodChain(s, path, chain)
    BY <2>1, ShownIsGood DEF PathShown
  <2>3. FindParentIndex(chain, i) # NoParent => ~chain[FindParentIndex(chain, i)].leaf
    BY <2>1, <2>2, ParentOnSpine
  <2>4. ASSUME NEW f \in DOMAIN flows, \A j \in DOMAIN chain \ {1} : chain[j].tok = Token(s, f)
        PROVE  RowIsTrue(chain, i, FindParentIndex(chain, i))
    <3>1. PathOf(Token(s, f)) = path
      BY <2>1, <2>2, <2>4, OnePath
    <3> QED BY <2>1, <2>2, <2>4, <3>1, RowTrue
  <2> QED BY <2>3, <2>4
<1> QED BY <1>1, Invariance, LedgerInvariance, PTL

-----------------------------------------------------------------------------
\* The rows of a question's hops.
LEMMA RowsFacts ==
    ASSUME NEW f
    PROVE  \E R, S : /\ \A h \in AllHops : R[h] = Row(h, Token(flows[f].session, f)) /\ R[h] \in S
                     /\ \A hops \in Seq(AllHops) :
                           /\ RowsOf(f, hops) \in Seq(S) /\ Len(RowsOf(f, hops)) = Len(hops)
                           /\ \A i \in 1..Len(hops) : RowsOf(f, hops)[i] = R[hops[i]]
<1>1. PICK R : R = [h \in AllHops |-> Row(h, Token(flows[f].session, f))]
  OBVIOUS
<1>2. PICK S : S = {R[h] : h \in AllHops}
  OBVIOUS
<1>3. \A h \in AllHops : R[h] = Row(h, Token(flows[f].session, f)) /\ R[h] \in S
  BY <1>1, <1>2
<1>4. ASSUME NEW hops \in Seq(AllHops)
      PROVE  /\ RowsOf(f, hops) \in Seq(S) /\ Len(RowsOf(f, hops)) = Len(hops)
             /\ \A i \in 1..Len(hops) : RowsOf(f, hops)[i] = R[hops[i]]
  <2>1. RowsOf(f, hops) = [i \in 1..Len(hops) |-> R[hops[i]]]
    BY <1>3 DEF RowsOf
  <2>2. \A i \in 1..Len(hops) : R[hops[i]] \in S
    BY <1>3
  <2> QED BY <2>1, <2>2
<1> QED BY <1>3, <1>4

LEMMA RowsConcat ==
    ASSUME NEW f, NEW p \in Seq(AllHops), NEW q \in Seq(AllHops)
    PROVE  RowsOf(f, p \o q) = RowsOf(f, p) \o RowsOf(f, q)
<1>1. PICK R, S : /\ \A h \in AllHops : R[h] = Row(h, Token(flows[f].session, f)) /\ R[h] \in S
                  /\ \A hops \in Seq(AllHops) :
                        /\ RowsOf(f, hops) \in Seq(S) /\ Len(RowsOf(f, hops)) = Len(hops)
                        /\ \A i \in 1..Len(hops) : RowsOf(f, hops)[i] = R[hops[i]]
  BY RowsFacts, Zenon
<1>2. PICK x, y, w : x = RowsOf(f, p) /\ y = RowsOf(f, q) /\ w = RowsOf(f, p \o q)
  OBVIOUS
<1>3. /\ p \o q \in Seq(AllHops) /\ Len(p \o q) = Len(p) + Len(q)
      /\ \A i \in 1..(Len(p) + Len(q)) : (p \o q)[i] = IF i <= Len(p) THEN p[i] ELSE q[i - Len(p)]
  BY ConcatProperties
<1>4. /\ x \in Seq(S) /\ y \in Seq(S) /\ w \in Seq(S)
      /\ Len(x) = Len(p) /\ Len(y) = Len(q) /\ Len(w) = Len(p) + Len(q)
      /\ \A i \in 1..Len(p) : x[i] = R[p[i]]
      /\ \A i \in 1..Len(q) : y[i] = R[q[i]]
  BY <1>1, <1>2, <1>3
<1>5. /\ x \o y \in Seq(S) /\ Len(x \o y) = Len(x) + Len(y)
      /\ \A i \in 1..(Len(x) + Len(y)) : (x \o y)[i] = IF i <= Len(x) THEN x[i] ELSE y[i - Len(x)]
  <2>1. x \in Seq(S) /\ y \in Seq(S)
    BY <1>4
  <2> QED BY <2>1, ConcatProperties, Zenon
<1>6. ASSUME NEW i \in 1..Len(w) PROVE w[i] = (x \o y)[i]
  <2>1. w[i] = R[(p \o q)[i]]
    BY <1>1, <1>2, <1>3, <1>4
  <2>2. CASE i <= Len(p)
    BY <1>3, <1>4, <1>5, <2>1, <2>2
  <2>3. CASE ~(i <= Len(p))
    <3>1. i - Len(p) \in 1..Len(q) /\ i \in 1..(Len(p) + Len(q))
      BY <1>4, <2>3
    <3> QED BY <1>3, <1>4, <1>5, <2>1, <2>3, <3>1
  <2> QED BY <2>2, <2>3
<1>7. w = x \o y
  BY <1>4, <1>5, <1>6, SeqEqual
<1> QED BY <1>2, <1>7

LEMMA RowsOfTuples ==
    ASSUME NEW f, NEW h \in AllHops, NEW k \in AllHops, NEW o, o = Token(flows[f].session, f)
    PROVE  /\ RowsOf(f, <<>>) = <<>> /\ RowsOf(f, <<h>>) = <<Row(h, o)>>
           /\ RowsOf(f, <<h, k>>) = <<Row(h, o), Row(k, o)>>
<1>1. PICK R, S : /\ \A g \in AllHops : R[g] = Row(g, Token(flows[f].session, f)) /\ R[g] \in S
                  /\ \A hops \in Seq(AllHops) :
                        /\ RowsOf(f, hops) \in Seq(S) /\ Len(RowsOf(f, hops)) = Len(hops)
                        /\ \A i \in 1..Len(hops) : RowsOf(f, hops)[i] = R[hops[i]]
  BY RowsFacts, Zenon
<1>2. <<>> \in Seq(AllHops) /\ <<h>> \in Seq(AllHops) /\ <<h, k>> \in Seq(AllHops)
  OBVIOUS
<1>3. PICK x, y, w : x = RowsOf(f, <<>>) /\ y = RowsOf(f, <<h>>) /\ w = RowsOf(f, <<h, k>>)
  OBVIOUS
<1>4. PICK a, b : a = Row(h, o) /\ b = Row(k, o) /\ a \in S /\ b \in S
  BY <1>1
<1>0. /\ Len(<<>>) = 0 /\ Len(<<h>>) = 1 /\ Len(<<h, k>>) = 2
      /\ <<h>>[1] = h /\ <<h, k>>[1] = h /\ <<h, k>>[2] = k
      /\ 1 \in 1..1 /\ 1 \in 1..2 /\ 2 \in 1..2
  OBVIOUS
<1>5. /\ x \in Seq(S) /\ Len(x) = 0 /\ y \in Seq(S) /\ Len(y) = 1 /\ y[1] = a
      /\ w \in Seq(S) /\ Len(w) = 2 /\ w[1] = a /\ w[2] = b
  <2>1. R[h] = a /\ R[k] = b
    BY <1>1, <1>4
  <2>2. x \in Seq(S) /\ Len(x) = 0
    BY <1>0, <1>1, <1>2, <1>3, Zenon
  <2>3. y \in Seq(S) /\ Len(y) = 1 /\ w \in Seq(S) /\ Len(w) = 2
    BY <1>0, <1>1, <1>2, <1>3, Zenon
  <2>4. y[1] = R[h]
    <3>1. y[1] = R[<<h>>[1]]
      BY <1>0, <1>1, <1>2, <1>3
    <3> QED BY <1>0, <3>1
  <2>5. w[1] = R[h] /\ w[2] = R[k]
    <3>1. w[1] = R[<<h, k>>[1]] /\ w[2] = R[<<h, k>>[2]]
      BY <1>0, <1>1, <1>2, <1>3
    <3> QED BY <1>0, <3>1
  <2> QED BY <2>1, <2>2, <2>3, <2>4, <2>5
<1>6. x = <<>>
  BY <1>5
<1>7. <<a>> \in Seq(S) /\ Len(<<a>>) = 1 /\ <<a>>[1] = a
      /\ <<a, b>> \in Seq(S) /\ Len(<<a, b>>) = 2 /\ <<a, b>>[1] = a /\ <<a, b>>[2] = b
  BY <1>4
<1>8. y = <<a>> /\ w = <<a, b>>
  BY <1>5, <1>7, SameTuples
<1> QED BY <1>3, <1>4, <1>6, <1>8

\* The order of the hops, however the rows are put together.
LEMMA SixTuple ==
    \A a, b, c, d, e, g : (<<a>> \o <<b, c>>) \o (<<d>> \o <<e, g>>) = <<a, b, c, d, e, g>>
<1> SUFFICES ASSUME NEW a, NEW b, NEW c, NEW d, NEW e, NEW g
             PROVE  (<<a>> \o <<b, c>>) \o (<<d>> \o <<e, g>>) = <<a, b, c, d, e, g>>
  OBVIOUS
<1>1. PICK S : a \in S /\ b \in S /\ c \in S /\ d \in S /\ e \in S /\ g \in S
  <2>1. \E S : S = {a, b, c, d, e, g}
    OBVIOUS
  <2> QED BY <2>1
<1>2. PICK p, q, w : p = <<a, b, c>> /\ q = <<d, e, g>> /\ w = <<a, b, c, d, e, g>>
  OBVIOUS
<1>3. <<a>> \o <<b, c>> = p /\ <<d>> \o <<e, g>> = q
  BY <1>2, AppendTuples
<1>4. /\ p \in Seq(S) /\ Len(p) = 3 /\ p[1] = a /\ p[2] = b /\ p[3] = c
      /\ q \in Seq(S) /\ Len(q) = 3 /\ q[1] = d /\ q[2] = e /\ q[3] = g
  BY <1>1, <1>2
<1>5. /\ w \in Seq(S) /\ Len(w) = 6 /\ w[1] = a /\ w[2] = b /\ w[3] = c
      /\ w[4] = d /\ w[5] = e /\ w[6] = g
  BY <1>1, <1>2
<1>6. /\ p \o q \in Seq(S) /\ Len(p \o q) = 6
      /\ \A i \in 1..6 : (p \o q)[i] = IF i <= 3 THEN p[i] ELSE q[i - 3]
  <2>1. p \in Seq(S) /\ q \in Seq(S)
    BY <1>4
  <2>2. /\ p \o q \in Seq(S) /\ Len(p \o q) = Len(p) + Len(q)
        /\ \A i \in 1..(Len(p) + Len(q)) : (p \o q)[i] = IF i <= Len(p) THEN p[i] ELSE q[i - Len(p)]
    BY <2>1, ConcatProperties, Zenon
  <2> QED BY <1>4, <2>2
<1>7. ASSUME NEW i \in 1..Len(w) PROVE w[i] = (p \o q)[i]
  <2>1. i \in 1..6 /\ (i = 1 \/ i = 2 \/ i = 3 \/ i = 4 \/ i = 5 \/ i = 6)
    BY <1>5
  <2>2. 4 - 3 = 1 /\ 5 - 3 = 2 /\ 6 - 3 = 3
    OBVIOUS
  <2> QED BY <1>4, <1>5, <1>6, <2>1, <2>2
<1>8. w = p \o q
  BY <1>5, <1>6, <1>7, SeqEqual
<1> QED BY <1>2, <1>3, <1>8

Joins(t, p, q) == t = p \o q

LEMMA Associates ==
    ASSUME NEW S, NEW a \in Seq(S), NEW b \in Seq(S), NEW c \in Seq(S),
           NEW l, NEW r, Joins(l, a, b), Joins(r, b, c)
    PROVE  /\ l \in Seq(S) /\ r \in Seq(S)
           /\ \A t : Joins(t, l, c) <=> Joins(t, a, r)
<1>1. l \in Seq(S) /\ r \in Seq(S)
  BY DEF Joins
<1>2. (a \o b) \o c = a \o (b \o c)
  BY ONLY a \in Seq(S), b \in Seq(S), c \in Seq(S), ConcatAssociative
<1>3. l \o c = a \o r
  BY <1>2 DEF Joins
<1> QED BY <1>1, <1>3 DEF Joins

LEMMA HopsJoined ==
    ASSUME NEW leaf \in Seq(AllHops)
    PROVE  /\ ((leaf \o <<"copilot/mcp">>) \o <<>>) \o <<"gateway/mcp-inspect", "mcp-inspect">>
                 = WholeHops("read", leaf)
           /\ ((<<>> \o <<>>) \o <<"copilot/specialist">>)
                 \o ((leaf \o (<<"specialist/inspect">> \o <<"gateway/mcp-inspect", "mcp-inspect">>))
                        \o (<<"specialist/ops">> \o <<"gateway/mcp-ops", "mcp-ops">>))
                 = WholeHops("privileged", leaf)
<1>1. PICK H : H = AllHops
  OBVIOUS
<1>2. PICK z, m, g : z = <<>> /\ m = <<"copilot/mcp">> /\ g = <<"gateway/mcp-inspect", "mcp-inspect">>
  OBVIOUS
<1>3. PICK n, p, q : /\ n = <<"copilot/specialist">>
                     /\ p = <<"specialist/inspect">> \o <<"gateway/mcp-inspect", "mcp-inspect">>
                     /\ q = <<"specialist/ops">> \o <<"gateway/mcp-ops", "mcp-ops">>
  OBVIOUS
<1>4. /\ p = <<"specialist/inspect", "gateway/mcp-inspect", "mcp-inspect">>
      /\ q = <<"specialist/ops", "gateway/mcp-ops", "mcp-ops">>
      /\ m \o g = ReadHops /\ p \o q = PrivilegedHops
  BY <1>2, <1>3, AppendTuples, SixTuple DEF ReadHops, PrivilegedHops
<1>5. leaf \in Seq(H) /\ z \in Seq(H) /\ m \in Seq(H) /\ g \in Seq(H) /\ n \in Seq(H)
      /\ p \in Seq(H) /\ q \in Seq(H)
  BY <1>1, <1>2, <1>3, <1>4, HopFacts
<1>6. ((leaf \o m) \o z) \o g = leaf \o (m \o g)
  <2>1. PICK l, r, t : Joins(l, leaf, m) /\ Joins(r, m, g) /\ Joins(t, l, g)
    BY DEF Joins
  <2>2. l \in Seq(H) /\ Joins(t, leaf, r)
    BY ONLY <1>5, <2>1, Associates
  <2>3. l \o z = l
    BY <1>2, <2>2, ConcatEmptySeq, Zenon
  <2> QED BY ONLY <2>1, <2>2, <2>3 DEF Joins
<1>7. ((z \o z) \o n) \o ((leaf \o p) \o q) = (n \o leaf) \o (p \o q)
  <2>1. PICK l, r, t : Joins(l, leaf, p) /\ Joins(r, p, q) /\ Joins(t, l, q)
    BY DEF Joins
  <2>2. r \in Seq(H) /\ Joins(t, leaf, r)
    BY ONLY <1>5, <2>1, Associates
  <2>3. PICK k, u : Joins(k, n, leaf) /\ Joins(u, k, r)
    BY DEF Joins
  <2>4. Joins(u, n, t)
    BY ONLY <1>5, <2>2, <2>3, Associates
  <2>5. z \o z = z /\ z \o n = n
    BY <1>2, <1>5, ConcatEmptySeq, Zenon
  <2> QED BY ONLY <2>1, <2>3, <2>4, <2>5 DEF Joins
<1> QED BY <1>2, <1>3, <1>4, <1>6, <1>7 DEF WholeHops

\* The slots of a question that used every server, undisturbed.
Whole(f, s, path) ==
    /\ f \in DOMAIN flows /\ s = flows[f].session /\ path = flows[f].path
    /\ UsedAll(f) /\ Undisturbed(f)

LEMMA WholeSlots ==
    ASSUME IndInv, LedgerInv, ~caching, NEW f, NEW s, NEW path, Whole(f, s, path)
    PROVE  /\ s \in Sessions /\ path \in {"read", "privileged"} /\ f \in Nat /\ f # 0
           /\ \A h \in OnPath(path) : /\ h \in Helpers /\ Belongs(h, s) /\ By(h) = f
                                      /\ Origin(slots[h].tok) = Token(s, f)
           /\ \A h \in Helpers \ OnPath(path) : Filled(h) => By(h) \in flows[f].after
           /\ \A h \in Helpers : Filled(h) => slots[h].at \in Nat
<1>1. TypeOK /\ SlotsOwn /\ TokensMinted
  BY DEF IndInv, LedgerInv
<1>2. f \in DOMAIN flows /\ s = flows[f].session /\ path = flows[f].path /\ UsedAll(f) /\ Undisturbed(f)
  BY DEF Whole
<1>3. PICK o \in Flow : o = flows[f]
  BY <1>1, <1>2 DEF TypeOK
<1>4. s \in Sessions /\ path \in {"read", "privileged"} /\ f \in Nat /\ f # 0
  BY <1>1, <1>2, <1>3 DEF Flow, TypeOK
<1>5. ASSUME NEW h \in OnPath(path)
      PROVE  /\ h \in Helpers /\ Belongs(h, s) /\ By(h) = f
             /\ Origin(slots[h].tok) = Token(s, f)
  <2>1. h \in Helpers /\ Filled(h) /\ By(h) = f
    BY <1>2, <1>4, <1>5, HelperFacts DEF UsedAll, OnPath, By
  <2>2. /\ slots[h].tok.root = slots[h].jti /\ slots[h].jti = s
        /\ slots[h].sub = userOf[slots[h].jti] /\ slots[h].tok.by = f
    BY <1>1, <1>2, <2>1 DEF SlotsOwn, SlotOwn, By
  <2>3. Origin(slots[h].tok) = Token(s, f)
    BY <2>2 DEF Origin, Token
  <2> QED BY <2>1, <2>2, <2>3 DEF Belongs
<1>6. ASSUME NEW h \in Helpers \ OnPath(path), Filled(h) PROVE By(h) \in flows[f].after
  <2>1. MintedFor(h, slots[h].tok) /\ By(h) \in {f} \cup flows[f].after
    BY <1>1, <1>2, <1>6 DEF TokensMinted, Undisturbed, By
  <2>2. By(h) # f
    BY <1>2, <1>4, <1>6, <2>1 DEF MintedFor, By
  <2> QED BY <2>1, <2>2
<1>7. \A h \in Helpers : Filled(h) => slots[h].at \in Nat
  BY <1>1, FilledSlot
<1> QED BY <1>4, <1>5, <1>6, <1>7

\* The branch of such a question is the one displayed, and only a token that was
\* acquired again hides its leaf.
LEMMA WholeBranch ==
    ASSUME IndInv, LedgerInv, ~caching, NEW f, NEW s, NEW path, Whole(f, s, path)
    PROVE  IF path = "read" THEN ShowInspect(s) /\ (ShowLlm(s) \/ StampedAgain(path))
           ELSE /\ ~ShowInspect(s) /\ ShowSpecialist(s)
                /\ ShowSpecialistLlm \/ StampedAgain(path)
<1>1. /\ path \in {"read", "privileged"}
      /\ \A h \in OnPath(path) : h \in Helpers /\ Belongs(h, s) /\ Filled(h) /\ By(h) = f
      /\ \A h \in Helpers \ OnPath(path) : Filled(h) => By(h) \in flows[f].after
      /\ \A h \in Helpers : Filled(h) => slots[h].at \in Nat
  BY WholeSlots DEF Belongs
<1>2. Earlier /\ LeavesAfter
  BY DEF IndInv, Uncached
<1>3. "copilot/mcp" \in Compared /\ "copilot/specialist" \in Compared /\ Compared \subseteq Helpers
  BY HelperFacts DEF Compared
<1>4. CASE path = "read"
  <2>1. /\ "copilot/mcp" \in OnPath(path) /\ "copilot/llm" \in OnPath(path)
        /\ "copilot/specialist" \notin OnPath(path)
    BY <1>4, StepFacts
  <2>2. ASSUME Belongs("copilot/specialist", s)
        PROVE  slots["copilot/mcp"].at >= slots["copilot/specialist"].at
    <3>1. Filled("copilot/specialist") /\ By("copilot/specialist") \in flows[f].after
      BY <1>1, <1>3, <2>1, <2>2 DEF Belongs
    <3>2. slots["copilot/specialist"].at < slots["copilot/mcp"].at
      BY <1>1, <1>2, <1>3, <2>1, <3>1 DEF Earlier
    <3> QED BY <1>1, <1>3, <2>1, <3>1, <3>2
  <2>3. ShowInspect(s)
    BY <1>1, <2>1, <2>2 DEF ShowInspect
  <2>4. ASSUME ~StampedAgain(path) PROVE ShowLlm(s)
    <3>1. slots["copilot/mcp"].tok.nth = 0
      BY <1>4, <2>4 DEF StampedAgain
    <3>2. slots["copilot/mcp"].at <= slots["copilot/llm"].at
      BY <1>1, <1>2, <2>1, <3>1 DEF LeavesAfter, LeafAfter
    <3>3. slots["copilot/llm"].at >= slots["copilot/mcp"].at
      BY <1>1, <2>1, <3>2
    <3> QED BY <1>1, <2>1, <2>3, <3>3 DEF ShowLlm
  <2> QED BY <1>4, <2>3, <2>4
<1>5. CASE path = "privileged"
  <2>1. /\ "copilot/specialist" \in OnPath(path) /\ "specialist/ops" \in OnPath(path)
        /\ "specialist/llm" \in OnPath(path) /\ "copilot/mcp" \notin OnPath(path)
    BY <1>5, StepFacts
  <2>2. ~ShowInspect(s)
    <3> SUFFICES ASSUME ShowInspect(s) PROVE FALSE
      OBVIOUS
    <3>1. Filled("copilot/mcp") /\ slots["copilot/mcp"].at >= slots["copilot/specialist"].at
      BY <1>1, <2>1 DEF ShowInspect, Belongs
    <3>2. By("copilot/mcp") \in flows[f].after
      BY <1>1, <1>3, <2>1, <3>1
    <3>3. slots["copilot/mcp"].at < slots["copilot/specialist"].at
      BY <1>1, <1>2, <1>3, <2>1, <3>1, <3>2 DEF Earlier
    <3> QED BY <1>1, <1>3, <2>1, <3>1, <3>3
  <2>3. ShowSpecialist(s)
    BY <1>1, <2>1, <2>2 DEF ShowSpecialist
  <2>4. ASSUME ~StampedAgain(path) PROVE ShowSpecialistLlm
    <3>1. slots["specialist/ops"].tok.nth = 0
      BY <1>5, <2>4 DEF StampedAgain
    <3>2. slots["specialist/ops"].at <= slots["specialist/llm"].at
      BY <1>1, <1>2, <2>1, <3>1 DEF LeavesAfter, LeafAfter
    <3>3. slots["specialist/llm"].at >= slots["specialist/ops"].at
      BY <1>1, <2>1, <3>2
    <3> QED BY <1>1, <2>1, <3>3 DEF ShowSpecialistLlm
  <2> QED BY <1>5, <2>2, <2>3, <2>4
<1> QED BY <1>1, <1>4, <1>5

\* Its chain: the inbound token and the hops of the question.
LEMMA WholeRows ==
    ASSUME IndInv, LedgerInv, ~caching, NEW f, NEW s, NEW path, Whole(f, s, path)
    PROVE  \E leaf \in Seq(AllHops) :
              /\ leaf = LeafOf(path) \/ (leaf = <<>> /\ StampedAgain(path))
              /\ (CopilotRows(s) \o BelowRows(s)) = RowsOf(f, WholeHops(path, leaf))
<1>1. PICK o : o = Token(flows[f].session, f)
  OBVIOUS
<1>2. /\ path \in {"read", "privileged"}
      /\ \A h \in OnPath(path) : h \in Helpers /\ Filled(h) /\ Origin(slots[h].tok) = o /\ By(h) = f
  <2>1. flows[f].session = s
    BY DEF Whole
  <2> QED BY <1>1, <2>1, WholeSlots DEF Belongs
<1>3. \A h \in OnPath(path) : \A hop : Row(hop, slots[h].tok) = Row(hop, o)
  <2> SUFFICES ASSUME NEW h \in OnPath(path), NEW hop PROVE Row(hop, slots[h].tok) = Row(hop, o)
    OBVIOUS
  <2>1. Origin(slots[h].tok) = o /\ Origin(o) = o /\ slots[h].tok.by = f /\ o.by = f
    BY <1>1, <1>2 DEF Origin, Token, By
  <2>2. PathOf(slots[h].tok) = PathOf(o)
    BY <2>1 DEF PathOf
  <2> QED BY <2>1, <2>2 DEF Row
<1>4. /\ \A h \in OnPath(path) : Rows(h) = <<Row(h, o)>>
      /\ \A h \in OnPath(path) : McpRows(h) = <<Row(GatewayHop(h), o), Row(h, o)>>
  BY <1>2, <1>3 DEF Rows, McpRows
<1>5. \A h, k \in AllHops : /\ RowsOf(f, <<>>) = <<>> /\ RowsOf(f, <<h>>) = <<Row(h, o)>>
                            /\ RowsOf(f, <<h, k>>) = <<Row(h, o), Row(k, o)>>
  BY <1>1, RowsOfTuples
<1>6. GatewayHop("mcp-inspect") = "gateway/mcp-inspect" /\ GatewayHop("mcp-ops") = "gateway/mcp-ops"
  BY DEF GatewayHop
<1>7. PICK A : A = AllHops
  OBVIOUS
<1>8. \A p, q \in Seq(A) : p \o q \in Seq(A) /\ RowsOf(f, p) \o RowsOf(f, q) = RowsOf(f, p \o q)
  BY <1>7, RowsConcat
<1>0. PICK z : z = <<>>
  OBVIOUS
<1>9. z = <<>> /\ z \in Seq(A)
  BY <1>0
<1>10. CASE path = "read"
  <2>1. /\ ShowInspect(s) /\ ~ShowSpecialist(s) /\ (ShowLlm(s) \/ StampedAgain(path))
        /\ \A h \in {"copilot/mcp", "copilot/llm", "mcp-inspect"} : h \in OnPath(path)
    BY <1>10, WholeBranch, StepFacts DEF ShowSpecialist
  <2>2. PICK leaf : leaf = IF ShowLlm(s) THEN <<"copilot/llm">> ELSE z
    OBVIOUS
  <2>3. PICK m, g : m = <<"copilot/mcp">> /\ g = <<"gateway/mcp-inspect", "mcp-inspect">>
    OBVIOUS
  <2>4. leaf \in Seq(A) /\ m \in Seq(A) /\ g \in Seq(A)
    BY <1>7, <1>9, <2>2, <2>3, HopFacts
  <2>5. When(ShowLlm(s), Rows("copilot/llm")) = RowsOf(f, leaf)
    BY <1>4, <1>5, <1>9, <2>1, <2>2, HopFacts DEF When
  <2>6. When(ShowInspect(s), Rows("copilot/mcp")) = RowsOf(f, m)
    BY <1>4, <1>5, <2>1, <2>3, HopFacts DEF When
  <2>7. When(ShowSpecialist(s), Rows("copilot/specialist")) = RowsOf(f, z)
    BY <1>5, <1>9, <2>1, HopFacts DEF When
  <2>8. BelowRows(s) = RowsOf(f, g)
    BY <1>4, <1>5, <1>6, <2>1, <2>3, HopFacts DEF BelowRows
  <2>9. CopilotRows(s) = (RowsOf(f, leaf) \o RowsOf(f, m)) \o RowsOf(f, z)
    BY <2>5, <2>6, <2>7 DEF CopilotRows
  <2>10. CopilotRows(s) = RowsOf(f, (leaf \o m) \o z) /\ (leaf \o m) \o z \in Seq(A)
    <3>1. leaf \o m \in Seq(A) /\ RowsOf(f, leaf) \o RowsOf(f, m) = RowsOf(f, leaf \o m)
      BY ONLY <1>8, <2>4, Zenon
    <3>2. (leaf \o m) \o z \in Seq(A) /\ RowsOf(f, leaf \o m) \o RowsOf(f, z) = RowsOf(f, (leaf \o m) \o z)
      BY ONLY <1>8, <1>9, <3>1, Zenon
    <3> QED BY ONLY <2>9, <3>1, <3>2, Zenon
  <2>11. CopilotRows(s) \o BelowRows(s) = RowsOf(f, ((leaf \o m) \o z) \o g)
    BY ONLY <1>8, <2>4, <2>8, <2>10, Zenon
  <2>12. ((leaf \o m) \o z) \o g = WholeHops("read", leaf)
    BY <1>7, <1>9, <2>3, <2>4, HopsJoined, Zenon
  <2>13. leaf = LeafOf(path) \/ (leaf = <<>> /\ StampedAgain(path))
    BY <1>9, <1>10, <2>1, <2>2 DEF LeafOf
  <2> QED BY <1>7, <1>10, <2>4, <2>11, <2>12, <2>13, Zenon
<1>11. CASE path = "privileged"
  <2>1. /\ ~ShowInspect(s) /\ ~ShowLlm(s) /\ ShowSpecialist(s)
        /\ ShowSpecialistLlm \/ StampedAgain(path)
        /\ \A h \in {"copilot/specialist", "specialist/ops", "specialist/inspect", "specialist/llm",
                     "mcp-inspect", "mcp-ops"} : h \in OnPath(path)
    BY <1>11, WholeBranch, StepFacts DEF ShowLlm
  <2>2. PICK leaf : leaf = IF ShowSpecialistLlm THEN <<"specialist/llm">> ELSE z
    OBVIOUS
  <2>3. PICK n, c, d : n = <<"copilot/specialist">> /\ c = <<"specialist/inspect">>
                       /\ d = <<"gateway/mcp-inspect", "mcp-inspect">>
    OBVIOUS
  <2>4. PICK g, e : g = <<"specialist/ops">> /\ e = <<"gateway/mcp-ops", "mcp-ops">>
    OBVIOUS
  <2>5. /\ leaf \in Seq(A) /\ n \in Seq(A) /\ c \in Seq(A) /\ d \in Seq(A)
        /\ g \in Seq(A) /\ e \in Seq(A)
    BY <1>7, <1>9, <2>2, <2>3, <2>4, HopFacts
  <2>6. CopilotRows(s) = (RowsOf(f, z) \o RowsOf(f, z)) \o RowsOf(f, n)
    <3>1. /\ When(ShowLlm(s), Rows("copilot/llm")) = RowsOf(f, z)
          /\ When(ShowInspect(s), Rows("copilot/mcp")) = RowsOf(f, z)
      BY <1>5, <1>9, <2>1, HopFacts DEF When
    <3>2. When(ShowSpecialist(s), Rows("copilot/specialist")) = RowsOf(f, n)
      BY <1>4, <1>5, <2>1, <2>3, HopFacts DEF When
    <3> QED BY <3>1, <3>2 DEF CopilotRows
  <2>7. BelowRows(s) = (RowsOf(f, leaf) \o (RowsOf(f, c) \o RowsOf(f, d))) \o (RowsOf(f, g) \o RowsOf(f, e))
    <3>1. When(ShowSpecialistLlm, Rows("specialist/llm")) = RowsOf(f, leaf)
      BY <1>4, <1>5, <1>9, <2>1, <2>2, HopFacts DEF When
    <3>2. /\ Rows("specialist/inspect") = RowsOf(f, c) /\ McpRows("mcp-inspect") = RowsOf(f, d)
          /\ Filled("specialist/inspect")
      <4>1. Rows("specialist/inspect") = RowsOf(f, c)
        BY <1>4, <1>5, <2>1, <2>3, HopFacts
      <4>2. McpRows("mcp-inspect") = RowsOf(f, d)
        <5>1. McpRows("mcp-inspect") = <<Row("gateway/mcp-inspect", o), Row("mcp-inspect", o)>>
          BY <1>4, <1>6, <2>1
        <5>2. "gateway/mcp-inspect" \in AllHops /\ "mcp-inspect" \in AllHops
          BY HopFacts
        <5>3. RowsOf(f, <<"gateway/mcp-inspect", "mcp-inspect">>)
                 = <<Row("gateway/mcp-inspect", o), Row("mcp-inspect", o)>>
          BY <1>5, <5>2, Zenon
        <5> QED BY <2>3, <5>1, <5>3, Zenon
      <4> QED BY <1>2, <2>1, <4>1, <4>2
    <3>3. /\ Rows("specialist/ops") = RowsOf(f, g) /\ McpRows("mcp-ops") = RowsOf(f, e)
          /\ Filled("specialist/ops")
      BY <1>2, <1>4, <1>5, <1>6, <2>1, <2>4, HopFacts
    <3>4. BelowRows(s) = SpecialistRows(McpRows("mcp-inspect"), McpRows("mcp-ops"))
      BY <2>1 DEF BelowRows
    <3> QED BY <3>1, <3>2, <3>3, <3>4 DEF SpecialistRows, When
  <2>8. CopilotRows(s) = RowsOf(f, (z \o z) \o n) /\ (z \o z) \o n \in Seq(A)
    <3>1. z \o z \in Seq(A) /\ RowsOf(f, z) \o RowsOf(f, z) = RowsOf(f, z \o z)
      BY ONLY <1>8, <1>9, Zenon
    <3>2. (z \o z) \o n \in Seq(A) /\ RowsOf(f, z \o z) \o RowsOf(f, n) = RowsOf(f, (z \o z) \o n)
      BY ONLY <1>8, <2>5, <3>1, Zenon
    <3> QED BY ONLY <2>6, <3>1, <3>2, Zenon
  <2>9. /\ RowsOf(f, c) \o RowsOf(f, d) = RowsOf(f, c \o d) /\ c \o d \in Seq(A)
        /\ RowsOf(f, g) \o RowsOf(f, e) = RowsOf(f, g \o e) /\ g \o e \in Seq(A)
    BY ONLY <1>8, <2>5, Zenon
  <2>10. /\ BelowRows(s) = RowsOf(f, (leaf \o (c \o d)) \o (g \o e))
         /\ (leaf \o (c \o d)) \o (g \o e) \in Seq(A)
    <3>1. /\ leaf \o (c \o d) \in Seq(A)
          /\ RowsOf(f, leaf) \o RowsOf(f, c \o d) = RowsOf(f, leaf \o (c \o d))
      BY ONLY <1>8, <2>5, <2>9, Zenon
    <3>2. /\ (leaf \o (c \o d)) \o (g \o e) \in Seq(A)
          /\ RowsOf(f, leaf \o (c \o d)) \o RowsOf(f, g \o e) = RowsOf(f, (leaf \o (c \o d)) \o (g \o e))
      BY ONLY <1>8, <2>9, <3>1, Zenon
    <3> QED BY ONLY <2>7, <2>9, <3>1, <3>2, Zenon
  <2>11. CopilotRows(s) \o BelowRows(s) = RowsOf(f, ((z \o z) \o n) \o ((leaf \o (c \o d)) \o (g \o e)))
    BY ONLY <1>8, <2>8, <2>10, Zenon
  <2>12. ((z \o z) \o n) \o ((leaf \o (c \o d)) \o (g \o e)) = WholeHops("privileged", leaf)
    BY <1>7, <1>9, <2>3, <2>4, <2>5, HopsJoined, Zenon
  <2>13. leaf = LeafOf(path) \/ (leaf = <<>> /\ StampedAgain(path))
    BY <1>9, <1>11, <2>1, <2>2 DEF LeafOf
  <2> QED BY <1>7, <1>11, <2>5, <2>11, <2>12, <2>13, Zenon
<1> QED BY <1>2, <1>10, <1>11

\* The name of the flow above the ledger.
LEMMA FlowNamed ==
    ASSUME TypeOK, NEW s, NEW path \in {"read", "privileged"}, NEW c, GoodChain(s, path, c), Len(c) >= 2,
           path = "privileged" => 2 \in DOMAIN c /\ c[2].hop = "copilot/specialist"
    PROVE  FlowOfChain(c) = path
<1>1. ASSUME NEW r \in Range(c) PROVE r.hop \in PathHops(path) \cup {"inbound"}
  <2>1. PICK i \in DOMAIN c : r = c[i]
    BY DEF Range
  <2> QED BY <2>1 DEF GoodChain, InboundRow
<1>2. CASE path = "read"
  <2>1. \A hop \in PathHops(path) \cup {"inbound"} :
           /\ hop \notin {"gateway/mcp-ops", "mcp-ops", "copilot/specialist"}
           /\ ClientOf(hop) # "specialist"
    BY <1>2 DEF PathHops, ClientOf, CopilotHelpers
  <2>2. ~(\E r \in Range(c) : \/ r.hop \in {"gateway/mcp-ops", "mcp-ops"}
                              \/ ClientOf(r.hop) = "specialist"
                              \/ r.hop = "copilot/specialist")
    BY <1>1, <2>1
  <2> QED BY <1>2, <2>2 DEF FlowOfChain, GoodChain
<1>3. CASE path = "privileged"
  <2>1. \E r \in Range(c) : r.hop = "copilot/specialist"
    BY <1>3 DEF Range
  <2> QED BY <1>3, <2>1 DEF FlowOfChain, GoodChain
<1> QED BY <1>2, <1>3

\* The rows of hops of a question, below the inbound token, are of the question and true.
ShownAs(t, s, f, path, hs) ==
    /\ f \in DOMAIN flows /\ s = flows[f].session /\ path = flows[f].path
    /\ ShowsBranch(s) /\ PathShown(s) = path /\ t = Chain(s, BelowRows(s))
    /\ hs \in Seq(AllHops) /\ hs # <<>>
    /\ path = "privileged" => hs[1] = "copilot/specialist"
    /\ CopilotRows(s) \o BelowRows(s) = RowsOf(f, hs)

LEMMA WholeIsTrue ==
    ASSUME TypeOK, TokensMinted, SnapshotsOK,
           NEW t, NEW s, NEW f, NEW path, NEW hs, ShownAs(t, s, f, path, hs)
    PROVE  /\ Tail(t) = RowsOf(f, hs) /\ FlowOfChain(t) = path
           /\ \A i \in DOMAIN t \ {1} : RowIsTrue(t, i, FindParentIndex(t, i))
<1>0. /\ f \in DOMAIN flows /\ s = flows[f].session /\ path = flows[f].path
      /\ ShowsBranch(s) /\ PathShown(s) = path /\ t = Chain(s, BelowRows(s))
      /\ hs \in Seq(AllHops) /\ hs # <<>>
      /\ path = "privileged" => hs[1] = "copilot/specialist"
      /\ CopilotRows(s) \o BelowRows(s) = RowsOf(f, hs)
  BY DEF ShownAs
<1>1. s \in Sessions /\ path \in {"read", "privileged"} /\ f # 0
  <2>1. flows[f] \in Flow /\ f # 0
    BY <1>0 DEF TypeOK
  <2> QED BY <1>0, <2>1 DEF Flow
<1>2. PICK z, r, n : z = InboundRow(s) /\ r = RowsOf(f, hs) /\ n = Len(hs)
  OBVIOUS
<1>3. n \in Nat /\ n >= 1
  BY <1>0, <1>2
<1>4. PICK R, S : /\ \A h \in AllHops : R[h] = Row(h, Token(flows[f].session, f)) /\ R[h] \in S
                  /\ \A hops \in Seq(AllHops) :
                        /\ RowsOf(f, hops) \in Seq(S) /\ Len(RowsOf(f, hops)) = Len(hops)
                        /\ \A i \in 1..Len(hops) : RowsOf(f, hops)[i] = R[hops[i]]
  BY RowsFacts, Zenon
<1>5. r \in Seq(S) /\ Len(r) = n /\ \A k \in 1..n : r[k] = R[hs[k]]
  BY <1>0, <1>2, <1>4, Zenon
<1>6. \A k \in 1..n : r[k].tok = Token(s, f) /\ r[k].hop = hs[k]
  <2> SUFFICES ASSUME NEW k \in 1..n PROVE r[k].tok = Token(s, f) /\ r[k].hop = hs[k]
    OBVIOUS
  <2>1. hs[k] \in AllHops
    BY <1>0, <1>2
  <2>2. r[k] = Row(hs[k], Token(s, f))
    BY <1>0, <1>4, <1>5, <2>1
  <2> QED BY <2>2 DEF Row, Origin, Token
<1>7. t = <<z>> \o r
  <2>1. /\ t = (<<z>> \o CopilotRows(s)) \o BelowRows(s)
        /\ CopilotRows(s) \in Seq(LedgerRow) /\ BelowRows(s) \in Seq(LedgerRow)
    <3>1. BelowRows(s) \in BelowAnswers(s)
      BY DEF BelowRows, BelowAnswers, SpecialistAnswers, McpAnswers
    <3>2. BelowRows(s) \in Seq(LedgerRow)
      BY <1>0, <3>1, AnswersOK DEF BelowOK, Segment
    <3>3. CopilotRows(s) \in Seq(LedgerRow)
      BY OwnRows DEF Segment
    <3>4. t = (<<z>> \o CopilotRows(s)) \o BelowRows(s)
      BY <1>0, <1>2 DEF Chain, When
    <3> QED BY <3>2, <3>3, <3>4
  <2>2. PICK u, a, b, T : /\ u = <<z>> /\ a = CopilotRows(s) /\ b = BelowRows(s)
                          /\ T = LedgerRow \cup {z}
    OBVIOUS
  <2>3. u \in Seq(T) /\ a \in Seq(T) /\ b \in Seq(T)
    BY <2>1, <2>2
  <2>4. PICK l, v : Joins(l, u, a) /\ Joins(v, a, b)
    BY DEF Joins
  <2>5. Joins(t, l, b)
    BY <2>1, <2>2, <2>4 DEF Joins
  <2>6. Joins(t, u, v)
    BY ONLY <2>3, <2>4, <2>5, Associates
  <2> QED BY <1>0, <1>2, <2>2, <2>4, <2>6 DEF Joins
<1>8. /\ Tail(t) = r /\ Len(t) = n + 1 /\ DOMAIN t = 1..(n + 1)
      /\ \A k \in 1..n : t[k + 1] = r[k]
  <2>1. PICK T : T = S \cup {z}
    OBVIOUS
  <2>2. r \in Seq(T) /\ z \in T
    BY <1>5, <2>1
  <2>0. PICK u : u = <<z>>
    OBVIOUS
  <2>3. u \in Seq(T) /\ Len(u) = 1
    BY <2>0, <2>2
  <2>4. /\ t \in Seq(T) /\ Len(t) = n + 1 /\ \A k \in 1..n : t[k + 1] = r[k]
    BY <1>3, <1>5, <1>7, <2>0, <2>2, <2>3
  <2>5. /\ Tail(t) \in Seq(T) /\ Len(Tail(t)) = n /\ \A k \in 1..n : Tail(t)[k] = t[k + 1]
    BY <1>3, <2>4
  <2>6. \A k \in 1..Len(r) : Tail(t)[k] = r[k]
    BY <1>5, <2>4, <2>5
  <2>7. Tail(t) = r
    BY <1>5, <2>2, <2>5, <2>6, SeqEqual
  <2> QED BY <2>4, <2>7
<1>9. GoodChain(s, path, t)
  <2>1. BelowRows(s) \in BelowAnswers(s)
    BY DEF BelowRows, BelowAnswers, SpecialistAnswers, McpAnswers
  <2>2. t \in ChainsShown(s)
    BY <1>0, <2>1 DEF ChainsShown
  <2> QED BY <1>0, <1>1, <2>2, ShownIsGood
<1>10. \A k \in DOMAIN t \ {1} : t[k].tok = Token(s, f)
  <2> SUFFICES ASSUME NEW k \in DOMAIN t \ {1} PROVE t[k].tok = Token(s, f)
    OBVIOUS
  <2>1. PICK j \in 1..n : k = j + 1
    <3>1. k - 1 \in 1..n /\ k = (k - 1) + 1
      BY <1>3, <1>8
    <3> QED BY <3>1
  <2> QED BY <1>6, <1>8, <2>1
<1>11. PathOf(Token(s, f)) = path
  BY <1>0, <1>1 DEF PathOf, Token
<1>12. \A k \in DOMAIN t \ {1} : RowIsTrue(t, k, FindParentIndex(t, k))
  BY <1>1, <1>9, <1>10, <1>11, RowTrue
<1>13. path = "privileged" => 2 \in DOMAIN t /\ t[2].hop = "copilot/specialist"
  <2>1. 1 \in 1..n /\ 2 \in DOMAIN t
    BY <1>3, <1>8
  <2>2. t[1 + 1].hop = hs[1]
    BY <1>6, <1>8, <2>1
  <2> QED BY <1>0, <2>1, <2>2
<1>14. FlowOfChain(t) = path
  <2>1. Len(t) >= 2
    BY ONLY <1>3, <1>8
  <2> QED BY ONLY TypeOK, <1>1, <1>9, <1>13, <2>1, FlowNamed
<1> QED BY <1>2, <1>8, <1>12, <1>14

\* Where the order of a concatenation begins.
LEMMA Begins ==
    ASSUME NEW S, NEW p \in Seq(S), NEW q \in Seq(S), Len(p) # 0 \/ Len(q) # 0
    PROVE  /\ p \o q \in Seq(S) /\ p \o q # <<>>
           /\ Len(p) # 0 => (p \o q)[1] = p[1]
<1>1. /\ p \o q \in Seq(S) /\ Len(p \o q) = Len(p) + Len(q)
      /\ \A i \in 1..(Len(p) + Len(q)) : (p \o q)[i] = IF i <= Len(p) THEN p[i] ELSE q[i - Len(p)]
  BY ConcatProperties, Zenon
<1>2. Len(p) \in Nat /\ Len(q) \in Nat
  OBVIOUS
<1>3. Len(p \o q) # 0
  BY <1>1, <1>2
<1>4. Len(<<>>) = 0
  OBVIOUS
<1> QED BY <1>1, <1>2, <1>3, <1>4

(* Without caching, the chain after a question that used every server, and before
   another disturbs it, is that question's own, every hop once, in the order of the
   ledger and under the name of the right flow; only its leaf is hidden when the token
   it is compared with was acquired again after a 401 (the stamps compared in
   selectDownstreamBranch, lastTokenHandler and selectLlmLeaf, and flowOfChain). *)
THEOREM ChainIsWhole == Spec => []WholeChain
<1>1. IndInv /\ LedgerInv => WholeChain
  <2> SUFFICES ASSUME IndInv, LedgerInv, ~caching, NEW f \in DOMAIN flows, UsedAll(f), Undisturbed(f),
                      NEW s, s = flows[f].session, NEW path, path = flows[f].path,
                      NEW t, t = Chain(s, BelowRows(s))
               PROVE  /\ \/ Tail(t) = RowsOf(f, WholeHops(path, LeafOf(path)))
                         \/ StampedAgain(path) /\ Tail(t) = RowsOf(f, WholeHops(path, <<>>))
                      /\ FlowOfChain(t) = path
                      /\ \A i \in DOMAIN t \ {1} : RowIsTrue(t, i, FindParentIndex(t, i))
    BY DEF WholeChain
  <2>1. TypeOK /\ TokensMinted /\ SnapshotsOK
    BY DEF IndInv, LedgerInv
  <2>2. Whole(f, s, path)
    BY DEF Whole
  <2>3. path \in {"read", "privileged"}
    BY <2>2, WholeSlots
  <2>4. PICK leaf \in Seq(AllHops) :
           /\ leaf = LeafOf(path) \/ (leaf = <<>> /\ StampedAgain(path))
           /\ CopilotRows(s) \o BelowRows(s) = RowsOf(f, WholeHops(path, leaf))
    BY <2>2, WholeRows
  <2>5. ShowsBranch(s) /\ PathShown(s) = path
    BY <2>2, <2>3, WholeBranch DEF ShowsBranch, PathShown
  <2>6. PICK hops : hops = WholeHops(path, leaf)
    OBVIOUS
  <2>7. /\ hops \in Seq(AllHops) /\ hops # <<>>
        /\ path = "privileged" => hops[1] = "copilot/specialist"
    <3>1. PICK p, q, n : p = ReadHops /\ q = PrivilegedHops /\ n = <<"copilot/specialist">>
      OBVIOUS
    <3>2. /\ p \in Seq(AllHops) /\ Len(p) = 3 /\ q \in Seq(AllHops) /\ Len(q) = 6
          /\ n \in Seq(AllHops) /\ Len(n) = 1 /\ n[1] = "copilot/specialist"
      BY <3>1, HopFacts DEF ReadHops, PrivilegedHops
    <3>3. hops = IF path = "read" THEN leaf \o p ELSE (n \o leaf) \o q
      BY <2>6, <3>1 DEF WholeHops
    <3>8. leaf \in Seq(AllHops) /\ Len(p) # 0 /\ Len(n) # 0
      BY <3>2
    <3>4. leaf \o p \in Seq(AllHops) /\ leaf \o p # <<>>
      BY ONLY <3>2, <3>8, Begins
    <3>5. n \o leaf \in Seq(AllHops) /\ (n \o leaf)[1] = n[1] /\ n \o leaf # <<>>
      BY ONLY <3>2, <3>8, Begins
    <3>6. PICK k : k = n \o leaf
      OBVIOUS
    <3>7. k \o q \in Seq(AllHops) /\ (k \o q)[1] = "copilot/specialist" /\ k \o q # <<>>
      BY <3>2, <3>5, <3>6, Begins
    <3> QED BY <2>3, <3>3, <3>4, <3>6, <3>7
  <2>8. CopilotRows(s) \o BelowRows(s) = RowsOf(f, hops)
    BY <2>4, <2>6
  <2>9. /\ Tail(t) = RowsOf(f, hops) /\ FlowOfChain(t) = path
        /\ \A i \in DOMAIN t \ {1} : RowIsTrue(t, i, FindParentIndex(t, i))
    <3>1. ShownAs(t, s, f, path, hops)
      BY <2>5, <2>7, <2>8 DEF ShownAs
    <3> QED BY ONLY <2>1, <3>1, WholeIsTrue
  <2> QED BY <2>4, <2>6, <2>9
<1> QED BY <1>1, Invariance, LedgerInvariance, PTL
=============================================================================
