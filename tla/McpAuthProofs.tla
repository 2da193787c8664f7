---------------------------- MODULE McpAuthProofs ---------------------------
(***************************************************************************)
(* Proofs about McpAuth, for any number of questions, users, authorization *)
(* servers, requests and changes of the servers.                           *)
(***************************************************************************)
EXTENDS McpAuth, TLAPS

Pcs == {"idle", "learn", "resolve", "token", "sent", "replied", "resend", "request", "done"}
Replies == {"none", "use_dpop_nonce", "refused", "issued"}
Causes == {"none", "discovery", "outage", "use_dpop_nonce", "refused", "step_up", "unauthorized"}

(***************************************************************************)
(* What a trusted server's name stands next to: the only discoveries there *)
(* are name a trusted server and an endpoint that this server published.   *)
(***************************************************************************)
Endpoint == [of : Servers, since : Nat]
ReadDoc == [as : Trusted, scope : {"inspect:read", NoScope}, at : Nat]
Discovery == {d \in [as : Trusted, endpoint : Endpoint, scope : {"inspect:read", NoScope},
                     at : Nat, asAt : Nat] : d.endpoint.of = d.as}
Token == [user : Users \cup {"none"}, serial : Nat, key : Nat] \cup {NoToken}

Sendings == [to : Discovery \cup {None}, nonce : Nat, again : BOOLEAN]

Question == [pc : Pcs, user : Users \cup {"none"}, forced : BOOLEAN, doc : ReadDoc \cup {None},
             d : Discovery \cup {None}, token : Token, sent : Sendings, reply : Replies,
             header : Nat, opened : BOOLEAN, requests : Nat, retried : BOOLEAN, status : Nat,
             cause : Causes, refusedAt : Nat, refused : Nat, stepUp : BOOLEAN]

ServersOK ==
    /\ server \in [doc : Doc, key : Nat, demandsMfa : BOOLEAN]
    /\ curity \in [Servers -> [endpoint : Endpoint, nonce : Nat \ {0}]]
    /\ \A s \in Servers : curity[s].endpoint.of = s
    /\ changes \in Nat /\ minted \in Nat /\ nonce \in Nat

CachesOK ==
    /\ discovered \in Discovery \cup {None}
    /\ \A s \in DOMAIN resolved : resolved[s].endpoint \in Endpoint /\ resolved[s].endpoint.of = s
                                  /\ resolved[s].at \in Nat
    /\ \A e \in tokens : e.token \in Token

TypeInv ==
    /\ ServersOK
    /\ CachesOK
    /\ q \in [Questions -> Question]

\* What a question holds, by how far it got; and, after a refusal, that it read and
\* got everything again (ch and mi are the changes and the mintings so far).
Exchanging == {"token", "sent", "replied", "resend"}
Progress(r, ch, mi) ==
    /\ r.refusedAt <= ch + 1 /\ r.refused <= mi
    /\ r.pc = "resolve" => r.doc \in ReadDoc
    /\ r.pc \in Exchanging => r.d \in Discovery
    /\ r.pc \in {"sent", "replied"} => r.sent.to \in Discovery
    /\ r.retried =>
          /\ r.pc \notin {"idle", "done"}
          /\ r.pc # "request" => r.forced
          /\ r.pc = "resolve" => r.doc.at >= r.refusedAt
          /\ r.pc \in Exchanging => r.d.at >= r.refusedAt /\ r.d.asAt >= r.refusedAt
          /\ r.pc = "replied" /\ r.reply = "issued" => r.token.serial > r.refused
          /\ r.pc = "request" => r.token.serial > r.refused

\* As long as no nonce was replaced: the second attempt has it.
Unrotated == \A s \in Servers : curity[s].nonce = 1
Calm(r, no) ==
    /\ r.pc = "sent" => r.sent.nonce \in {0, 1} /\ (r.sent.again => r.sent.nonce = 1)
    /\ r.pc = "replied" => r.header \in {0, 1}
    /\ r.pc = "replied" /\ r.reply = "use_dpop_nonce" => r.header = 1 /\ ~r.sent.again
    /\ r.pc = "resend" => no = 1
    /\ r.cause # "use_dpop_nonce"

IndInv ==
    /\ TypeInv
    /\ \A i \in Questions : Progress(q[i], changes, minted)
    /\ Unrotated => nonce \in {0, 1} /\ \A i \in Questions : Calm(q[i], nonce)
-----------------------------------------------------------------------------
\* A question that has not begun.
LEMMA IdleOK == Idle \in Question
<1>1. Idle.sent \in Sendings
  BY DEF Idle, Sendings
<1> QED BY <1>1 DEF Idle, Question, Pcs, Token, Replies, Causes

\* The invariant holds when the process starts.
LEMMA InitInv == Init => IndInv
<1> SUFFICES ASSUME Init PROVE IndInv
  OBVIOUS
<1>1. TypeInv
  <2>1. server \in [doc : Doc, key : Nat, demandsMfa : BOOLEAN]
    <3>1. \A C, K, M, B : C \subseteq Doc /\ K \subseteq Nat /\ M \subseteq B =>
              [doc : C, key : K, demandsMfa : M] \subseteq [doc : Doc, key : Nat, demandsMfa : B]
      OBVIOUS
    <3>2. Good \subseteq Doc /\ {0} \subseteq Nat /\ {FALSE} \subseteq BOOLEAN
      BY DEF Good
    <3> QED BY <3>1, <3>2, Zenon DEF Init
  <2>2. /\ curity \in [Servers -> [endpoint : Endpoint, nonce : Nat \ {0}]]
        /\ \A s \in Servers : curity[s].endpoint.of = s
    BY DEF Init, Endpoint
  <2>3. CachesOK /\ q \in [Questions -> Question]
    BY IdleOK DEF Init, CachesOK
  <2> QED BY <2>1, <2>2, <2>3 DEF Init, TypeInv, ServersOK
<1>2. \A i \in Questions : Progress(q[i], changes, minted)
  BY DEF Init, Progress, Idle, Exchanging
<1>3. nonce \in {0, 1} /\ \A i \in Questions : Calm(q[i], nonce)
  BY DEF Init, Calm, Idle
<1> QED BY <1>1, <1>2, <1>3 DEF IndInv

\* A step of one question.
LEMMA OneQuestion ==
    ASSUME IndInv, ServersOK', CachesOK', UNCHANGED <<curity, changes>>,
           NEW i \in Questions, NEW n \in Question, q' = [q EXCEPT ![i] = n],
           minted' >= minted, Progress(n, changes, minted'),
           Unrotated => nonce' \in {nonce, 1} /\ Calm(n, nonce')
    PROVE  IndInv'
<1>1. TypeInv'
  BY DEF IndInv, TypeInv
<1>2. ASSUME NEW j \in Questions PROVE Progress(q'[j], changes', minted')
  <2>1. Progress(q[j], changes, minted) /\ q[j] \in Question
    BY DEF IndInv, TypeInv
  <2>2. Progress(q[j], changes, minted')
    BY <2>1 DEF Progress, Question, IndInv, TypeInv, ServersOK
  <2> QED BY <2>2 DEF IndInv, TypeInv
<1>3. ASSUME Unrotated' PROVE nonce' \in {0, 1} /\ \A j \in Questions : Calm(q'[j], nonce')
  <2>1. Unrotated
    BY <1>3 DEF Unrotated
  <2>2. nonce \in {0, 1} /\ nonce' \in {nonce, 1} /\ Calm(n, nonce')
    BY <2>1 DEF IndInv
  <2>3. ASSUME NEW j \in Questions PROVE Calm(q'[j], nonce')
    <3>1. Calm(q[j], nonce)
      BY <2>1 DEF IndInv
    <3>2. Calm(q[j], nonce')
      BY <2>2, <3>1 DEF Calm
    <3> QED BY <2>2, <3>2 DEF IndInv, TypeInv
  <2> QED BY <2>2, <2>3
<1> QED BY <1>1, <1>2, <1>3 DEF IndInv

\* A step of one question that mints nothing and hears of no nonce.
LEMMA Quietly ==
    ASSUME IndInv, CachesOK', UNCHANGED <<server, curity, changes, minted, nonce>>,
           NEW i \in Questions, NEW n \in Question, q' = [q EXCEPT ![i] = n],
           Progress(n, changes, minted), Unrotated => Calm(n, nonce)
    PROVE  IndInv'
<1>1. ServersOK' /\ minted' >= minted /\ Progress(n, changes, minted')
  BY DEF IndInv, TypeInv, ServersOK
<1>2. Unrotated => nonce' \in {nonce, 1} /\ Calm(n, nonce')
  OBVIOUS
<1>3. UNCHANGED <<curity, changes>>
  OBVIOUS
<1> QED BY <1>1, <1>2, <1>3, OneQuestion

\* A question that failed.
LEMMA FailedOK ==
    ASSUME NEW r, NEW cause \in Causes
    PROVE  /\ Failed(r, cause) \in Question
           /\ \A ch, mi \in Nat : Progress(Failed(r, cause), ch, mi)
           /\ cause # "use_dpop_nonce" => \A no : Calm(Failed(r, cause), no)
<1> DEFINE n == Failed(r, cause)
<1>1. StatusOf(r, cause) \in Nat
  BY DEF StatusOf
<1>2. n = [Idle EXCEPT !.pc = "done", !.cause = cause, !.status = StatusOf(r, cause)]
  BY DEF Failed
<1>3. n \in Question
  <2>1. "done" \in Pcs
    BY DEF Pcs
  <2> QED BY <1>1, <1>2, <2>1, IdleOK DEF Question
<1>4. n.pc = "done" /\ n.cause = cause /\ n.retried = FALSE /\ n.refusedAt = 0 /\ n.refused = 0
  BY <1>2 DEF Idle
<1> HIDE DEF n
<1>5. \A ch, mi \in Nat : Progress(n, ch, mi)
  BY <1>4 DEF Progress, Exchanging
<1>6. cause # "use_dpop_nonce" => \A no : Calm(n, no)
  BY <1>4 DEF Calm
<1> QED BY <1>3, <1>5, <1>6 DEF n

\* A step after which the question has failed, for another reason than the nonce.
LEMMA Fails ==
    ASSUME IndInv, NEW i \in Questions, NEW cause \in Causes \ {"use_dpop_nonce"},
           Set(i, Failed(q[i], cause)), UNCHANGED <<server, curity, changes, minted, nonce>>, CachesOK'
    PROVE  IndInv'
<1> DEFINE n == Failed(q[i], cause)
<1>1. ServersOK' /\ changes \in Nat /\ minted' \in Nat /\ minted' >= minted /\ nonce' = nonce
  BY DEF IndInv, TypeInv, ServersOK
<1>2. n \in Question /\ Progress(n, changes, minted') /\ Calm(n, nonce')
  BY <1>1, FailedOK
<1> HIDE DEF n
<1> QED BY <1>1, <1>2, OneQuestion DEF Set, n

\* What the invariant says of the question a step is about.
LEMMA ThisQuestion ==
    ASSUME IndInv, NEW i \in Questions
    PROVE  /\ q[i] \in Question
           /\ Progress(q[i], changes, minted)
           /\ Unrotated => nonce \in {0, 1} /\ Calm(q[i], nonce)
           /\ ServersOK /\ CachesOK
           /\ changes \in Nat /\ minted \in Nat /\ nonce \in Nat
BY DEF IndInv, TypeInv, ServersOK

\* The servers and the caches are as they were.
LEMMA Kept ==
    /\ ServersOK /\ UNCHANGED <<server, curity, changes, minted, nonce>> => ServersOK'
    /\ CachesOK /\ UNCHANGED caches => CachesOK'
BY DEF ServersOK, CachesOK, caches

\* A question begins.
LEMMA BeginInv ==
    ASSUME IndInv, NEW i \in Questions, NEW u \in Users, Begin(i, u) PROVE IndInv'
<1> DEFINE n == [Idle EXCEPT !.pc = "learn", !.user = u]
<1>1. CachesOK' /\ changes \in Nat /\ minted \in Nat
  BY ThisQuestion, Kept DEF Begin
<1>2. n \in Question
  BY IdleOK DEF Question, Pcs
<1>3. n.pc = "learn" /\ n.retried = FALSE /\ n.refusedAt = 0 /\ n.refused = 0 /\ n.cause = "none"
  BY DEF Idle
<1>4. q' = [q EXCEPT ![i] = n] /\ UNCHANGED <<server, curity, changes, minted, nonce>>
  BY DEF Begin, Set
<1> HIDE DEF n
<1>5. Progress(n, changes, minted) /\ Calm(n, nonce)
  BY <1>1, <1>3 DEF Progress, Calm, Exchanging
<1> QED BY <1>1, <1>2, <1>4, <1>5, Quietly

\* The cached discovery is used: never after a refusal.
LEMMA CachedInv ==
    ASSUME IndInv, NEW i \in Questions, Cached(i) PROVE IndInv'
<1> DEFINE r == q[i]
           n == [r EXCEPT !.pc = "token", !.d = discovered]
<1>1. /\ r \in Question /\ Progress(r, changes, minted) /\ (Unrotated => Calm(r, nonce))
      /\ changes \in Nat /\ minted \in Nat
      /\ discovered \in Discovery
  BY ThisQuestion DEF Cached, CachesOK
<1>2. CachesOK' /\ UNCHANGED <<server, curity, changes, minted, nonce>>
  BY ThisQuestion, Kept DEF Cached
<1>3. r.pc = "learn" /\ ~r.forced
  BY DEF Cached, At
<1>4. q' = [q EXCEPT ![i] = n]
  BY DEF Cached, Set
<1> HIDE DEF r
<1>5. n \in Question
  <2>1. "token" \in Pcs
    BY DEF Pcs
  <2> QED BY <1>1, <2>1 DEF Question
<1>6. /\ n.pc = "token" /\ n.d = discovered /\ n.retried = r.retried /\ n.refusedAt = r.refusedAt
      /\ n.refused = r.refused /\ n.cause = r.cause
  BY <1>1 DEF Question
<1> HIDE DEF n
<1>7. Progress(n, changes, minted)
  BY <1>1, <1>2, <1>3, <1>6 DEF Progress, Exchanging
<1>8. Unrotated => Calm(n, nonce)
  BY <1>1, <1>6 DEF Calm
<1> QED BY <1>1, <1>2, <1>4, <1>5, <1>7, <1>8, Quietly

\* The resource metadata are read.
LEMMA LearnInv ==
    ASSUME IndInv, NEW i \in Questions, Learn(i) PROVE IndInv'
<1> DEFINE r == q[i]
           doc == [as |-> server.doc.as, scope |-> server.doc.scope, at |-> changes + 1]
           n == [r EXCEPT !.pc = "resolve", !.doc = doc]
<1>1. /\ r \in Question /\ Progress(r, changes, minted) /\ (Unrotated => Calm(r, nonce))
      /\ changes \in Nat /\ minted \in Nat
  BY ThisQuestion
<1>2. CachesOK' /\ UNCHANGED <<server, curity, changes, minted, nonce>>
  BY ThisQuestion, Kept DEF Learn
<1>3. r.pc = "learn"
  BY DEF Learn, At
<1>4. CASE Set(i, Failed(r, "discovery"))
  BY <1>2, <1>4, Fails DEF Causes
<1>5. CASE Acceptable(server.doc) /\ Set(i, n)
  <2>1. doc \in ReadDoc /\ doc.at = changes + 1
    BY <1>1, <1>5, ThisQuestion DEF Acceptable, ReadDoc, ServersOK, Doc
  <2>2. q' = [q EXCEPT ![i] = n]
    BY <1>5 DEF Set
  <2> HIDE DEF r, doc
  <2>3. n \in Question
    <3>1. "resolve" \in Pcs
      BY DEF Pcs
    <3> QED BY <1>1, <2>1, <3>1 DEF Question
  <2>4. /\ n.pc = "resolve" /\ n.doc = doc /\ n.retried = r.retried /\ n.refusedAt = r.refusedAt
        /\ n.refused = r.refused /\ n.cause = r.cause /\ n.forced = r.forced
        /\ r.refusedAt \in Nat /\ r.refused \in Nat
    BY <1>1 DEF Question
  <2> HIDE DEF n
  <2>5. Progress(n, changes, minted)
    BY <1>1, <1>2, <1>3, <2>1, <2>4 DEF Progress, Exchanging
  <2>6. Unrotated => Calm(n, nonce)
    BY <1>1, <2>4 DEF Calm
  <2> QED BY <1>1, <1>2, <2>2, <2>3, <2>5, <2>6, Quietly
<1> QED BY <1>4, <1>5 DEF Learn

\* The metadata of the authorization server, cached or read: its own either way,
\* and read again after a refusal.
LEMMA MetadataOK ==
    ASSUME ServersOK, CachesOK, NEW r, r.doc \in ReadDoc, NEW m \in MetadataFor(r)
    PROVE  /\ m.endpoint \in Endpoint /\ m.endpoint.of = r.doc.as /\ m.at \in Nat
           /\ r.forced => m.at = changes + 1
<1>1. r.doc.as \in Servers
  BY DEF ReadDoc, Servers
<1>2. CASE m = [endpoint |-> curity[r.doc.as].endpoint, at |-> changes + 1]
  BY <1>1, <1>2 DEF ServersOK
<1>3. CASE ~r.forced /\ r.doc.as \in DOMAIN resolved /\ m = resolved[r.doc.as]
  BY <1>3 DEF CachesOK
<1> QED BY <1>2, <1>3 DEF MetadataFor

\* The discovery is complete, or has no scope.
LEMMA ResolveInv ==
    ASSUME IndInv, NEW i \in Questions, Resolve(i) PROVE IndInv'
<1> DEFINE r == q[i]
<1>1. /\ r \in Question /\ Progress(r, changes, minted) /\ (Unrotated => Calm(r, nonce))
      /\ ServersOK /\ CachesOK /\ changes \in Nat /\ minted \in Nat
  BY ThisQuestion
<1>2. r.pc = "resolve" /\ r.doc \in ReadDoc
  BY <1>1 DEF Resolve, At, Progress
<1>3. PICK m \in MetadataFor(r) :
        LET d == [as |-> r.doc.as, endpoint |-> m.endpoint, scope |-> r.doc.scope,
                  at |-> r.doc.at, asAt |-> m.at]
        IN  /\ resolved' = [s \in DOMAIN resolved \cup {r.doc.as} |->
                              IF s = r.doc.as THEN m ELSE resolved[s]]
            /\ IF r.doc.scope = NoScope
               THEN Set(i, Failed(r, "discovery")) /\ UNCHANGED discovered
               ELSE Set(i, [r EXCEPT !.pc = "token", !.d = d]) /\ discovered' = d
  BY DEF Resolve
<1>4. /\ m.endpoint \in Endpoint /\ m.endpoint.of = r.doc.as /\ m.at \in Nat
      /\ r.forced => m.at = changes + 1
  BY <1>1, <1>2, MetadataOK
<1> DEFINE d == [as |-> r.doc.as, endpoint |-> m.endpoint, scope |-> r.doc.scope,
                 at |-> r.doc.at, asAt |-> m.at]
           n == [r EXCEPT !.pc = "token", !.d = d]
<1>5. d \in Discovery /\ d.at = r.doc.at /\ d.asAt = m.at
  BY <1>2, <1>4 DEF Discovery, ReadDoc
<1>6. UNCHANGED <<server, curity, changes, minted, nonce>> /\ UNCHANGED tokens
  BY DEF Resolve
<1>7. CachesOK'
  <2>1. discovered' \in Discovery \cup {None}
    BY <1>1, <1>3, <1>5 DEF CachesOK
  <2>2. \A s \in DOMAIN resolved' :
          resolved'[s].endpoint \in Endpoint /\ resolved'[s].endpoint.of = s /\ resolved'[s].at \in Nat
    BY <1>1, <1>3, <1>4 DEF CachesOK
  <2> QED BY <1>1, <1>6, <2>1, <2>2 DEF CachesOK
<1>8. CASE Set(i, Failed(r, "discovery"))
  BY <1>6, <1>7, <1>8, Fails DEF Causes
<1>9. CASE Set(i, n)
  <2>1. q' = [q EXCEPT ![i] = n]
    BY <1>9 DEF Set
  <2> HIDE DEF r, d
  <2>2. n \in Question
    <3>1. "token" \in Pcs
      BY DEF Pcs
    <3> QED BY <1>1, <1>5, <3>1 DEF Question
  <2>3. /\ n.pc = "token" /\ n.d = d /\ n.retried = r.retried /\ n.refusedAt = r.refusedAt
        /\ n.refused = r.refused /\ n.cause = r.cause /\ n.forced = r.forced
        /\ r.refusedAt \in Nat
    BY <1>1 DEF Question
  <2> HIDE DEF n
  <2>4. Progress(n, changes, minted)
    BY <1>1, <1>2, <1>4, <1>5, <2>3 DEF Progress, Exchanging
  <2>5. Unrotated => Calm(n, nonce)
    BY <1>1, <2>3 DEF Calm
  <2> QED BY <1>6, <1>7, <2>1, <2>2, <2>4, <2>5, Quietly
<1> QED BY <1>3, <1>8, <1>9

\* Dropping an entry of the token cache keeps the caches as they should be.
LEMMA DroppedOK ==
    ASSUME IndInv, NEW r, tokens' \in {tokens, Dropped(r)}, UNCHANGED <<discovered, resolved>>
    PROVE  CachesOK'
BY DEF IndInv, TypeInv, CachesOK, Dropped

\* A cached token is used: never after a refusal, which drops it first.
LEMMA TokenHitInv ==
    ASSUME IndInv, NEW i \in Questions, TokenHit(i) PROVE IndInv'
<1> DEFINE r == q[i]
<1>1. /\ r \in Question /\ Progress(r, changes, minted) /\ (Unrotated => Calm(r, nonce))
      /\ changes \in Nat /\ minted \in Nat
  BY ThisQuestion
<1>2. CachesOK' /\ UNCHANGED <<server, curity, changes, minted, nonce>> /\ r.pc = "token"
  BY DroppedOK DEF TokenHit, At
<1>3. PICK e \in Dropped(r) : e.key = CacheKey(r) /\ Set(i, Acquired(r, e.token))
  BY DEF TokenHit
<1>4. ~r.forced /\ e.token \in Token
  BY <1>3, ThisQuestion DEF Dropped, CachesOK
<1> DEFINE n == Acquired(r, e.token)
<1>5. q' = [q EXCEPT ![i] = n]
  BY <1>3 DEF Set
<1> HIDE DEF r
<1>6. n \in Question
  <2>1. "request" \in Pcs /\ None \in ReadDoc \cup {None} /\ "none" \in Replies /\ TRUE \in BOOLEAN
    BY DEF Pcs, Replies
  <2>2. Idle.sent \in Sendings
    BY IdleOK DEF Question
  <2> QED BY <1>1, <1>4, <2>1, <2>2 DEF Question, Acquired
<1>7. /\ n.pc = "request" /\ n.retried = r.retried /\ n.refusedAt = r.refusedAt
      /\ n.refused = r.refused /\ n.cause = r.cause
  BY <1>1 DEF Question, Acquired
<1> HIDE DEF n
<1>8. Progress(n, changes, minted)
  BY <1>1, <1>2, <1>4, <1>7 DEF Progress, Exchanging
<1>9. Unrotated => Calm(n, nonce)
  BY <1>1, <1>7 DEF Calm
<1> QED BY <1>2, <1>5, <1>6, <1>8, <1>9, Quietly

\* A request to the token endpoint, the first or the second.
LEMMA SentInv ==
    ASSUME IndInv, NEW i \in Questions, NEW again \in BOOLEAN, Set(i, Sent(q[i], again)),
           q[i].pc \in {"token", "resend"}, again => q[i].pc = "resend", CachesOK',
           UNCHANGED <<server, curity, changes, minted, nonce>>
    PROVE  IndInv'
<1> DEFINE r == q[i]
           n == Sent(r, again)
<1>1. /\ r \in Question /\ Progress(r, changes, minted)
      /\ (Unrotated => nonce \in {0, 1} /\ Calm(r, nonce))
      /\ changes \in Nat /\ minted \in Nat /\ nonce \in Nat
  BY ThisQuestion
<1>2. r.pc \in {"token", "resend"} /\ (again => r.pc = "resend") /\ r.d \in Discovery
  BY <1>1 DEF Progress, Exchanging
<1>3. q' = [q EXCEPT ![i] = n]
  BY DEF Set
<1> DEFINE sent == [to |-> r.d, nonce |-> nonce, again |-> again]
<1> HIDE DEF r
<1>4. sent \in Sendings /\ sent.to = r.d /\ sent.nonce = nonce /\ sent.again = again
  BY <1>1, <1>2 DEF Sendings
<1>5. n = [r EXCEPT !.pc = "sent", !.sent = sent]
  BY DEF Sent
<1> HIDE DEF n, sent
<1>6. n \in Question
  BY <1>1, <1>4, <1>5 DEF Question, Pcs
<1>7. /\ n.pc = "sent" /\ n.sent = sent /\ n.retried = r.retried /\ n.refusedAt = r.refusedAt
      /\ n.refused = r.refused /\ n.cause = r.cause /\ n.forced = r.forced /\ n.d = r.d
  BY <1>1, <1>5 DEF Question
<1>8. Progress(n, changes, minted)
  BY <1>1, <1>2, <1>4, <1>7 DEF Progress, Exchanging
<1>9. Unrotated => Calm(n, nonce)
  BY <1>1, <1>2, <1>4, <1>7 DEF Calm
<1> QED BY <1>3, <1>6, <1>8, <1>9, Quietly

\* The exchange cannot be made.
LEMMA ExchangeFailsInv ==
    ASSUME IndInv, NEW i \in Questions, ExchangeFails(i) PROVE IndInv'
<1>1. CachesOK'
  BY DroppedOK DEF ExchangeFails
<1> QED BY <1>1, Fails DEF ExchangeFails, Causes

\* Curity's reply: it asks for its nonce only if the request was without it, and a
\* token it mints is newer than every refusal.
LEMMA HandleInv ==
    ASSUME IndInv, NEW i \in Questions, Handle(i) PROVE IndInv'
<1> DEFINE r == q[i]
           as == curity[r.sent.to.as]
           minting == [user |-> r.user, serial |-> minted + 1, key |-> server.key]
<1>1. /\ r \in Question /\ Progress(r, changes, minted)
      /\ (Unrotated => nonce \in {0, 1} /\ Calm(r, nonce))
      /\ ServersOK /\ changes \in Nat /\ minted \in Nat
  BY ThisQuestion
<1>2. r.pc = "sent" /\ r.sent.to \in Discovery /\ r.d \in Discovery
  BY <1>1 DEF Handle, At, Progress, Exchanging
<1>3. CachesOK' /\ UNCHANGED <<server, curity, changes, nonce>>
  BY ThisQuestion, Kept DEF Handle
<1>4. as.nonce \in Nat \ {0} /\ (Unrotated => as.nonce = 1)
  <2>1. r.sent.to.as \in Servers
    BY <1>2 DEF Discovery, Servers
  <2> QED BY <1>1, <2>1 DEF ServersOK, Unrotated
<1>5. PICK reply \in Replies, header \in {0, as.nonce}, token \in {r.token, minting} :
        /\ q' = [q EXCEPT ![i] = [r EXCEPT !.pc = "replied", !.reply = reply, !.header = header,
                                           !.token = token]]
        /\ reply = "use_dpop_nonce" => header = as.nonce /\ r.sent.nonce # as.nonce
        /\ IF reply = "issued" THEN token = minting /\ minted' = minted + 1
           ELSE minted' = minted
  BY DEF Handle, Set, Replies
<1>6. minting \in Token /\ minting.serial = minted + 1
  BY <1>1 DEF ServersOK, Question, Token
<1> DEFINE n == [r EXCEPT !.pc = "replied", !.reply = reply, !.header = header, !.token = token]
<1>7. minted' \in Nat /\ minted' >= minted /\ header \in Nat /\ token \in Token
  BY <1>1, <1>4, <1>5, <1>6 DEF Question
<1>8. ServersOK'
  BY <1>1, <1>3, <1>7 DEF ServersOK
<1> HIDE DEF r, as, minting
<1>9. n \in Question
  BY <1>1, <1>7 DEF Question, Pcs
<1>10. /\ n.pc = "replied" /\ n.reply = reply /\ n.header = header /\ n.token = token
       /\ n.sent = r.sent /\ n.retried = r.retried /\ n.refusedAt = r.refusedAt
       /\ n.refused = r.refused /\ n.cause = r.cause /\ n.forced = r.forced /\ n.d = r.d
       /\ r.refused \in Nat /\ r.refusedAt \in Nat
  BY <1>1 DEF Question
<1> HIDE DEF n
<1>11. Progress(n, changes, minted')
  BY <1>1, <1>2, <1>5, <1>6, <1>7, <1>10 DEF Progress, Exchanging
<1>12. Unrotated => nonce' \in {nonce, 1} /\ Calm(n, nonce')
  BY <1>1, <1>2, <1>3, <1>4, <1>5, <1>10 DEF Calm
<1>13. q' = [q EXCEPT ![i] = n]
  BY <1>5 DEF n, r
<1> QED BY <1>3, <1>7, <1>8, <1>9, <1>11, <1>12, <1>13, OneQuestion

\* The reply is read: retried once for the nonce, used, or a failure.
LEMMA ReceivedInv ==
    ASSUME IndInv, NEW i \in Questions, Received(i) PROVE IndInv'
<1> DEFINE r == q[i]
<1>1. /\ r \in Question /\ Progress(r, changes, minted)
      /\ (Unrotated => nonce \in {0, 1} /\ Calm(r, nonce))
      /\ ServersOK /\ CachesOK /\ changes \in Nat /\ minted \in Nat /\ nonce \in Nat
  BY ThisQuestion
<1>2. r.pc = "replied" /\ r.d \in Discovery /\ r.header \in Nat /\ r.token \in Token
  BY <1>1 DEF Received, At, Progress, Exchanging, Question
<1>3. /\ UNCHANGED <<server, curity, changes, minted, discovered, resolved>>
      /\ nonce' = IF r.header # 0 THEN r.header ELSE nonce
      /\ \A e \in tokens' : e \in tokens \/ e.token = r.token
  BY DEF Received
<1>4. ServersOK' /\ CachesOK' /\ minted' >= minted
  BY <1>1, <1>2, <1>3 DEF ServersOK, CachesOK
<1>5. Unrotated => nonce' \in {nonce, 1}
  BY <1>1, <1>2, <1>3 DEF Calm
<1>6. CASE RetryOnce(r) /\ Set(i, [r EXCEPT !.pc = "resend"])
  <2> DEFINE n == [r EXCEPT !.pc = "resend"]
  <2>1. q' = [q EXCEPT ![i] = n]
    BY <1>6 DEF Set
  <2>2. r.reply = "use_dpop_nonce"
    BY <1>6 DEF RetryOnce
  <2> HIDE DEF r
  <2>3. n \in Question
    BY <1>1 DEF Question, Pcs
  <2>4. /\ n.pc = "resend" /\ n.retried = r.retried /\ n.refusedAt = r.refusedAt
        /\ n.refused = r.refused /\ n.cause = r.cause /\ n.forced = r.forced /\ n.d = r.d
    BY <1>1 DEF Question
  <2> HIDE DEF n
  <2>5. Progress(n, changes, minted')
    BY <1>1, <1>2, <1>3, <2>4 DEF Progress, Exchanging
  <2>6. Unrotated => nonce' \in {nonce, 1} /\ Calm(n, nonce')
    BY <1>1, <1>2, <1>3, <1>5, <2>2, <2>4 DEF Calm
  <2> QED BY <1>3, <1>4, <2>1, <2>3, <2>5, <2>6, OneQuestion
<1>7. CASE r.reply = "issued" /\ Set(i, Acquired(r, r.token))
  <2> DEFINE n == Acquired(r, r.token)
  <2>1. q' = [q EXCEPT ![i] = n] /\ r.reply = "issued"
    BY <1>7 DEF Set
  <2> HIDE DEF r
  <2>2. n \in Question
    <3>1. "request" \in Pcs /\ None \in ReadDoc \cup {None} /\ "none" \in Replies /\ TRUE \in BOOLEAN
      BY DEF Pcs, Replies
    <3>2. Idle.sent \in Sendings
      BY IdleOK DEF Question
    <3> QED BY <1>1, <1>2, <3>1, <3>2 DEF Question, Acquired
  <2>3. /\ n.pc = "request" /\ n.retried = r.retried /\ n.refusedAt = r.refusedAt
        /\ n.refused = r.refused /\ n.cause = r.cause /\ n.token = r.token
    BY <1>1 DEF Question, Acquired
  <2> HIDE DEF n
  <2>4. Progress(n, changes, minted')
    BY <1>1, <1>2, <1>3, <2>1, <2>3 DEF Progress, Exchanging
  <2>5. Unrotated => nonce' \in {nonce, 1} /\ Calm(n, nonce')
    BY <1>1, <1>5, <2>3 DEF Calm
  <2> QED BY <1>3, <1>4, <2>1, <2>2, <2>4, <2>5, OneQuestion
<1>8. CASE ~RetryOnce(r) /\ r.reply # "issued" /\ Set(i, Failed(r, r.reply))
  <2> DEFINE n == Failed(r, r.reply)
  <2>1. q' = [q EXCEPT ![i] = n]
    BY <1>8 DEF Set
  <2>2. r.reply \in Causes /\ (Unrotated => r.reply # "use_dpop_nonce")
    BY <1>1, <1>2, <1>8 DEF Question, Replies, Causes, Calm, RetryOnce
  <2>3. n \in Question /\ Progress(n, changes, minted') /\ (Unrotated => Calm(n, nonce'))
    <3> HIDE DEF r
    <3> QED BY <1>1, <1>3, <2>2, FailedOK
  <2> HIDE DEF n
  <2> QED BY <1>3, <1>4, <1>5, <2>1, <2>3, OneQuestion
<1> QED BY <1>6, <1>7, <1>8 DEF Received

\* The MCP request is answered.
LEMMA AnsweredInv ==
    ASSUME IndInv, NEW i \in Questions, Answered(i) PROVE IndInv'
<1> DEFINE r == q[i]
<1>1. /\ r \in Question /\ Progress(r, changes, minted) /\ (Unrotated => Calm(r, nonce))
      /\ changes \in Nat /\ minted \in Nat
  BY ThisQuestion
<1>2. CachesOK' /\ UNCHANGED <<server, curity, changes, minted, nonce>> /\ r.pc = "request"
  BY ThisQuestion, Kept DEF Answered, At
<1>3. CASE Set(i, [Idle EXCEPT !.pc = "done", !.status = 200])
  <2> DEFINE n == [Idle EXCEPT !.pc = "done", !.status = 200]
  <2>1. q' = [q EXCEPT ![i] = n]
    BY <1>3 DEF Set
  <2>2. n \in Question
    <3>1. "done" \in Pcs /\ 200 \in Nat
      BY DEF Pcs
    <3> QED BY <3>1, IdleOK DEF Question
  <2>3. n.pc = "done" /\ n.retried = FALSE /\ n.refusedAt = 0 /\ n.refused = 0 /\ n.cause = "none"
    BY DEF Idle
  <2> HIDE DEF n
  <2>4. Progress(n, changes, minted) /\ Calm(n, nonce)
    BY <1>1, <2>3 DEF Progress, Calm, Exchanging
  <2> QED BY <1>2, <2>1, <2>2, <2>4, Quietly
<1>4. CASE Set(i, [r EXCEPT !.requests = @ + 1, !.retried = FALSE])
  <2> DEFINE n == [r EXCEPT !.requests = @ + 1, !.retried = FALSE]
  <2>1. q' = [q EXCEPT ![i] = n]
    BY <1>4 DEF Set
  <2> HIDE DEF r
  <2>2. n \in Question
    <3>1. r.requests + 1 \in Nat /\ FALSE \in BOOLEAN
      BY <1>1 DEF Question
    <3> QED BY <1>1, <3>1 DEF Question
  <2>3. /\ n.pc = "request" /\ n.retried = FALSE /\ n.refusedAt = r.refusedAt
        /\ n.refused = r.refused /\ n.cause = r.cause
    BY <1>1, <1>2 DEF Question
  <2> HIDE DEF n
  <2>4. Progress(n, changes, minted)
    BY <1>1, <2>3 DEF Progress, Exchanging
  <2>5. Unrotated => Calm(n, nonce)
    BY <1>1, <2>3 DEF Calm
  <2> QED BY <1>2, <2>1, <2>2, <2>4, <2>5, Quietly
<1> QED BY <1>3, <1>4 DEF Answered

\* A 401: the provider learns again, from the documents of now.
LEMMA RefusedInv ==
    ASSUME IndInv, NEW i \in Questions, Refused(i) PROVE IndInv'
<1> DEFINE r == q[i]
           s == [r EXCEPT !.retried = TRUE, !.refused = minted, !.refusedAt = changes + 1,
                          !.stepUp = Accepts(r)]
           n == [s EXCEPT !.pc = "learn", !.forced = TRUE]
<1>1. /\ r \in Question /\ Progress(r, changes, minted) /\ (Unrotated => Calm(r, nonce))
      /\ changes \in Nat /\ minted \in Nat
  BY ThisQuestion
<1>2. CachesOK' /\ UNCHANGED <<server, curity, changes, minted, nonce>>
  BY ThisQuestion, Kept DEF Refused
<1>3. ASSUME NEW x, NEW cause \in Causes \ {"use_dpop_nonce"}, Set(i, Failed(x, cause))
      PROVE  IndInv'
  <2>1. /\ Failed(x, cause) \in Question /\ Progress(Failed(x, cause), changes, minted)
        /\ Calm(Failed(x, cause), nonce)
    BY <1>1, FailedOK
  <2> QED BY <1>2, <1>3, <2>1, Quietly DEF Set
<1>4. CASE Set(i, n)
  <2>1. q' = [q EXCEPT ![i] = n]
    BY <1>4 DEF Set
  <2>2. Accepts(r) \in BOOLEAN
    BY Zenon DEF Accepts
  <2> DEFINE ok == Accepts(r)
  <2> HIDE DEF r, ok
  <2>3. s = [r EXCEPT !.retried = TRUE, !.refused = minted, !.refusedAt = changes + 1, !.stepUp = ok]
    BY DEF ok
  <2> HIDE DEF s
  <2>4. changes + 1 \in Nat /\ TRUE \in BOOLEAN /\ "learn" \in Pcs /\ ok \in BOOLEAN
    BY <1>1, <2>2 DEF Pcs, ok
  <2>5. s \in Question /\ s.refused = minted /\ s.refusedAt = changes + 1 /\ s.cause = r.cause
    BY <1>1, <2>3, <2>4 DEF Question
  <2>6. n \in Question
    BY <2>4, <2>5 DEF Question
  <2>7. n.pc = "learn" /\ n.forced = TRUE /\ n.refused = minted /\ n.refusedAt = changes + 1
        /\ n.cause = r.cause
    BY <2>5 DEF Question
  <2> HIDE DEF n
  <2>8. Progress(n, changes, minted)
    BY <1>1, <2>7 DEF Progress, Exchanging
  <2>9. Unrotated => Calm(n, nonce)
    BY <1>1, <2>7 DEF Calm
  <2> QED BY <1>2, <2>1, <2>6, <2>8, <2>9, Quietly
<1>5. "unauthorized" \in Causes \ {"use_dpop_nonce"} /\ "step_up" \in Causes \ {"use_dpop_nonce"}
  BY DEF Causes
<1> QED BY <1>3, <1>4, <1>5 DEF Refused, Unauthorized

\* A step of a question.
LEMMA QuestionInv ==
    ASSUME IndInv, NEW i \in Questions,
           \/ Cached(i) \/ Learn(i) \/ Unreachable(i) \/ Resolve(i)
           \/ TokenHit(i) \/ Send(i) \/ ExchangeFails(i) \/ Handle(i)
           \/ Received(i) \/ Resend(i)
           \/ Answered(i) \/ Refused(i) \/ Lost(i)
    PROVE  IndInv'
<1>1. CASE Unreachable(i) \/ Lost(i)
  <2>1. CachesOK'
    BY <1>1, ThisQuestion, Kept DEF Unreachable, Lost
  <2> QED BY <1>1, <2>1, Fails DEF Unreachable, Lost, Causes
<1>2. CASE Send(i)
  <2>1. CachesOK'
    BY <1>2, DroppedOK DEF Send
  <2> QED BY <1>2, <2>1, SentInv DEF Send, At
<1>3. CASE Resend(i)
  <2>1. CachesOK'
    BY <1>3, ThisQuestion, Kept DEF Resend
  <2> QED BY <1>3, <2>1, SentInv DEF Resend, At
<1> QED BY <1>1, <1>2, <1>3, CachedInv, LearnInv, ResolveInv, TokenHitInv, ExchangeFailsInv, HandleInv,
           ReceivedInv, AnsweredInv, RefusedInv

\* A change of the servers: what was read before is as old as it is, and a nonce
\* that was replaced never returns.
LEMMA ChangeInv ==
    ASSUME IndInv, Redeploy \/ \E s \in Servers : Move(s) \/ RotateNonce(s)
    PROVE  IndInv'
<1>1. /\ changes \in Nat /\ changes' = changes + 1 /\ ServersOK
      /\ UNCHANGED <<minted, q, nonce>> /\ UNCHANGED caches
  BY DEF IndInv, TypeInv, ServersOK, Redeploy, Move, RotateNonce, Change
<1>2. ServersOK' /\ (Unrotated' => Unrotated)
  <2>1. CASE Redeploy
    <3>1. UNCHANGED curity
      BY <2>1 DEF Redeploy
    <3>2. server' \in [doc : Doc, key : Nat, demandsMfa : BOOLEAN]
      <4>1. ASSUME NEW doc \in Docs PROVE doc \in Doc
        <5>1. ASSUME NEW d \in Good
              PROVE  /\ d \in Doc
                     /\ \A s \in Foreign : [d EXCEPT !.as = s] \in Doc
                     /\ [d EXCEPT !.describes = FALSE] \in Doc
                     /\ [d EXCEPT !.scope = NoScope] \in Doc
          <6>1. d \in Doc /\ FALSE \in BOOLEAN /\ NoScope \in {"inspect:read", NoScope}
                /\ Foreign \subseteq Servers
            BY DEF Good, Servers
          <6>2. (\A s \in Foreign : [d EXCEPT !.as = s] \in Doc) /\ [d EXCEPT !.scope = NoScope] \in Doc
            BY <6>1 DEF Doc
          <6>3. \A b \in BOOLEAN : [d EXCEPT !.describes = b] \in Doc
            BY <6>1 DEF Doc
          <6>4. [d EXCEPT !.describes = FALSE] \in Doc
            BY <6>1, <6>3, Zenon
          <6> QED BY <6>1, <6>2, <6>4
        <5>2. \/ doc \in Good
              \/ \E d \in Good : \/ \E s \in Foreign : doc = [d EXCEPT !.as = s]
                                \/ doc = [d EXCEPT !.describes = FALSE]
                                \/ doc = [d EXCEPT !.scope = NoScope]
          BY Zenon DEF Docs
        <5> QED BY <5>1, <5>2, Zenon
      <4>2. TRUE \in BOOLEAN /\ changes + 1 \in Nat
        BY <1>1
      <4> QED BY <1>1, <2>1, <4>1, <4>2 DEF Redeploy, ServersOK
    <3> QED BY <1>1, <3>1, <3>2 DEF ServersOK, Unrotated
  <2>2. ASSUME NEW s \in Servers, Move(s) PROVE ServersOK' /\ (Unrotated' => Unrotated)
    <3>1. curity' = [curity EXCEPT ![s].endpoint.since = changes + 1] /\ UNCHANGED server
      BY <2>2 DEF Move
    <3>2. \A t \in Servers : curity'[t].nonce = curity[t].nonce
                              /\ curity'[t].endpoint.of = curity[t].endpoint.of
      BY <1>1, <3>1 DEF ServersOK, Endpoint
    <3>3. curity' \in [Servers -> [endpoint : Endpoint, nonce : Nat \ {0}]]
      <4>1. [curity[s] EXCEPT !.endpoint = [@ EXCEPT !.since = changes + 1]]
              \in [endpoint : Endpoint, nonce : Nat \ {0}]
        BY <1>1 DEF ServersOK, Endpoint
      <4> QED BY <1>1, <3>1, <4>1 DEF ServersOK
    <3> QED BY <1>1, <3>1, <3>2, <3>3 DEF ServersOK, Unrotated
  <2>3. ASSUME NEW s \in Servers, RotateNonce(s) PROVE ServersOK' /\ (Unrotated' => Unrotated)
    <3>1. curity' = [curity EXCEPT ![s].nonce = changes + 2] /\ UNCHANGED server
      BY <2>3 DEF RotateNonce
    <3>2. curity'[s].nonce # 1
      BY <1>1, <3>1 DEF ServersOK
    <3> QED BY <1>1, <3>1, <3>2 DEF ServersOK, Unrotated
  <2> QED BY <2>1, <2>2, <2>3
<1>3. TypeInv'
  BY <1>1, <1>2, Kept DEF IndInv, TypeInv
<1>4. \A i \in Questions : Progress(q[i], changes + 1, minted)
  BY <1>1 DEF IndInv, TypeInv, Question, Progress
<1> QED BY <1>1, <1>2, <1>3, <1>4 DEF IndInv

\* IndInv is inductive.
THEOREM Invariance == Spec => []IndInv
<1>1. IndInv /\ [Next]_vars => IndInv'
  <2> SUFFICES ASSUME IndInv, [Next]_vars PROVE IndInv'
    OBVIOUS
  <2>1. CASE UNCHANGED vars
    BY <2>1 DEF vars, caches, IndInv, TypeInv, ServersOK, CachesOK, Unrotated
  <2>2. ASSUME NEW i \in Questions, NEW u \in Users, Begin(i, u) PROVE IndInv'
    BY <2>2, BeginInv
  <2> QED BY <2>1, <2>2, QuestionInv, ChangeInv DEF Next
<1> QED BY <1>1, InitInv, PTL DEF Spec

\* A user's token is only ever sent to a trusted authorization server's own
\* endpoint, whatever the metadata say and whichever caches are hit.
THEOREM ExchangesTrusted == Spec => []ExchangesWithTrusted
<1>1. IndInv => ExchangesWithTrusted
  BY DEF IndInv, Progress, Discovery, ExchangesWithTrusted
<1> QED BY <1>1, Invariance, PTL

\* A 401 is answered with documents read and a token minted after it.
THEOREM ReacquiresFresh == Spec => []ReacquiredFresh
<1>1. IndInv => ReacquiredFresh
  BY DEF IndInv, Progress, Exchanging, ReacquiredFresh
<1> QED BY <1>1, Invariance, PTL

\* Unless Curity replaces its nonce, no exchange fails for it.
THEOREM NonceNeverFails == Spec => []NonceAloneNeverFails
<1>1. IndInv => NonceAloneNeverFails
  BY DEF IndInv, Unrotated, Calm, NonceAloneNeverFails
<1> QED BY <1>1, Invariance, PTL
=============================================================================
