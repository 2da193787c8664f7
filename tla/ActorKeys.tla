------------------------------ MODULE ActorKeys ------------------------------
(***************************************************************************)
(* How Curity learns the keys that sign the actor tokens: the key cache of *)
(* the exchange procedure (JWKS_CACHE, getResolver and verifySpiffeSvid of *)
(* k8s/curity/procedures/token-exchange.js) while SPIRE rotates its        *)
(* signing key and clients present SVIDs and tokens of unknown keys.       *)
(*                                                                         *)
(* Each worker thread of Curity has a cache of its own and serves one      *)
(* request at a time.  A request that needs the key set waits for the      *)
(* answer of SPIRE's discovery provider; the set it gets is the one        *)
(* published when the provider answered, and is dated when it is stored.   *)
(***************************************************************************)
EXTENDS Naturals, FiniteSets

CONSTANTS Threads,   \* worker threads of Curity
          Floor,     \* JWKS_REFETCH_MIN_INTERVAL_MS
          Latency,   \* bound: duration of a fetch (the HTTP client's timeout)
          Ttl,       \* lifetime of an SVID (jwtTtl)
          Skew,      \* setAllowedClockSkewInSeconds
          MaxKey,    \* bound: keys SPIRE signs with, one after the other
          MaxTime    \* bound: the clock

ASSUME TimesAssumption ==
    Floor \in Nat \ {0} /\ Latency \in Nat /\ Ttl \in Nat \ {0} /\ Skew \in Nat
ASSUME BoundsAssumption == MaxKey \in Nat \ {0} /\ MaxTime \in Nat

VARIABLES clock,
          signing,    \* the key SPIRE signs SVIDs with
          retired,    \* when SPIRE stopped signing with each former key
          published,  \* keys the discovery provider serves, each with since when
          svid,       \* the SVID spiffe-helper wrote last
          cache,      \* JWKS_CACHE of each thread
          req,        \* the request each thread serves
          last        \* the verdict the step just taken gave

vars == <<clock, signing, retired, published, svid, cache, req, last>>
-----------------------------------------------------------------------------
Keys == 1 .. MaxKey
Unknown == 0   \* a kid SPIRE never used

\* An actor token: the kid of its header and its exp.
Svid == [key : Keys \cup {Unknown}, exp : Nat]

\* prev is history: when the key set before the present one was stored.
NoCache == [built |-> FALSE, kids |-> {}, fetchedAt |-> 0, prev |-> {}]
NoToken == [key |-> Unknown, exp |-> 0]
NoRequest == [pc |-> "idle", tok |-> NoToken, from |-> 0, body |-> {}]
NoVerdict == [verdict |-> "none", tok |-> NoToken]
-----------------------------------------------------------------------------
(***************************************************************************)
(* SPIRE.                                                                  *)
(***************************************************************************)

\* spiffe-helper rewrites the SVID file.
Renew ==
    /\ svid # [key |-> signing, exp |-> clock + Ttl]
    /\ svid' = [key |-> signing, exp |-> clock + Ttl]
    /\ UNCHANGED <<clock, signing, retired, published, cache, req>>
    /\ last' = NoVerdict

\* SPIRE signs with its next key, before or after the provider serves it.
Rotate ==
    /\ signing < MaxKey
    /\ signing' = signing + 1
    /\ retired' = [retired EXCEPT ![signing] = clock]
    /\ UNCHANGED <<clock, published, svid, cache, req>>
    /\ last' = NoVerdict

\* The provider's view of SPIRE's key set catches up.
Publish(k) ==
    /\ k <= signing + 1
    /\ \A p \in published : p.key < k
    /\ published' = published \cup {[key |-> k, at |-> clock]}
    /\ UNCHANGED <<clock, signing, retired, svid, cache, req>>
    /\ last' = NoVerdict

\* A former key is served until the SVIDs it signed are no longer accepted.
Withdraw(p) ==
    /\ p.key < signing
    /\ clock >= retired[p.key] + Ttl + Skew
    /\ published' = published \ {p}
    /\ UNCHANGED <<clock, signing, retired, svid, cache, req>>
    /\ last' = NoVerdict
-----------------------------------------------------------------------------
(***************************************************************************)
(* A worker thread.                                                        *)
(***************************************************************************)

\* Mutant of Accepts: exp is not required.
Accepts_withoutExp(tok, kids) == tok.key \in kids

\* verifySpiffeSvid: jose4j finds the key and the token has not expired.
Accepts(tok, kids) == tok.key \in kids /\ clock < tok.exp + Skew

Judge(tok, kids) ==
    last' = [verdict |-> IF Accepts(tok, kids) THEN "ok" ELSE "refused", tok |-> tok]

\* getResolver: the cached key set covers the kid.
Covers(c, tok) == c.built /\ tok.key \in c.kids

\* Mutant of Refreshed: a key set, once fetched, is never fetched again.
Refreshed_always(c) == c.built

\* getResolver: the key set was fetched moments ago.
Refreshed(c) == c.built /\ clock - c.fetchedAt < Floor

\* A request whose actor token is decided with the cached key set.
Verify(th, tok) ==
    /\ req[th].pc = "idle"
    /\ Covers(cache[th], tok) \/ Refreshed(cache[th])
    /\ Judge(tok, cache[th].kids)
    /\ UNCHANGED <<clock, signing, retired, published, svid, cache, req>>

\* A request that needs the key set: fetchJwks is called.
Fetch(th, tok) ==
    /\ req[th].pc = "idle"
    /\ ~Covers(cache[th], tok) /\ ~Refreshed(cache[th])
    /\ req' = [req EXCEPT ![th] = [pc |-> "fetch", tok |-> tok, from |-> clock, body |-> {}]]
    /\ UNCHANGED <<clock, signing, retired, published, svid, cache>>
    /\ last' = NoVerdict

\* The provider answers.
Body(th) ==
    /\ req[th].pc = "fetch"
    /\ req' = [req EXCEPT ![th].pc = "body", ![th].body = {p.key : p \in published}]
    /\ UNCHANGED <<clock, signing, retired, published, svid, cache>>
    /\ last' = NoVerdict

\* Mutant of Stored: only a key set that covers the kid restarts the floor.
Stored_ifCovered(c, r) ==
    [built |-> TRUE, kids |-> r.body, prev |-> IF c.built THEN {c.fetchedAt} ELSE {},
     fetchedAt |-> IF r.tok.key \in r.body THEN clock ELSE c.fetchedAt]

\* Mutant of Stored: the kid asked for counts as covered from now on.
Stored_withAsked(c, r) ==
    [built |-> TRUE, kids |-> r.body \cup {r.tok.key}, fetchedAt |-> clock,
     prev |-> IF c.built THEN {c.fetchedAt} ELSE {}]

\* getResolver: the cache after a fetch.
Stored(c, r) ==
    [built |-> TRUE, kids |-> r.body, fetchedAt |-> clock,
     prev |-> IF c.built THEN {c.fetchedAt} ELSE {}]

\* The key set has arrived: it is stored, and the token is verified with it.
Store(th) ==
    /\ req[th].pc = "body"
    /\ cache' = [cache EXCEPT ![th] = Stored(@, req[th])]
    /\ Judge(req[th].tok, req[th].body)
    /\ req' = [req EXCEPT ![th] = NoRequest]
    /\ UNCHANGED <<clock, signing, retired, published, svid>>

\* The provider cannot be reached, answers with an error or with no key set: the
\* client is not blamed, and the cache stays as it is, its date too.
FetchFails(th) ==
    /\ req[th].pc \in {"fetch", "body"}
    /\ last' = [verdict |-> "server_error", tok |-> req[th].tok]
    /\ req' = [req EXCEPT ![th] = NoRequest]
    /\ UNCHANGED <<clock, signing, retired, published, svid, cache>>

\* A config commit rebuilds the procedure, and with it the thread's scope.
Commit(th) ==
    /\ req[th].pc = "idle"
    /\ cache[th].built
    /\ cache' = [cache EXCEPT ![th] = NoCache]
    /\ UNCHANGED <<clock, signing, retired, published, svid, req>>
    /\ last' = NoVerdict

Tick ==
    /\ clock < MaxTime
    /\ \A th \in Threads : req[th].pc # "idle" => clock < req[th].from + Latency
    /\ clock' = clock + 1
    /\ last' = NoVerdict
    /\ UNCHANGED <<signing, retired, published, svid, cache, req>>
-----------------------------------------------------------------------------
Init ==
    /\ clock = 0
    /\ signing = 1
    /\ retired = [k \in Keys |-> 0]
    /\ published = {}
    /\ svid = [key |-> 1, exp |-> Ttl]
    /\ cache = [th \in Threads |-> NoCache]
    /\ req = [th \in Threads |-> NoRequest]
    /\ last = NoVerdict

\* What clients present: the workload's SVID, or a token with another kid.
Presented == {svid, NoToken}

Spire ==
    \/ Renew
    \/ Rotate
    \/ \E k \in Keys : Publish(k)
    \/ \E p \in published : Withdraw(p)

Thread(th) ==
    \/ \E tok \in Presented : Verify(th, tok)
    \/ \E tok \in Presented : Fetch(th, tok)
    \/ Body(th)
    \/ Store(th)
    \/ FetchFails(th)
    \/ Commit(th)

Next ==
    \/ Spire
    \/ \E th \in Threads : Thread(th)
    \/ Tick

Spec == Init /\ [][Next]_vars
-----------------------------------------------------------------------------
(***************************************************************************)
(* Properties.                                                             *)
(***************************************************************************)

\* The types of the state.
TypeOK ==
    /\ clock \in Nat /\ signing \in Keys
    /\ retired \in [Keys -> Nat]
    /\ published \subseteq [key : Keys, at : Nat]
    /\ svid \in Svid
    /\ cache \in [Threads -> [built : BOOLEAN, kids : SUBSET Keys, fetchedAt : Nat,
                              prev : SUBSET Nat]]
    /\ req \in [Threads -> [pc : {"idle", "fetch", "body"}, tok : Svid, from : Nat,
                            body : SUBSET Keys]]
    /\ last \in [verdict : {"none", "ok", "refused", "server_error"}, tok : Svid]

\* "Self-heals across SPIRE key rotation": a genuine SVID is refused only while
\* its key is new to the provider, for the floor and the duration of one fetch,
\* however the requests with unknown kids fall.  A key that is served that long
\* before it signs costs no request at all.
RotationHeals ==
    last.verdict = "refused" /\ last.tok.key # Unknown /\ clock < last.tok.exp + Skew =>
        \A p \in published : p.key = last.tok.key => clock < p.at + Floor + Latency

\* A thread that still knows a key the provider has withdrawn accepts nothing
\* with it: an accepted SVID is signed with a key that is being served.
AcceptedIsServed ==
    last.verdict = "ok" => \E p \in published : p.key = last.tok.key

\* The floor: two key sets a thread stores are at least the interval apart,
\* whatever kids the clients send.
FetchRate ==
    \A th \in Threads : \A t \in cache[th].prev : cache[th].fetchedAt - t >= Floor
=============================================================================
