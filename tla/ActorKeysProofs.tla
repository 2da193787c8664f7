-------------------------- MODULE ActorKeysProofs ---------------------------
(***************************************************************************)
(* Proofs about ActorKeys, for every number of threads and keys and every  *)
(* floor, latency, lifetime and skew.                                      *)
(*                                                                         *)
(* The properties speak of the verdict a step gives.  They follow from     *)
(* what is true of a key set on its way from the provider to the verdict:  *)
(* what it lacks was published after the fetch began, and what it has in   *)
(* excess signed nothing that is still accepted.                           *)
(***************************************************************************)
EXTENDS ActorKeys, TLAPS

\* Every known key is served, or so old that its SVIDs are no longer accepted.
Known(kids) ==
    \A k \in kids : \/ \E p \in published : p.key = k
                    \/ k < signing /\ clock >= retired[k] + Ttl + Skew

\* No token outlives by more than Ttl the time at which its key signed.
Timely(tok) ==
    \/ tok.key = Unknown
    \/ tok.key = signing /\ tok.exp <= clock + Ttl
    \/ tok.key < signing /\ tok.exp <= retired[tok.key] + Ttl

\* A key that a cached key set lacks was published at most Latency before the
\* date of the set.
CacheInv(c) ==
    /\ c.built =>
          /\ c.fetchedAt <= clock
          /\ \A p \in published : p.key \in c.kids \/ c.fetchedAt <= p.at + Latency
    /\ Known(c.kids)
    /\ \A t \in c.prev : c.fetchedAt - t >= Floor

\* A fetch began once the floor was over and has not taken longer than Latency;
\* a key that its answer lacks was published after it began.
ReqInv(c, r) ==
    /\ r.pc # "idle" =>
          /\ r.from <= clock /\ clock <= r.from + Latency
          /\ c.built => c.fetchedAt + Floor <= r.from
    /\ r.pc = "body" => \A p \in published : p.key \in r.body \/ r.from <= p.at
    /\ Known(r.body)
    /\ Timely(r.tok)

\* The inductive invariant.
IndInv ==
    /\ TypeOK
    /\ \A p \in published : p.at <= clock
    /\ Timely(svid)
    /\ \A th \in Threads : CacheInv(cache[th]) /\ ReqInv(cache[th], req[th])
    /\ RotationHeals
    /\ AcceptedIsServed
-----------------------------------------------------------------------------
\* A step of SPIRE or of the clock as the threads see it.
Outside ==
    /\ clock' >= clock /\ signing' >= signing
    /\ \A k \in Keys : k < signing => retired'[k] = retired[k]
    /\ signing' > signing => retired'[signing] = clock
    /\ \A p \in published : \/ p \in published'
                            \/ p.key < signing /\ clock' >= retired[p.key] + Ttl + Skew
    /\ \A p \in published' : p \in published \/ p.at >= clock
    /\ cache' = cache /\ req' = req

\* Outside steps keep what is known of a key set and of a token.
LEMMA OutsideKeeps ==
    ASSUME TypeOK, TypeOK', Outside
    PROVE  /\ \A S \in SUBSET Keys : Known(S) => Known(S)'
           /\ \A tok \in Svid : Timely(tok) => Timely(tok)'
<1> USE TimesAssumption, BoundsAssumption
<1>1. ASSUME NEW S \in SUBSET Keys, Known(S) PROVE Known(S)'
  <2> SUFFICES ASSUME NEW k \in S
               PROVE  \/ \E p \in published' : p.key = k
                      \/ k < signing' /\ clock' >= retired'[k] + Ttl + Skew
    BY DEF Known
  <2>1. k \in Keys /\ k \in Nat /\ retired[k] \in Nat /\ clock \in Nat /\ clock' \in Nat
        /\ signing \in Nat /\ signing' \in Nat
    BY DEF TypeOK, Keys
  <2>2. CASE \E p \in published : p.key = k
    BY <2>1, <2>2 DEF Outside
  <2>3. CASE k < signing /\ clock >= retired[k] + Ttl + Skew
    BY <2>1, <2>3 DEF Outside
  <2> QED BY <1>1, <2>2, <2>3 DEF Known
<1>2. ASSUME NEW tok \in Svid, Timely(tok) PROVE Timely(tok)'
  <2>1. /\ tok.key \in Nat /\ tok.exp \in Nat /\ signing \in Keys
        /\ clock \in Nat /\ clock' \in Nat /\ signing \in Nat /\ signing' \in Nat
        /\ tok.key # Unknown => tok.key \in Keys
        /\ \A k \in Keys : retired[k] \in Nat
    <3>1. clock \in Nat /\ clock' \in Nat /\ signing \in Keys /\ signing' \in Keys
      BY DEF TypeOK
    <3>2. \A k \in Keys : retired[k] \in Nat
      BY DEF TypeOK
    <3>3. tok.key \in Keys \cup {Unknown} /\ tok.exp \in Nat
      BY DEF Svid
    <3>4. Unknown \in Nat /\ Keys \subseteq Nat
      BY DEF Unknown, Keys
    <3> HIDE DEF Keys, Unknown
    <3> QED BY <3>1, <3>2, <3>3, <3>4
  <2>2. CASE tok.key = signing /\ tok.exp <= clock + Ttl
    <3>1. CASE signing' = signing
      BY <2>1, <2>2, <3>1 DEF Outside, Timely
    <3>2. CASE signing' > signing
      BY <2>1, <2>2, <3>2 DEF Outside, Timely
    <3> QED BY <2>1, <3>1, <3>2 DEF Outside
  <2>3. CASE tok.key < signing /\ tok.exp <= retired[tok.key] + Ttl
    <3>1. CASE tok.key = Unknown
      BY <3>1 DEF Timely
    <3>2. CASE tok.key # Unknown
      BY <2>1, <2>3, <3>2 DEF Outside, Timely
    <3> QED BY <3>1, <3>2
  <2> QED BY <1>2, <2>2, <2>3 DEF Timely
<1> QED BY <1>1, <1>2

\* The step of SPIRE or of the clock keeps the invariant.
LEMMA OutsideStep ==
    ASSUME IndInv, TypeOK', Outside, last' = NoVerdict,
           \A p \in published' : p.at <= clock',
           Timely(svid)',
           \A th \in Threads : req[th].pc # "idle" => clock' <= req[th].from + Latency
    PROVE  IndInv'
<1> USE TimesAssumption, BoundsAssumption
<1>1. /\ \A S \in SUBSET Keys : Known(S) => Known(S)'
      /\ \A tok \in Svid : Timely(tok) => Timely(tok)'
  BY OutsideKeeps DEF IndInv
<1>2. ASSUME NEW th \in Threads PROVE CacheInv(cache[th])' /\ ReqInv(cache[th], req[th])'
  <2>1. /\ cache[th] \in [built : BOOLEAN, kids : SUBSET Keys, fetchedAt : Nat, prev : SUBSET Nat]
        /\ req[th] \in [pc : {"idle", "fetch", "body"}, tok : Svid, from : Nat, body : SUBSET Keys]
        /\ cache'[th] = cache[th] /\ req'[th] = req[th]
        /\ clock \in Nat /\ clock' \in Nat
        /\ published \subseteq [key : Keys, at : Nat] /\ published' \subseteq [key : Keys, at : Nat]
    BY DEF IndInv, TypeOK, Outside
  <2>2. Known(cache[th].kids)' /\ Known(req[th].body)' /\ Timely(req[th].tok)'
    BY <1>1, <2>1 DEF IndInv, CacheInv, ReqInv
  <2>3. CacheInv(cache[th])'
    BY <2>1, <2>2 DEF IndInv, CacheInv, Outside
  <2>4. ReqInv(cache[th], req[th])'
    BY <2>1, <2>2 DEF IndInv, ReqInv, Outside
  <2> QED BY <2>3, <2>4
<1>3. RotationHeals' /\ AcceptedIsServed'
  BY DEF RotationHeals, AcceptedIsServed, NoVerdict
<1> QED BY <1>2, <1>3 DEF IndInv

\* The step of one thread keeps the invariant if the thread's new state obeys it.
LEMMA ThreadStep ==
    ASSUME IndInv, TypeOK', UNCHANGED <<clock, signing, retired, published, svid>>,
           NEW th \in Threads, NEW c, NEW r,
           cache' = [cache EXCEPT ![th] = c], req' = [req EXCEPT ![th] = r],
           CacheInv(c), ReqInv(c, r), RotationHeals', AcceptedIsServed'
    PROVE  IndInv'
<1>1. ASSUME NEW t \in Threads PROVE CacheInv(cache[t])' /\ ReqInv(cache[t], req[t])'
  <2>1. /\ cache'[t] = IF t = th THEN c ELSE cache[t]
        /\ req'[t] = IF t = th THEN r ELSE req[t]
    BY DEF IndInv, TypeOK
  <2>2. CacheInv(cache'[t]) /\ ReqInv(cache'[t], req'[t])
    BY <2>1 DEF IndInv
  <2> QED BY <2>2 DEF CacheInv, ReqInv, Known, Timely
<1>2. Timely(svid)'
  BY DEF IndInv, Timely
<1> QED BY <1>1, <1>2 DEF IndInv
-----------------------------------------------------------------------------
\* Every step keeps the types.
LEMMA TypeStep == TypeOK /\ [Next]_vars => TypeOK'
<1> USE TimesAssumption, BoundsAssumption
<1> SUFFICES ASSUME TypeOK, [Next]_vars PROVE TypeOK'
  OBVIOUS
<1>0. NoToken \in Svid /\ NoVerdict \in [verdict : {"none", "ok", "refused", "server_error"}, tok : Svid]
  BY DEF NoToken, NoVerdict, Svid, Unknown
<1>1. CASE Spire
  <2>1. CASE Renew
    BY <1>0, <2>1 DEF Renew, TypeOK, Keys, Svid
  <2>2. CASE Rotate
    BY <1>0, <2>2 DEF Rotate, TypeOK, Keys
  <2>3. ASSUME NEW k \in Keys, Publish(k) PROVE TypeOK'
    BY <1>0, <2>3 DEF Publish, TypeOK
  <2>4. ASSUME NEW p \in published, Withdraw(p) PROVE TypeOK'
    BY <1>0, <2>4 DEF Withdraw, TypeOK
  <2> QED BY <1>1, <2>1, <2>2, <2>3, <2>4 DEF Spire
<1>2. ASSUME NEW th \in Threads, NEW tok \in Presented, Verify(th, tok) \/ Fetch(th, tok)
      PROVE  TypeOK'
  <2>1. tok \in Svid
    BY <1>0 DEF Presented, TypeOK
  <2>2. CASE Verify(th, tok)
    BY <2>1, <2>2 DEF Verify, Judge, TypeOK
  <2>3. CASE Fetch(th, tok)
    BY <1>0, <2>1, <2>3 DEF Fetch, TypeOK
  <2> QED BY <1>2, <2>2, <2>3
<1>3. ASSUME NEW th \in Threads, Body(th) \/ Store(th) \/ FetchFails(th) \/ Commit(th)
      PROVE  TypeOK'
  <2>1. req[th] \in [pc : {"idle", "fetch", "body"}, tok : Svid, from : Nat, body : SUBSET Keys]
    BY DEF TypeOK
  <2>2. CASE Body(th)
    <3>1. {p.key : p \in published} \subseteq Keys
      BY DEF TypeOK
    <3> QED BY <1>0, <2>1, <2>2, <3>1 DEF Body, TypeOK
  <2>3. CASE Store(th)
    BY <1>0, <2>1, <2>3 DEF Store, Stored, Judge, NoRequest, TypeOK
  <2>4. CASE FetchFails(th)
    BY <1>0, <2>1, <2>4 DEF FetchFails, NoRequest, TypeOK
  <2>5. CASE Commit(th)
    BY <1>0, <2>5 DEF Commit, NoCache, TypeOK
  <2> QED BY <1>3, <2>2, <2>3, <2>4, <2>5
<1>4. CASE Tick
  BY <1>0, <1>4 DEF Tick, TypeOK
<1>5. CASE UNCHANGED vars
  BY <1>5 DEF vars, TypeOK
<1> QED BY <1>1, <1>2, <1>3, <1>4, <1>5 DEF Next, Thread

\* SPIRE and the clock keep the invariant.
LEMMA SpireStep == IndInv /\ TypeOK' /\ (Spire \/ Tick) => IndInv'
<1> USE TimesAssumption, BoundsAssumption
<1> SUFFICES ASSUME IndInv, TypeOK', Spire \/ Tick PROVE IndInv'
  OBVIOUS
<1>0. /\ TypeOK /\ clock \in Nat /\ clock' \in Nat /\ signing \in Nat /\ signing' \in Nat
      /\ \A p \in published : p.at \in Nat /\ p.key \in Nat /\ p.key \in Keys
  <2>1. Keys \subseteq Nat
    BY DEF Keys
  <2> QED BY <2>1 DEF IndInv, TypeOK
<1>1. \A th \in Threads : req[th].pc # "idle" => clock <= req[th].from + Latency
  BY DEF IndInv, ReqInv
<1>2. CASE Renew
  <2>1. Outside
    BY <1>0, <1>2 DEF Renew, Outside
  <2>2. Timely(svid)'
    BY <1>0, <1>2 DEF Renew, Timely
  <2>3. \A p \in published' : p.at <= clock'
    BY <1>2 DEF Renew, IndInv
  <2> QED BY <1>1, <1>2, <2>1, <2>2, <2>3, OutsideStep DEF Renew
<1>3. ASSUME Outside, UNCHANGED svid PROVE Timely(svid)'
  <2>1. Timely(svid) /\ svid \in Svid
    BY DEF IndInv, TypeOK
  <2>2. \A tok \in Svid : Timely(tok) => Timely(tok)'
    BY <1>0, <1>3, OutsideKeeps
  <2> QED BY <1>3, <2>1, <2>2 DEF Timely
<1>4. CASE Rotate
  <2>1. Outside
    BY <1>0, <1>4 DEF Rotate, Outside, TypeOK, Keys
  <2>2. \A p \in published' : p.at <= clock'
    BY <1>4 DEF Rotate, IndInv
  <2> QED BY <1>1, <1>3, <1>4, <2>1, <2>2, OutsideStep DEF Rotate
<1>5. ASSUME NEW k \in Keys, Publish(k) PROVE IndInv'
  <2>1. Outside
    BY <1>0, <1>5 DEF Publish, Outside
  <2>2. \A p \in published' : p.at <= clock'
    BY <1>0, <1>5 DEF Publish, IndInv
  <2> QED BY <1>1, <1>3, <1>5, <2>1, <2>2, OutsideStep DEF Publish
<1>6. ASSUME NEW p \in published, Withdraw(p) PROVE IndInv'
  <2>1. Outside
    BY <1>0, <1>6 DEF Withdraw, Outside
  <2>2. \A q \in published' : q.at <= clock'
    BY <1>0, <1>6 DEF Withdraw, IndInv
  <2> QED BY <1>1, <1>3, <1>6, <2>1, <2>2, OutsideStep DEF Withdraw
<1>7. CASE Tick
  <2>1. Outside
    BY <1>0, <1>7 DEF Tick, Outside
  <2>2. \A p \in published' : p.at <= clock'
    BY <1>0, <1>7 DEF Tick, IndInv
  <2>3. \A th \in Threads : req[th].pc # "idle" => clock' <= req[th].from + Latency
    BY <1>0, <1>7 DEF Tick, TypeOK
  <2> QED BY <1>3, <1>7, <2>1, <2>2, <2>3, OutsideStep DEF Tick
<1> QED BY <1>2, <1>4, <1>5, <1>6, <1>7 DEF Spire

\* The verdict on a timely token with a key set of which every key is known.
LEMMA VerdictSound ==
    ASSUME TypeOK, TypeOK', UNCHANGED <<clock, published, signing>>,
           NEW tok \in Svid, NEW kids \in SUBSET Keys,
           Timely(tok), Known(kids), Judge(tok, kids),
           tok.key \notin kids =>
               \A p \in published : p.key = tok.key => clock < p.at + Floor + Latency
    PROVE  RotationHeals' /\ AcceptedIsServed'
<1> USE TimesAssumption, BoundsAssumption
<1>1. last' = [verdict |-> IF Accepts(tok, kids) THEN "ok" ELSE "refused", tok |-> tok]
  BY DEF Judge
<1>2. RotationHeals'
  BY <1>1 DEF RotationHeals, Accepts
<1>3. AcceptedIsServed'
  <2> SUFFICES ASSUME tok.key \in kids, clock < tok.exp + Skew
               PROVE  \E p \in published : p.key = tok.key
    BY <1>1 DEF AcceptedIsServed, Accepts
  <2>1. /\ tok.key \in Keys /\ tok.key \in Nat /\ tok.key # Unknown /\ tok.exp \in Nat
        /\ clock \in Nat /\ signing \in Nat /\ retired[tok.key] \in Nat
    BY DEF TypeOK, Keys, Svid, Unknown
  <2>2. CASE tok.key < signing /\ clock >= retired[tok.key] + Ttl + Skew
    BY <2>1, <2>2 DEF Timely
  <2> QED BY <2>2 DEF Known
<1> QED BY <1>2, <1>3

\* What clients present is timely.
LEMMA PresentedTimely ==
    ASSUME IndInv, NEW tok \in Presented PROVE tok \in Svid /\ Timely(tok)
BY DEF IndInv, TypeOK, Presented, NoToken, Timely, Svid, Unknown

\* The threads keep the invariant.
LEMMA ThreadsStep ==
    ASSUME IndInv, TypeOK', NEW th \in Threads, Thread(th) PROVE IndInv'
<1> USE TimesAssumption, BoundsAssumption
<1> DEFINE c == cache[th]
           r == req[th]
<1>0. /\ TypeOK /\ clock \in Nat
      /\ c \in [built : BOOLEAN, kids : SUBSET Keys, fetchedAt : Nat, prev : SUBSET Nat]
      /\ r \in [pc : {"idle", "fetch", "body"}, tok : Svid, from : Nat, body : SUBSET Keys]
      /\ \A p \in published : p.at \in Nat /\ p.key \in Keys /\ p.at <= clock
      /\ CacheInv(c) /\ ReqInv(c, r)
  BY DEF IndInv, TypeOK
<1>1. last' = NoVerdict => RotationHeals' /\ AcceptedIsServed'
  BY DEF RotationHeals, AcceptedIsServed, NoVerdict
<1>2. cache = [cache EXCEPT ![th] = c] /\ req = [req EXCEPT ![th] = r]
  BY <1>0 DEF TypeOK
<1>3. Known({}) /\ Timely(NoToken)
  BY DEF Known, Timely, NoToken
<1>4. ASSUME NEW tok \in Presented, Verify(th, tok) PROVE IndInv'
  <2>1. tok \in Svid /\ Timely(tok)
    BY PresentedTimely
  <2>2. tok.key \notin c.kids =>
            \A p \in published : p.key = tok.key => clock < p.at + Floor + Latency
    BY <1>0, <1>4 DEF Verify, Covers, Refreshed, CacheInv
  <2>3. Known(c.kids)
    BY <1>0 DEF CacheInv
  <2>4. RotationHeals' /\ AcceptedIsServed'
    BY <1>0, <1>4, <2>1, <2>2, <2>3, VerdictSound DEF Verify
  <2> QED BY <1>0, <1>2, <1>4, <2>4, ThreadStep DEF Verify
<1>5. ASSUME NEW tok \in Presented, Fetch(th, tok) PROVE IndInv'
  <2> DEFINE n == [pc |-> "fetch", tok |-> tok, from |-> clock, body |-> {}]
  <2>1. Timely(tok)
    BY PresentedTimely
  <2>2. ReqInv(c, n)
    BY <1>0, <1>3, <1>5, <2>1 DEF Fetch, Refreshed, ReqInv, CacheInv
  <2> HIDE DEF n
  <2>3. req' = [req EXCEPT ![th] = n]
    BY <1>5 DEF Fetch, n
  <2> QED BY <1>0, <1>1, <1>2, <1>5, <2>2, <2>3, ThreadStep DEF Fetch
<1>6. CASE Body(th)
  <2> DEFINE n == [r EXCEPT !.pc = "body", !.body = {p.key : p \in published}]
  <2>1. ReqInv(c, n)
    <3>1. /\ n.pc = "body" /\ n.tok = r.tok /\ n.from = r.from
          /\ n.body = {p.key : p \in published}
      BY <1>0
    <3>2. Known(n.body)
      BY <3>1 DEF Known
    <3> HIDE DEF n
    <3> QED BY <1>0, <1>6, <3>1, <3>2 DEF Body, ReqInv
  <2>2. req' = [req EXCEPT ![th] = n]
    BY <1>0, <1>6 DEF Body, TypeOK
  <2> HIDE DEF n
  <2> QED BY <1>0, <1>1, <1>2, <1>6, <2>1, <2>2, ThreadStep DEF Body
<1>7. CASE Store(th)
  <2> DEFINE n == Stored(c, r)
  <2>1. /\ n.built /\ n.kids = r.body /\ n.fetchedAt = clock
        /\ n.prev = IF c.built THEN {c.fetchedAt} ELSE {}
    BY DEF Stored
  <2>2. cache' = [cache EXCEPT ![th] = n] /\ req' = [req EXCEPT ![th] = NoRequest]
    BY <1>7 DEF Store
  <2> HIDE DEF n
  <2>3. /\ r.from <= clock /\ clock <= r.from + Latency /\ r.pc = "body"
        /\ c.built => c.fetchedAt + Floor <= r.from
        /\ \A p \in published : p.key \in r.body \/ r.from <= p.at
    BY <1>0, <1>7 DEF Store, ReqInv
  <2>4. CacheInv(n)
    <3>1. \A p \in published : p.key \in n.kids \/ n.fetchedAt <= p.at + Latency
      BY <1>0, <2>1, <2>3
    <3>2. \A t \in n.prev : n.fetchedAt - t >= Floor
      BY <1>0, <2>1, <2>3
    <3> QED BY <1>0, <2>1, <3>1, <3>2 DEF CacheInv, ReqInv
  <2>5. ReqInv(n, NoRequest)
    BY <1>3 DEF ReqInv, NoRequest
  <2>6. r.tok.key \notin r.body =>
            \A p \in published : p.key = r.tok.key => clock < p.at + Floor + Latency
    BY <1>0, <2>3
  <2>7. RotationHeals' /\ AcceptedIsServed'
    <3>1. r.tok \in Svid /\ r.body \in SUBSET Keys /\ Timely(r.tok) /\ Known(r.body)
      BY <1>0 DEF ReqInv
    <3>2. Judge(r.tok, r.body) /\ UNCHANGED <<clock, published, signing>>
      BY <1>7 DEF Store
    <3> QED BY <1>0, <2>6, <3>1, <3>2, VerdictSound
  <2> QED BY <1>7, <2>2, <2>4, <2>5, <2>7, ThreadStep DEF Store
<1>8. CASE FetchFails(th)
  <2>1. ReqInv(c, NoRequest)
    BY <1>3 DEF ReqInv, NoRequest
  <2>2. RotationHeals' /\ AcceptedIsServed'
    BY <1>8 DEF FetchFails, RotationHeals, AcceptedIsServed
  <2> QED BY <1>0, <1>2, <1>8, <2>1, <2>2, ThreadStep DEF FetchFails
<1>9. CASE Commit(th)
  <2>1. CacheInv(NoCache)
    BY <1>3 DEF CacheInv, NoCache
  <2>2. ReqInv(NoCache, r)
    BY <1>0, <1>9 DEF Commit, NoCache, ReqInv
  <2> QED BY <1>0, <1>1, <1>2, <1>9, <2>1, <2>2, ThreadStep DEF Commit
<1> QED BY <1>4, <1>5, <1>6, <1>7, <1>8, <1>9 DEF Thread

\* The invariant holds initially.
LEMMA Initially == Init => IndInv
<1> USE TimesAssumption, BoundsAssumption
<1> SUFFICES ASSUME Init PROVE IndInv
  OBVIOUS
<1>1. TypeOK
  BY DEF Init, TypeOK, Keys, Svid, NoCache, NoRequest, NoVerdict, NoToken, Unknown
<1>2. Timely(svid) /\ \A th \in Threads : CacheInv(cache[th]) /\ ReqInv(cache[th], req[th])
  BY DEF Init, Timely, CacheInv, ReqInv, Known, NoCache, NoRequest, NoToken
<1>3. RotationHeals /\ AcceptedIsServed
  BY DEF Init, RotationHeals, AcceptedIsServed, NoVerdict
<1> QED BY <1>1, <1>2, <1>3 DEF Init, IndInv

\* The invariant holds of every behaviour.
THEOREM Invariance == Spec => []IndInv
<1>1. IndInv /\ [Next]_vars => IndInv'
  <2> SUFFICES ASSUME IndInv, [Next]_vars PROVE IndInv'
    OBVIOUS
  <2>1. TypeOK'
    BY TypeStep DEF IndInv
  <2>2. CASE UNCHANGED vars
    BY <2>1, <2>2 DEF vars, IndInv, TypeOK, Timely, CacheInv, ReqInv, Known, RotationHeals, AcceptedIsServed
  <2> QED BY <2>1, <2>2, SpireStep, ThreadsStep DEF Next
<1> QED BY Initially, <1>1, PTL DEF Spec

\* The state always has its types.
THEOREM TypeCorrect == Spec => []TypeOK
<1>1. IndInv => TypeOK
  BY DEF IndInv
<1> QED BY Invariance, <1>1, PTL

\* Key rotation heals: getResolver refuses a genuine SVID only within the floor
\* and one fetch of the publication of its key, however the requests fall.
THEOREM RotationAlwaysHeals == Spec => []RotationHeals
<1>1. IndInv => RotationHeals
  BY DEF IndInv
<1> QED BY Invariance, <1>1, PTL

\* A cached key that the provider has withdrawn opens nothing: verifySpiffeSvid
\* accepts only SVIDs whose key is being served.
THEOREM OnlyServedKeysOpen == Spec => []AcceptedIsServed
<1>1. IndInv => AcceptedIsServed
  BY DEF IndInv
<1> QED BY Invariance, <1>1, PTL

\* No thread of Curity stores two key sets less than the floor apart.
THEOREM FloorHolds == Spec => []FetchRate
<1>1. IndInv => FetchRate
  BY DEF IndInv, CacheInv, FetchRate
<1> QED BY Invariance, <1>1, PTL
=============================================================================
