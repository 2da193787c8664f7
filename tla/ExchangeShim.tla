---------------------------- MODULE ExchangeShim ----------------------------
(***************************************************************************)
(* The gateway's exchange-shim (apps/exchange-shim): agentgateway calls it *)
(* for every request, and it answers with the caller's token exchanged     *)
(* for the route's audience.                                               *)
(*                                                                         *)
(* handleExchange runs in pieces between its awaits: the DPoP check (of a  *)
(* bound token), the cache lookup, the read of the actor SVID, the call of *)
(* Curity, and cache.set with the answer.  Calls run concurrently; the     *)
(* code from one await to the next is one action.  Up to the cache lookup  *)
(* the DPoP steps are those of DpopReplay, which this module extends.      *)
(*                                                                         *)
(* Left out: calls refused before any state is touched (missing headers,   *)
(* a bound token without a proof, an audience that is not on the list).    *)
(***************************************************************************)
EXTENDS DpopReplay

CONSTANTS Callers,      \* caller tokens (aud=mcp-gateway), as byte strings
          Bound,        \* those with a cnf.jkt
          Auds,         \* target audiences of the routes
          NoProof,      \* stands for the absent proof of an unbound caller
          Life,         \* lifetime of an exchanged token (expires_in)
          Ttl,          \* EXCHANGE_CACHE_TTL_SECONDS
          Skew,         \* skewSeconds
          CacheMax,     \* EXCHANGE_CACHE_MAX_ENTRIES
          MaxLatency    \* longest time between Curity's minting and our reading of it

(***************************************************************************)
(* Deployed values: Life 600, Ttl 60, Skew 30; the HTTP client gives up    *)
(* after 300 s.                                                            *)
(***************************************************************************)
ASSUME ShimAssumption ==
    /\ Targets = Callers \X Auds
    /\ Bound \subseteq Callers
    /\ NoProof \notin Proofs
    /\ Life \in Nat /\ Ttl \in Nat \ {0} /\ Skew \in Nat /\ MaxLatency \in Nat
    /\ CacheMax \in Nat \ {0}
    /\ MaxLatency < Life
    /\ MaxLatency <= Skew \/ MaxLatency + Ttl <= Life

VARIABLES call,     \* per worker: the call being handled
          store,    \* ExchangeCache.store; `rank` is the position in the Map's order
          answer,   \* history: the latest 200 answer, if any
          used,     \* history: proofs that got an answer
          reused    \* history: proofs that got more than one

shimVars == <<call, store, answer, used, reused>>
allVars == <<clock, iat, run, seen, accepted, again, refused, evicted,
             call, store, answer, used, reused>>

Token == [from : Callers, aud : Auds, exp : Nat]
Call == [stage : {"proof", "svid", "curity"}, caller : Callers, aud : Auds,
         proof : Proofs \cup {NoProof}]
Minted == [stage : {"reply"}, caller : Callers, aud : Auds,
           proof : Proofs \cup {NoProof}, tok : Token]
NoCall == [stage |-> "idle"]
-----------------------------------------------------------------------------
(***************************************************************************)
(* ExchangeCache.                                                          *)
(***************************************************************************)

\* Mutant of KeyOf: the caller token is left out of the key.
KeyOf_audience(c, a) == <<a, a>>

\* keyOf(callerToken, audience).
KeyOf(c, a) == <<c, a>>

Ranked(S) == {[e EXCEPT !.rank = Cardinality({f \in S : f.rank < e.rank})] : e \in S}

\* store.delete(k) and store.set(k, e): e moves to the end of the Map.
Put(S, e) ==
    LET rest == Ranked({f \in S : f.key # e.key})
    IN  rest \cup {[e EXCEPT !.rank = Cardinality(rest)]}

\* while (size > maxEntries) delete the oldest.
Trim(S) == {e \in S : e.rank + CacheMax >= Cardinality(S)}

\* Mutant of ReuseUntil: the skew is added, and the longer of the two windows used.
ReuseUntil_longer(now) == now + (IF Ttl < Life + Skew THEN Life + Skew ELSE Ttl)

\* now + Math.min(ttlMs, lifetimeMs), the time the entry stops being served.
ReuseUntil(now) == now + (IF Ttl < Life - Skew THEN Ttl ELSE Life - Skew)

\* ExchangeCache.set at the present time.
Stored(c, a, tok) ==
    IF Life <= Skew THEN store
    ELSE Trim(Put(store, [key |-> KeyOf(c, a), tok |-> tok,
                          reuseUntil |-> ReuseUntil(clock), rank |-> 0]))

Hits(c, a) == {e \in store : e.key = KeyOf(c, a) /\ clock < e.reuseUntil}
-----------------------------------------------------------------------------
(***************************************************************************)
(* handleExchange.                                                         *)
(***************************************************************************)

\* A 200 answer with token tok.
Answer(w, c, a, p, tok) ==
    /\ answer' = {[caller |-> c, aud |-> a, proof |-> p, tok |-> tok, at |-> clock]}
    /\ used' = used \cup ({p} \ {NoProof})
    /\ reused' = reused \cup (used \cap {p})
    /\ call' = [call EXCEPT ![w] = NoCall]

\* cache.get, and from there the answer or the read of the SVID.  An entry that
\* is due is deleted.
Lookup(w, c, a, p) ==
    \/ \E e \in Hits(c, a) :
          /\ store' = Put(store, e)
          /\ Answer(w, c, a, p, e.tok)
    \/ /\ Hits(c, a) = {}
       /\ store' = {e \in store : e.key # KeyOf(c, a)}
       /\ call' = [call EXCEPT ![w] = [stage |-> "svid", caller |-> c, aud |-> a, proof |-> p]]
       /\ UNCHANGED <<answer, used, reused>>

\* Mutant of CallBound: the cache is asked before the proof is checked.
CallBound_cacheFirst(w, c, a, p) ==
    /\ call[w] = NoCall
    /\ c \in Bound
    /\ \/ /\ Hits(c, a) # {}
          /\ Lookup(w, c, a, p)
          /\ UNCHANGED dpopVars
       \/ /\ Hits(c, a) = {}
          /\ Begin(w, p, <<c, a>>)
          /\ call' = [call EXCEPT ![w] = [stage |-> "proof", caller |-> c, aud |-> a, proof |-> p]]
          /\ UNCHANGED <<store, answer, used, reused>>

\* A call with a bound token: the proof is checked first.
CallBound(w, c, a, p) ==
    /\ call[w] = NoCall
    /\ c \in Bound
    /\ Begin(w, p, <<c, a>>)
    /\ call' = [call EXCEPT ![w] = [stage |-> "proof", caller |-> c, aud |-> a, proof |-> p]]
    /\ UNCHANGED <<store, answer, used, reused>>

\* A call with an unbound token goes straight to the cache.
CallUnbound(w, c, a) ==
    /\ call[w] = NoCall
    /\ c \notin Bound
    /\ Lookup(w, c, a, NoProof)
    /\ UNCHANGED dpopVars

\* Mutant of ProofRejected: a replayed proof leaves the call unanswered.
ProofRejected_notReplayed(w) ==
    /\ call[w].stage = "proof"
    /\ Reject(w)
    /\ call' = [call EXCEPT ![w] = NoCall]
    /\ UNCHANGED <<store, answer, used, reused>>

\* verifyDpopProof throws: 401.
ProofRejected(w) ==
    /\ call[w].stage = "proof"
    /\ Reject(w) \/ Refuse(w)
    /\ call' = [call EXCEPT ![w] = NoCall]
    /\ UNCHANGED <<store, answer, used, reused>>

\* verifyDpopProof returns: on to the cache.
ProofAccepted(w) ==
    /\ call[w].stage = "proof"
    /\ Accept(w)
    /\ Lookup(w, call[w].caller, call[w].aud, call[w].proof)

\* The SVID file is missing, Curity refuses, or the request fails: 403, and
\* nothing is cached.
GiveUp(w) ==
    /\ call[w].stage \in {"svid", "curity"}
    /\ call' = [call EXCEPT ![w] = NoCall]
    /\ UNCHANGED <<store, answer, used, reused>>
    /\ UNCHANGED dpopVars

\* getSvidJwt returns and the request goes out.
SvidRead(w) ==
    /\ call[w].stage = "svid"
    /\ call' = [call EXCEPT ![w].stage = "curity"]
    /\ UNCHANGED <<store, answer, used, reused>>
    /\ UNCHANGED dpopVars

\* Curity mints the token; its answer is on the way.
CurityMints(w) ==
    /\ call[w].stage = "curity"
    /\ call' = [call EXCEPT ![w] =
                  [stage |-> "reply", caller |-> call[w].caller, aud |-> call[w].aud,
                   proof |-> call[w].proof,
                   tok |-> [from |-> call[w].caller, aud |-> call[w].aud,
                            exp |-> clock + Life]]]
    /\ UNCHANGED <<store, answer, used, reused>>
    /\ UNCHANGED dpopVars

\* exchange returns: cache.set, then the answer.
Reply(w) ==
    /\ call[w].stage = "reply"
    /\ store' = Stored(call[w].caller, call[w].aud, call[w].tok)
    /\ Answer(w, call[w].caller, call[w].aud, call[w].proof, call[w].tok)
    /\ UNCHANGED dpopVars

\* Time passes; an answer of Curity is read within MaxLatency.
Elapse ==
    /\ \A w \in Workers : call[w].stage = "reply" =>
          clock + Life < call[w].tok.exp + MaxLatency
    /\ Tick
    /\ UNCHANGED shimVars
-----------------------------------------------------------------------------
ShimInit ==
    /\ Init
    /\ call = [w \in Workers |-> NoCall]
    /\ store = {}
    /\ answer = {}
    /\ used = {}
    /\ reused = {}

\* A step of the handler of the call of worker w.
Handle(w) ==
    \/ ProofRejected(w)
    \/ ProofAccepted(w)
    \/ GiveUp(w)
    \/ SvidRead(w)
    \/ CurityMints(w)
    \/ Reply(w)

ShimNext ==
    \/ \E w \in Workers, c \in Callers, a \in Auds, p \in Proofs : CallBound(w, c, a, p)
    \/ \E w \in Workers, c \in Callers, a \in Auds : CallUnbound(w, c, a)
    \/ \E w \in Workers : Handle(w)
    \/ Elapse

ShimSpec == ShimInit /\ [][ShimNext]_allVars

(***************************************************************************)
(* The event loop runs every continuation that is ready, and a request to  *)
(* Curity ends with an answer, an error or the client's timeout.           *)
(***************************************************************************)
FairShimSpec == ShimSpec /\ \A w \in Workers : WF_allVars(Handle(w))
-----------------------------------------------------------------------------
\* DPoP before the cache: an answer for a bound token goes only to a call whose
\* own proof, made for this very token and route, was accepted; and one proof
\* gets one answer unless the replay cache evicted it or its window had closed.
ProofOfPossession ==
    /\ \A r \in answer : r.caller \in Bound =>
          r.proof \in accepted /\ ProofFor[r.proof] = <<r.caller, r.aud>>
    /\ \A p \in reused : p \in evicted \/ clock >= Until(p)

\* The cache never mixes decisions up: what is answered was minted from this
\* caller token for this audience, however lookups, evictions and concurrent
\* misses interleave.
AnswerIsOwn ==
    \A r \in answer : r.tok.from = r.caller /\ r.tok.aud = r.aud

\* A token is still valid when it is handed out, although the entry's lifetime
\* is counted from cache.set and not from the minting, and a decision of Curity is
\* handed out for less than Ttl after it was received.
AnswerAlive ==
    \A r \in answer :
        /\ r.at < r.tok.exp
        /\ r.at + Life < r.tok.exp + MaxLatency + Ttl

\* Every call of the shim is answered.
EveryCallAnswered ==
    \A w \in Workers : call[w].stage # "idle" ~> call[w].stage = "idle"
=============================================================================
