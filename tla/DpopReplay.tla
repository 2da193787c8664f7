----------------------------- MODULE DpopReplay -----------------------------
(***************************************************************************)
(* DPoP proofs at the gateway's exchange-shim                              *)
(* (packages/auth-curity/src/dpop.ts).                                     *)
(*                                                                         *)
(* verifyDpopProof reads the clock once, awaits the signature check, and   *)
(* only then compares `iat` with that reading and asks DpopReplayCache     *)
(* whether the jti is new.  Several verifications are in flight at a time, *)
(* so a verification may finish long after its reading of the clock.       *)
(*                                                                         *)
(* A proof is identified with its jti (a random UUID).  ProofFor[p] stands *)
(* for everything else it commits to: key, method, URL and access token.   *)
(* The checks of signature, thumbprint, htm, htu and ath succeed exactly   *)
(* when that is what the request is.                                       *)
(***************************************************************************)
EXTENDS Naturals, FiniteSets

CONSTANTS Workers,      \* concurrent calls of the shim
          Proofs,       \* proof JWTs
          Targets,      \* (key, method, URL, access token) of a request
          ProofFor,     \* the target each proof was made for
          MaxAge,       \* maxAgeSec: how far iat may be from now, either way
          MaxEntries,   \* maxEntries of the replay cache
          MaxIat,       \* bound: latest issue time of a proof
          MaxTime       \* bound: the clock stops here

ASSUME DpopAssumption ==
    /\ ProofFor \in [Proofs -> Targets]
    /\ MaxAge \in Nat
    /\ MaxEntries \in Nat \ {0}
    /\ MaxIat \in Nat
    /\ MaxTime \in Nat

VARIABLES clock,      \* Date.now()
          iat,        \* issue time of each proof, by the signer's clock
          run,        \* per worker: the verification in flight, or Idle
          seen,       \* DpopReplayCache.seen; `at` is the position in the Map's order
          accepted,   \* history: proofs accepted at least once
          again,      \* history: the latest repeated acceptance, with its time
          refused,    \* history: the proof last refused as replayed
          evicted     \* history: proofs forgotten for lack of room

dpopVars == <<clock, iat, run, seen, accepted, again, refused, evicted>>

Idle == [busy |-> FALSE]
Verification == [busy : {TRUE}, proof : Proofs, target : Targets, now : Nat]
Entry == [jti : Proofs, until : Nat, at : Nat]
-----------------------------------------------------------------------------
\* The end of a proof's acceptance window.
Until(p) == iat[p] + MaxAge

\* Math.abs(now - iat) <= maxAge.
InWindow(p, now) == iat[p] <= now + MaxAge /\ now <= Until(p)

\* Mutant of Remembered: looks for any proof of the same request.
Remembered_byTarget(p, now) == \E e \in seen : ProofFor[e.jti] = ProofFor[p] /\ e.until > now

\* remember() finds the jti unexpired.
Remembered(p, now) == \E e \in seen : e.jti = p /\ e.until > now

\* Mutant of Live: drops entries one instant before they are due.
Live_early(now) == {e \in seen : e.until > now + 1}

\* remember() first drops every entry that is due...
Live(now) == {e \in seen : e.until > now}

\* Mutant of Kept: makes room for one entry too many.
Kept_short(live) ==
    {e \in live : Cardinality({f \in live : f.at > e.at}) + 2 < MaxEntries}

\* ...then the oldest ones, until there is room for one more.
Kept(live) == {e \in live : Cardinality({f \in live : f.at > e.at}) + 1 < MaxEntries}

\* The positions that remain, counted from 0.
Renumbered(S) == {[e EXCEPT !.at = Cardinality({f \in S : f.at < e.at})] : e \in S}

(***************************************************************************)
(* The verification of one proof.                                          *)
(***************************************************************************)

\* verifyDpopProof reads the clock and awaits jwtVerify.
Begin(w, p, t) ==
    /\ run[w] = Idle
    /\ run' = [run EXCEPT ![w] = [busy |-> TRUE, proof |-> p, target |-> t, now |-> clock]]
    /\ UNCHANGED <<clock, iat, seen, accepted, again, refused, evicted>>

Passes(r) == ProofFor[r.proof] = r.target /\ InWindow(r.proof, r.now)

\* The proof is not for this request, or its iat is outside the window.
Reject(w) ==
    /\ run[w].busy
    /\ ~Passes(run[w])
    /\ run' = [run EXCEPT ![w] = Idle]
    /\ UNCHANGED <<clock, iat, seen, accepted, again, refused, evicted>>

\* remember() returns false.
Refuse(w) ==
    /\ run[w].busy
    /\ Passes(run[w])
    /\ Remembered(run[w].proof, run[w].now)
    /\ refused' = {run[w].proof}
    /\ run' = [run EXCEPT ![w] = Idle]
    /\ UNCHANGED <<clock, iat, seen, accepted, again, evicted>>

\* remember() purges, evicts, stores the jti and returns true.
Accept(w) ==
    LET p    == run[w].proof
        live == Live(run[w].now)
        kept == Kept(live)
    IN  /\ run[w].busy
        /\ Passes(run[w])
        /\ ~Remembered(p, run[w].now)
        /\ seen' = Renumbered(kept) \cup
                   {[jti |-> p, until |-> Until(p), at |-> Cardinality(kept)]}
        /\ evicted' = evicted \cup {e.jti : e \in live \ kept}
        /\ accepted' = accepted \cup {p}
        /\ again' = IF p \in accepted THEN {[proof |-> p, at |-> clock]} ELSE again
        /\ run' = [run EXCEPT ![w] = Idle]
        /\ UNCHANGED <<clock, iat, refused>>

Tick ==
    /\ clock < MaxTime
    /\ clock' = clock + 1
    /\ UNCHANGED <<iat, run, seen, accepted, again, refused, evicted>>
-----------------------------------------------------------------------------
Init ==
    /\ clock = 0
    /\ iat \in [Proofs -> 0 .. MaxIat]
    /\ run = [w \in Workers |-> Idle]
    /\ seen = {}
    /\ accepted = {}
    /\ again = {}
    /\ refused = {}
    /\ evicted = {}

Next ==
    \/ \E w \in Workers, p \in Proofs, t \in Targets : Begin(w, p, t)
    \/ \E w \in Workers : Reject(w)
    \/ \E w \in Workers : Refuse(w)
    \/ \E w \in Workers : Accept(w)
    \/ Tick

Spec == Init /\ [][Next]_dpopVars
-----------------------------------------------------------------------------
\* The types of the state; in particular a verification never holds a reading
\* of the clock from the future.
TypeOK ==
    /\ clock \in Nat
    /\ iat \in [Proofs -> Nat]
    /\ run \in [Workers -> {Idle} \cup Verification]
    /\ \A w \in Workers : run[w].busy => run[w].now <= clock
    /\ seen \subseteq Entry
    /\ accepted \subseteq Proofs
    /\ again \subseteq [proof : Proofs, at : Nat]
    /\ refused \subseteq Proofs
    /\ evicted \subseteq Proofs

\* At most once: while its window is open a proof is accepted a second time only
\* if the cache had to forget it for lack of room.  Purges by other, later
\* verifications and stale readings of the clock do not break this.  The window is
\* open up to its closing instant iat + maxAge and not at it: verifyDpopProof
\* accepts a proof at that instant, when the cache no longer remembers it.
NoReplayInWindow ==
    \A r \in again : r.proof \in evicted \/ r.at >= Until(r.proof)

\* The cache forgets a live jti only when it is full: as long as no more than
\* maxEntries proofs were accepted, nothing is evicted, and the cache never
\* outgrows maxEntries.
EvictsOnlyWhenFull ==
    /\ Cardinality(accepted) <= MaxEntries => evicted = {}
    /\ Cardinality(seen) <= MaxEntries

\* A proof is refused as replayed only if it was accepted before: a fresh jti
\* never collides with what the cache remembers.
NoFalseReplay == refused \subseteq accepted
=============================================================================
