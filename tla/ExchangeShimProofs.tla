------------------------- MODULE ExchangeShimProofs -------------------------
(***************************************************************************)
(* Proofs about the exchange behind the gateway.  First DpopReplay: any    *)
(* number of concurrent verifications, any window and any capacity of the  *)
(* replay cache.  Then ExchangeShim, whose steps are steps of DpopReplay,  *)
(* so that its invariant is an invariant of the shim as well: any callers, *)
(* routes, proofs and number of concurrent calls, and any lifetimes that   *)
(* ShimAssumption admits.                                                  *)
(***************************************************************************)
EXTENDS ExchangeShim, FiniteSetTheorems, WellFoundedInduction, TLAPS

\* Every entry stands for an accepted proof and lasts to the end of its window.
EntriesSound ==
    \A e \in seen : e.jti \in accepted /\ e.until = Until(e.jti)

\* An accepted proof is remembered while its window is open, or was evicted.
Recorded ==
    \A p \in accepted :
        \/ p \in evicted
        \/ clock >= Until(p)
        \/ \E e \in seen : e.jti = p

\* The inductive invariant.
IndInv ==
    /\ TypeOK /\ IsFiniteSet(seen)
    /\ EntriesSound /\ Recorded /\ NoReplayInWindow /\ NoFalseReplay

\* No two entries are for the same proof or at the same position.
Distinct(S) == \A e, f \in S : e.jti = f.jti \/ e.at = f.at => e = f

\* The second inductive invariant, about the size of the cache.
Room == Distinct(seen) /\ IsFiniteSet(accepted) /\ EvictsOnlyWhenFull

\* Idle differs from every verification in flight.
LEMMA IdleFacts == Idle.busy = FALSE /\ \A r \in Verification : r.busy = TRUE
BY DEF Idle, Verification

\* What is known of a verification in flight.
LEMMA InFlight ==
    ASSUME TypeOK, NEW w \in Workers, run[w].busy
    PROVE  /\ run[w] \in Verification
           /\ run[w].proof \in Proofs
           /\ run[w].now \in Nat
           /\ run[w].now <= clock
BY IdleFacts DEF TypeOK, Verification

\* Until is a natural number.
LEMMA UntilType ==
    ASSUME TypeOK, NEW p \in Proofs
    PROVE  Until(p) \in Nat
BY DpopAssumption DEF TypeOK, Until

\* A worker that goes idle, or reads the clock, keeps `run` well typed.
LEMMA RunType ==
    ASSUME TypeOK, clock' = clock, NEW w \in Workers,
           NEW r \in {Idle} \cup Verification, r.busy => r.now <= clock,
           run' = [run EXCEPT ![w] = r]
    PROVE  /\ run' \in [Workers -> {Idle} \cup Verification]
           /\ \A v \in Workers : run'[v].busy => run'[v].now <= clock'
BY DEF TypeOK

\* Renumbering a finite set of entries changes their positions only.
LEMMA RenumberedFacts ==
    ASSUME NEW S, IsFiniteSet(S), S \subseteq Entry
    PROVE  /\ \A e \in S : \E f \in Renumbered(S) : f.jti = e.jti
           /\ \A f \in Renumbered(S) : \E e \in S : f.jti = e.jti /\ f.until = e.until
           /\ Renumbered(S) \subseteq Entry
           /\ IsFiniteSet(Renumbered(S))
<1> DEFINE R(e) == [e EXCEPT !.at = Cardinality({f \in S : f.at < e.at})]
<1>1. ASSUME NEW e \in S
      PROVE  R(e) \in Entry /\ R(e).jti = e.jti /\ R(e).until = e.until
  <2>1. IsFiniteSet({f \in S : f.at < e.at})
    BY FS_Subset
  <2>2. Cardinality({f \in S : f.at < e.at}) \in Nat
    BY <2>1, FS_CardinalityType
  <2> QED BY <2>2 DEF Entry
<1>2. Renumbered(S) = {R(e) : e \in S}
  BY DEF Renumbered
<1> HIDE DEF R
<1>3. IsFiniteSet({R(e) : e \in S})
  <2> DEFINE fn == [e \in S |-> R(e)]
  <2>1. fn \in [S -> {R(e) : e \in S}]
    OBVIOUS
  <2>2. fn \in Surjection(S, {R(e) : e \in S})
    BY <2>1 DEF Surjection
  <2> QED BY <2>2, FS_Surjection
<1> QED BY <1>1, <1>2, <1>3

\* The invariant holds at the start.
LEMMA InitInv == Init => IndInv
<1> SUFFICES ASSUME Init PROVE IndInv
  OBVIOUS
<1>1. TypeOK
  BY DpopAssumption, IdleFacts DEF Init, TypeOK
<1> QED BY <1>1, FS_EmptySet DEF Init, IndInv, EntriesSound, Recorded, NoReplayInWindow, NoFalseReplay

\* A step that only changes `run` preserves the invariant.
LEMMA RunOnly ==
    ASSUME IndInv, NEW w \in Workers, NEW r \in {Idle} \cup Verification,
           r.busy => r.now <= clock, run' = [run EXCEPT ![w] = r],
           UNCHANGED <<clock, iat, seen, accepted, again, refused, evicted>>
    PROVE  IndInv'
<1>1. TypeOK'
  BY RunType DEF IndInv, TypeOK
<1> QED BY <1>1 DEF IndInv, EntriesSound, Recorded, NoReplayInWindow, NoFalseReplay, Until

\* Accepting a proof preserves the invariant: what was remembered and is still
\* within its window at the present is live at the earlier reading of the clock.
LEMMA AcceptInv ==
    ASSUME IndInv, NEW w \in Workers, Accept(w)
    PROVE  IndInv'
<1>0. PICK p, now : p = run[w].proof /\ now = run[w].now
  OBVIOUS
<1> DEFINE live == Live(now)
           kept == Kept(live)
           new == [jti |-> p, until |-> Until(p), at |-> Cardinality(kept)]
<1>1. TypeOK /\ IsFiniteSet(seen) /\ EntriesSound /\ Recorded /\ NoReplayInWindow /\ NoFalseReplay
  BY DEF IndInv
<1>2. p \in Proofs /\ now \in Nat /\ now <= clock /\ clock \in Nat
  BY <1>0, <1>1, InFlight DEF Accept, TypeOK
<1>3. /\ UNCHANGED <<clock, iat, refused>>
      /\ seen' = Renumbered(kept) \cup {new}
      /\ evicted' = evicted \cup {e.jti : e \in live \ kept}
      /\ accepted' = accepted \cup {p}
      /\ again' = IF p \in accepted THEN {[proof |-> p, at |-> clock]} ELSE again
      /\ run' = [run EXCEPT ![w] = Idle]
      /\ \A e \in seen : ~(e.jti = p /\ e.until > now)
  BY <1>0 DEF Accept, Remembered
<1>4. live \subseteq seen /\ kept \subseteq live /\ \A e \in seen : e.until > now => e \in live
  BY DEF Live, Kept
<1>5. \A q \in Proofs : Until(q)' = Until(q) /\ Until(q) \in Nat
  BY <1>1, <1>3, UntilType DEF Until
<1>a. IsFiniteSet(kept) /\ kept \subseteq Entry
  BY <1>1, <1>4, FS_Subset DEF TypeOK
<1>b. /\ \A e \in kept : \E f \in Renumbered(kept) : f.jti = e.jti
      /\ \A f \in Renumbered(kept) : \E e \in kept : f.jti = e.jti /\ f.until = e.until
      /\ Renumbered(kept) \subseteq Entry
      /\ IsFiniteSet(Renumbered(kept))
  BY <1>a, RenumberedFacts
<1>c. Cardinality(kept) \in Nat
  BY <1>a, FS_CardinalityType
<1> HIDE DEF live, kept
<1>6. TypeOK'
  <2>1. /\ run' \in [Workers -> {Idle} \cup Verification]
        /\ \A v \in Workers : run'[v].busy => run'[v].now <= clock'
    BY <1>1, <1>3, RunType, IdleFacts
  <2>2. new \in Entry
    BY <1>2, <1>5, <1>c DEF Entry
  <2>3. seen' \subseteq Entry
    BY <1>3, <1>b, <2>2
  <2>4. evicted' \subseteq Proofs
    BY <1>1, <1>3, <1>4 DEF TypeOK, Entry
  <2>5. again' \subseteq [proof : Proofs, at : Nat] /\ accepted' \subseteq Proofs
    BY <1>1, <1>2, <1>3 DEF TypeOK
  <2> QED BY <1>1, <1>2, <1>3, <2>1, <2>3, <2>4, <2>5 DEF TypeOK
<1>7. EntriesSound'
  <2>1. new.jti = p /\ new.until = Until(p)
    OBVIOUS
  <2>2. ASSUME NEW e \in seen' PROVE e.jti \in accepted' /\ e.until = Until(e.jti)'
    <3>1. CASE e = new
      BY <3>1, <2>1, <1>2, <1>3, <1>5
    <3>2. CASE e \in Renumbered(kept)
      <4>1. PICK f \in kept : e.jti = f.jti /\ e.until = f.until
        BY <3>2, <1>b
      <4>2. f \in seen /\ f.jti \in Proofs
        BY <4>1, <1>1, <1>4 DEF TypeOK, Entry
      <4> QED BY <4>1, <4>2, <1>1, <1>3, <1>5 DEF EntriesSound
    <3> QED BY <2>2, <3>1, <3>2, <1>3
  <2> QED BY <2>2 DEF EntriesSound
<1>8. Recorded'
  <2> SUFFICES ASSUME NEW q \in accepted', q \notin evicted', clock < Until(q)
               PROVE  \E e \in seen' : e.jti = q
    <3>1. \A q \in accepted' : q \in Proofs
      BY <1>6 DEF TypeOK
    <3> QED BY <3>1, <1>2, <1>3, <1>5 DEF Recorded
  <2>1. CASE q = p
    <3>1. new.jti = p /\ new \in seen'
      BY <1>3
    <3> QED BY <2>1, <3>1
  <2>2. CASE q # p
    <3>1. q \in accepted /\ q \notin evicted /\ q \in Proofs
      BY <2>2, <1>1, <1>3 DEF TypeOK
    <3>2. PICK e \in seen : e.jti = q
      BY <3>1, <1>1, <1>2, <1>5 DEF Recorded
    <3>3. e.until = Until(q)
      BY <3>2, <1>1 DEF EntriesSound
    <3>4. e.until > now
      BY <3>1, <3>3, <1>2, <1>5
    <3>5. e \in kept
      BY <3>2, <3>4, <1>3, <1>4
    <3> QED BY <3>2, <3>5, <1>3, <1>b
  <2> QED BY <2>1, <2>2
<1>9. NoReplayInWindow'
  <2>1. \A r \in again : r.proof \in evicted' \/ r.at >= Until(r.proof)'
    BY <1>1, <1>3, <1>5 DEF NoReplayInWindow, TypeOK
  <2>2. ASSUME p \in accepted PROVE p \in evicted' \/ clock >= Until(p)'
    <3> SUFFICES ASSUME p \notin evicted, clock < Until(p) PROVE FALSE
      BY <1>2, <1>3, <1>5
    <3>1. PICK e \in seen : e.jti = p
      BY <2>2, <1>1, <1>2, <1>5 DEF Recorded
    <3>2. e.until = Until(p)
      BY <3>1, <1>1 DEF EntriesSound
    <3>3. e.until > now
      BY <3>2, <1>2, <1>5
    <3> QED BY <3>1, <3>3, <1>3
  <2> QED BY <2>1, <2>2, <1>3 DEF NoReplayInWindow
<1>10. NoFalseReplay'
  BY <1>1, <1>3 DEF NoFalseReplay
<1>11. IsFiniteSet(seen')
  BY <1>3, <1>b, FS_AddElement
<1> QED BY <1>6, <1>7, <1>8, <1>9, <1>10, <1>11 DEF IndInv

\* Every step preserves the invariant.
LEMMA NextInv == IndInv /\ [Next]_dpopVars => IndInv'
<1> SUFFICES ASSUME IndInv, [Next]_dpopVars PROVE IndInv'
  OBVIOUS
<1>1. ASSUME NEW w \in Workers, NEW p \in Proofs, NEW t \in Targets, Begin(w, p, t)
      PROVE  IndInv'
  <2> DEFINE r == [busy |-> TRUE, proof |-> p, target |-> t, now |-> clock]
  <2>1. r \in Verification /\ r.now <= clock
    BY DEF Verification, IndInv, TypeOK
  <2>2. /\ run' = [run EXCEPT ![w] = r]
        /\ UNCHANGED <<clock, iat, seen, accepted, again, refused, evicted>>
    BY <1>1 DEF Begin
  <2> HIDE DEF r
  <2> QED BY <2>1, <2>2, RunOnly
<1>2. ASSUME NEW w \in Workers, Reject(w) PROVE IndInv'
  BY <1>2, RunOnly, IdleFacts DEF Reject
<1>3. ASSUME NEW w \in Workers, Refuse(w) PROVE IndInv'
  <2>1. /\ run' = [run EXCEPT ![w] = Idle]
        /\ refused' = {run[w].proof}
        /\ UNCHANGED <<clock, iat, seen, accepted, again, evicted>>
        /\ run[w].busy
        /\ \E e \in seen : e.jti = run[w].proof
    BY <1>3 DEF Refuse, Remembered
  <2>2. run[w].proof \in accepted
    BY <2>1 DEF IndInv, EntriesSound
  <2>3. /\ run' \in [Workers -> {Idle} \cup Verification]
        /\ \A v \in Workers : run'[v].busy => run'[v].now <= clock'
    BY <2>1, RunType, IdleFacts DEF IndInv
  <2>4. TypeOK'
    BY <2>1, <2>2, <2>3 DEF IndInv, TypeOK
  <2> QED BY <2>1, <2>2, <2>4
       DEF IndInv, EntriesSound, Recorded, NoReplayInWindow, NoFalseReplay, Until
<1>4. ASSUME NEW w \in Workers, Accept(w) PROVE IndInv'
  BY <1>4, AcceptInv
<1>5. CASE Tick
  <2>1. clock' = clock + 1 /\ UNCHANGED <<iat, run, seen, accepted, again, refused, evicted>>
    BY <1>5 DEF Tick
  <2>2. TypeOK'
    <3>1. \A w \in Workers : run'[w].busy => run'[w].now <= clock'
      BY <2>1, InFlight DEF IndInv, TypeOK
    <3> QED BY <2>1, <3>1 DEF IndInv, TypeOK
  <2>3. Recorded'
    <3>1. \A p \in Proofs : Until(p) \in Nat /\ Until(p)' = Until(p)
      BY <2>1, UntilType DEF IndInv, Until
    <3> QED BY <2>1, <3>1 DEF IndInv, Recorded, TypeOK
  <2> QED BY <2>1, <2>2, <2>3 DEF IndInv, EntriesSound, NoReplayInWindow, NoFalseReplay, Until
<1>6. CASE UNCHANGED dpopVars
  BY <1>6 DEF dpopVars, IndInv, TypeOK, EntriesSound, Recorded, NoReplayInWindow,
              NoFalseReplay, Until
<1> QED BY <1>1, <1>2, <1>3, <1>4, <1>5, <1>6 DEF Next

(* IndInv is an invariant: an accepted proof stays recorded, or was evicted, for
   as long as its window is open. *)
THEOREM Invariance == Spec => []IndInv
BY InitInv, NextInv, PTL DEF Spec

(* At most once: verifyDpopProof accepts a proof a second time within its window
   only after the replay cache had to evict it, for any number of concurrent
   verifications with arbitrarily stale readings of the clock. *)
THEOREM AtMostOnceInWindow == Spec => []NoReplayInWindow
<1>1. IndInv => NoReplayInWindow
  BY DEF IndInv
<1> QED BY <1>1, Invariance, PTL

(* A proof that was never accepted is never refused as a replay. *)
THEOREM FreshProofsPass == Spec => []NoFalseReplay
<1>1. IndInv => NoFalseReplay
  BY DEF IndInv
<1> QED BY <1>1, Invariance, PTL
\* A set of natural numbers that is not empty has a least element.
LEMMA LeastNatural ==
    ASSUME NEW S, S \subseteq Nat, S # {}
    PROVE  \E m \in S : \A n \in S : m <= n
<1> DEFINE R == OpToRel(<, Nat)
<1>1. PICK m \in S : \A n \in S : ~(<<n, m>> \in R)
  BY NatLessThanWellFounded, WFMin
<1>2. \A n \in S : ~(n < m)
  BY <1>1 DEF OpToRel
<1> QED BY <1>2

\* The number of entries below a position grows with the position.
LEMMA RankGrows ==
    ASSUME NEW S, IsFiniteSet(S), S \subseteq Entry, NEW e \in S, NEW n \in Nat, e.at < n
    PROVE  Cardinality({f \in S : f.at < e.at}) < Cardinality({f \in S : f.at < n})
<1> DEFINE A == {f \in S : f.at < e.at}
           B == {f \in S : f.at < n}
<1>1. \A f \in S : f.at \in Nat
  BY DEF Entry
<1>2. A \subseteq B /\ e \in B /\ e \notin A
  BY <1>1
<1>3. IsFiniteSet(A) /\ IsFiniteSet(B)
  BY FS_Subset
<1> HIDE DEF A, B
<1>4. Cardinality(A) <= Cardinality(B) /\ Cardinality(A) # Cardinality(B)
  BY <1>2, <1>3, FS_Subset
<1>5. Cardinality(A) \in Nat /\ Cardinality(B) \in Nat
  BY <1>3, FS_CardinalityType
<1>6. Cardinality(A) < Cardinality(B)
  BY <1>4, <1>5
<1> QED BY <1>6 DEF A, B

\* Every entry that is kept has fewer than MaxEntries - 1 newer ones, so that the
\* oldest of them has all the others above it: there is room for one more.
LEMMA KeptFits ==
    ASSUME NEW S, IsFiniteSet(S), S \subseteq Entry, Distinct(S)
    PROVE  Cardinality(Kept(S)) + 1 <= MaxEntries
<1> DEFINE K == Kept(S)
<1>1. MaxEntries \in Nat \ {0}
  BY DpopAssumption
<1>2. CASE K = {}
  BY <1>1, <1>2, FS_EmptySet
<1>3. CASE K # {}
  <2>1. K \subseteq S /\ \A e \in K : Cardinality({f \in S : f.at > e.at}) + 1 < MaxEntries
    BY DEF Kept
  <2> HIDE DEF K
  <2>2. {e.at : e \in K} \subseteq Nat /\ {e.at : e \in K} # {}
    BY <1>3, <2>1 DEF Entry
  <2>3. PICK m \in {e.at : e \in K} : \A n \in {e.at : e \in K} : m <= n
    BY <2>2, LeastNatural
  <2>4. PICK e \in K : e.at = m
    BY <2>3
  <2> DEFINE above == {f \in S : f.at > e.at}
  <2>5. \A f \in K : e.at <= f.at /\ e.at \in Nat /\ f.at \in Nat
    BY <2>1, <2>3, <2>4 DEF Entry
  <2>6. \A f \in K : f # e => f.at # e.at
    BY <2>1 DEF Distinct
  <2>7. K \subseteq above \cup {e}
    BY <2>1, <2>5, <2>6
  <2>8. IsFiniteSet(above) /\ e \notin above
    BY <2>5, FS_Subset
  <2>9. Cardinality(above) + 1 < MaxEntries
    BY <2>1
  <2> HIDE DEF above
  <2>10. IsFiniteSet(above \cup {e}) /\ Cardinality(above \cup {e}) = Cardinality(above) + 1
    BY <2>8, FS_AddElement
  <2>11. IsFiniteSet(K) /\ Cardinality(K) <= Cardinality(above \cup {e})
    BY <2>7, <2>10, FS_Subset
  <2>12. Cardinality(K) \in Nat /\ Cardinality(above) \in Nat
    BY <2>8, <2>11, FS_CardinalityType
  <2> QED BY <2>9, <2>10, <2>11, <2>12, <1>1 DEF K
<1> QED BY <1>2, <1>3

\* Renumbering keeps the order: distinct entries stay distinct, below the count.
LEMMA RenumberedDistinct ==
    ASSUME NEW S, IsFiniteSet(S), S \subseteq Entry, Distinct(S)
    PROVE  /\ Distinct(Renumbered(S))
           /\ \A e \in Renumbered(S) : e.at < Cardinality(S)
           /\ Cardinality(Renumbered(S)) <= Cardinality(S)
<1> DEFINE N(e) == Cardinality({f \in S : f.at < e.at})
           R(e) == [e EXCEPT !.at = N(e)]
<1>1. \A e \in S : e.at \in Nat /\ R(e).jti = e.jti /\ R(e).at = N(e)
  BY DEF Entry
<1>2. Renumbered(S) = {R(e) : e \in S}
  BY DEF Renumbered
<1>3. \A e \in S : N(e) \in Nat
  <2> TAKE e \in S
  <2>1. IsFiniteSet({f \in S : f.at < e.at})
    BY FS_Subset
  <2> QED BY <2>1, FS_CardinalityType
<1>4. \A e, g \in S : e.at < g.at => N(e) < N(g)
  BY <1>1, RankGrows
<1>5. \A e \in S : N(e) < Cardinality(S)
  <2> TAKE e \in S
  <2> DEFINE A == {f \in S : f.at < e.at}
  <2>1. A \subseteq S /\ e \notin A
    BY <1>1
  <2>2. Cardinality(A) <= Cardinality(S) /\ Cardinality(A) # Cardinality(S)
    BY <2>1, FS_Subset
  <2>3. Cardinality(A) \in Nat /\ Cardinality(S) \in Nat
    BY <1>3, FS_CardinalityType
  <2>4. Cardinality(A) < Cardinality(S)
    BY <2>2, <2>3
  <2> QED BY <2>4
<1> HIDE DEF N
<1>6. \A e, g \in S : N(e) = N(g) => e = g
  <2> SUFFICES ASSUME NEW e \in S, NEW g \in S, N(e) = N(g) PROVE e = g
    OBVIOUS
  <2>1. ~(e.at < g.at) /\ ~(g.at < e.at)
    BY <1>3, <1>4
  <2>2. e.at = g.at
    BY <2>1, <1>1
  <2> QED BY <2>2 DEF Distinct
<1> HIDE DEF R
<1>7. Distinct(Renumbered(S))
  BY <1>1, <1>2, <1>6 DEF Distinct
<1>8. Cardinality(Renumbered(S)) <= Cardinality(S)
  <2> DEFINE fn == [e \in S |-> R(e)]
  <2>1. fn \in Surjection(S, Renumbered(S))
    BY <1>2 DEF Surjection
  <2> QED BY <2>1, FS_Surjection
<1> QED BY <1>1, <1>2, <1>5, <1>7, <1>8

\* When an entry is evicted, it, the newer ones and the proof being accepted are
\* more than MaxEntries distinct accepted proofs.
LEMMA EvictionNeedsMany ==
    ASSUME NEW S, IsFiniteSet(S), S \subseteq Entry, Distinct(S),
           NEW A, IsFiniteSet(A), \A e \in S : e.jti \in A,
           NEW p \in A, \A e \in S : e.jti # p,
           NEW e \in S, e \notin Kept(S)
    PROVE  Cardinality(A) > MaxEntries
<1> DEFINE above == {f \in S : f.at > e.at}
           U == above \cup {e}
           J == {f.jti : f \in U}
<1>0. MaxEntries \in Nat
  BY DpopAssumption
<1>1. ~(Cardinality(above) + 1 < MaxEntries)
  BY DEF Kept
<1>2. e.at \in Nat
  BY DEF Entry
<1>3. IsFiniteSet(above) /\ e \notin above /\ U \subseteq S
  BY <1>2, FS_Subset
<1> HIDE DEF above
<1>4. IsFiniteSet(U) /\ Cardinality(U) = Cardinality(above) + 1
  BY <1>3, FS_AddElement
<1>5. J \subseteq A \ {p}
  BY <1>3
<1>6. IsFiniteSet(A \ {p}) /\ Cardinality(A \ {p}) = Cardinality(A) - 1
  BY FS_RemoveElement
<1>7. Cardinality(U) <= Cardinality(A \ {p})
  <2> DEFINE fn == [f \in U |-> f.jti]
  <2>1. fn \in [U -> A \ {p}]
    BY <1>5
  <2>2. \A f, g \in U : f.jti = g.jti => f = g
    BY <1>3 DEF Distinct
  <2>3. fn \in Injection(U, A \ {p})
    BY <2>1, <2>2 DEF Injection, IsInjective
  <2> HIDE DEF fn, U
  <2> QED BY <2>3, <1>6, FS_Injection
<1>8. Cardinality(above) \in Nat /\ Cardinality(A) \in Nat
  BY <1>3, FS_CardinalityType
<1> QED BY <1>0, <1>1, <1>4, <1>6, <1>7, <1>8

\* Accepting a proof keeps the cache within its size.
LEMMA AcceptRoom ==
    ASSUME IndInv, Room, NEW w \in Workers, Accept(w)
    PROVE  Room'
<1>0. PICK p, now : p = run[w].proof /\ now = run[w].now
  OBVIOUS
<1> DEFINE live == Live(now)
           kept == Kept(live)
           new == [jti |-> p, until |-> Until(p), at |-> Cardinality(kept)]
           old == Renumbered(kept)
<1>1. TypeOK /\ IsFiniteSet(seen) /\ EntriesSound /\ Distinct(seen)
      /\ IsFiniteSet(accepted) /\ EvictsOnlyWhenFull
  BY DEF IndInv, Room
<1>2. /\ seen' = old \cup {new}
      /\ evicted' = evicted \cup {e.jti : e \in live \ kept}
      /\ accepted' = accepted \cup {p}
      /\ \A e \in seen : ~(e.jti = p /\ e.until > now)
  BY <1>0 DEF Accept, Remembered
<1>3. live \subseteq seen /\ kept \subseteq live /\ \A e \in live : e.jti # p
  BY <1>2 DEF Live, Kept
<1>4. IsFiniteSet(live) /\ IsFiniteSet(kept) /\ live \subseteq Entry /\ kept \subseteq Entry
  BY <1>1, <1>3, FS_Subset DEF TypeOK
<1>5. Distinct(live) /\ Distinct(kept)
  BY <1>1, <1>3 DEF Distinct
<1>6. Cardinality(kept) + 1 <= MaxEntries
  BY <1>4, <1>5, KeptFits
<1>7. /\ Distinct(old)
      /\ \A e \in old : e.at < Cardinality(kept)
      /\ Cardinality(old) <= Cardinality(kept)
  BY <1>4, <1>5, RenumberedDistinct
<1>8. IsFiniteSet(old) /\ old \subseteq Entry /\ \A f \in old : \E e \in kept : f.jti = e.jti
  BY <1>4, RenumberedFacts
<1>9. Cardinality(kept) \in Nat /\ Cardinality(old) \in Nat /\ MaxEntries \in Nat
  BY <1>4, <1>8, FS_CardinalityType, DpopAssumption
<1>10. IsFiniteSet(accepted') /\ Cardinality(accepted) <= Cardinality(accepted')
       /\ Cardinality(accepted) \in Nat /\ Cardinality(accepted') \in Nat
  <2>1. IsFiniteSet(accepted') /\ accepted \subseteq accepted'
    BY <1>1, <1>2, FS_AddElement
  <2> QED BY <1>1, <2>1, FS_Subset, FS_CardinalityType
<1>11. ASSUME evicted' # {} PROVE Cardinality(accepted') > MaxEntries
  <2>1. CASE evicted # {}
    BY <2>1, <1>1, <1>9, <1>10 DEF EvictsOnlyWhenFull
  <2>2. CASE \E e \in live : e \notin kept
    <3>1. PICK e \in live : e \notin Kept(live)
      BY <2>2
    <3>2. (\A f \in live : f.jti \in accepted') /\ p \in accepted'
      BY <1>1, <1>2, <1>3 DEF EntriesSound
    <3> HIDE DEF live
    <3> QED BY <3>1, <3>2, <1>3, <1>4, <1>5, <1>10, EvictionNeedsMany
  <2> QED BY <1>11, <1>2, <2>1, <2>2
<1>12. \A e \in old : e.jti # p /\ e.at # Cardinality(kept)
  <2>1. \A e \in old : e.at \in Nat
    BY <1>8 DEF Entry
  <2> QED BY <2>1, <1>3, <1>7, <1>8, <1>9
<1> HIDE DEF live, kept, old
<1>13. Distinct(seen')
  BY <1>2, <1>7, <1>12 DEF Distinct
<1>14. Cardinality(seen') <= MaxEntries
  <2>0. \A x : Cardinality(old \cup {x}) = IF x \in old THEN Cardinality(old) ELSE Cardinality(old) + 1
    BY <1>8, FS_AddElement
  <2>1. Cardinality(seen') = Cardinality(old) \/ Cardinality(seen') = Cardinality(old) + 1
    BY <1>2, <2>0
  <2>2. IsFiniteSet(seen')
    BY <1>2, <1>8, FS_AddElement
  <2>3. Cardinality(seen') \in Nat
    BY <2>2, FS_CardinalityType
  <2> QED BY <2>1, <2>3, <1>6, <1>7, <1>9
<1> QED BY <1>9, <1>10, <1>11, <1>13, <1>14 DEF Room, EvictsOnlyWhenFull

\* Every step keeps the cache within its size.
LEMMA NextRoom == IndInv /\ Room /\ [Next]_dpopVars => Room'
<1> SUFFICES ASSUME IndInv, Room, [Next]_dpopVars PROVE Room'
  OBVIOUS
<1>1. ASSUME UNCHANGED <<seen, accepted, evicted>> PROVE Room'
  BY <1>1 DEF Room, Distinct, EvictsOnlyWhenFull
<1>2. ASSUME NEW w \in Workers, Accept(w) PROVE Room'
  BY <1>2, AcceptRoom
<1>3. CASE UNCHANGED dpopVars
  BY <1>1, <1>3 DEF dpopVars
<1> QED BY <1>1, <1>2, <1>3 DEF Next, Begin, Reject, Refuse, Tick

(* The replay cache forgets a live jti only when more proofs were accepted than
   it can hold, and it never outgrows maxEntries. *)
THEOREM ForgetsOnlyWhenFull == Spec => []EvictsOnlyWhenFull
<1>1. Init => Room
  BY FS_EmptySet, DpopAssumption DEF Init, Room, Distinct, EvictsOnlyWhenFull
<1>2. Room => EvictsOnlyWhenFull
  BY DEF Room
<1> QED BY <1>1, <1>2, NextRoom, Invariance, PTL DEF Spec
-----------------------------------------------------------------------------
(* The shim: verifyDpopProof inside handleExchange. *)
CacheEntry == [key : Callers \X Auds, tok : Token, reuseUntil : Nat, rank : Nat]

\* A call that is past the DPoP check.
Working == {"svid", "curity", "reply"}

\* An entry holds what its key says, and is not served longer than its token
\* lives or than Ttl after the answer of Curity was read.
EntryOK(e) ==
    /\ e.key = <<e.tok.from, e.tok.aud>>
    /\ e.reuseUntil <= e.tok.exp
    /\ e.reuseUntil + Life <= e.tok.exp + MaxLatency + Ttl

Sound(S) == S \subseteq CacheEntry /\ IsFiniteSet(S) /\ \A e \in S : EntryOK(e)

\* The proof p entitles caller c to a call of a.
Cleared(c, a, p) ==
    IF c \in Bound THEN p \in accepted /\ ProofFor[p] = <<c, a>> ELSE p = NoProof

\* What call c of a worker whose verification is r has established.
CallOK(c, r) ==
    /\ c.stage = "proof" =>
          c.caller \in Bound /\ r.busy /\ r.proof = c.proof /\ r.target = <<c.caller, c.aud>>
    /\ c.stage \in Working => Cleared(c.caller, c.aud, c.proof)
    /\ c.stage = "reply" =>
          /\ c.tok.from = c.caller /\ c.tok.aud = c.aud
          /\ clock + Life <= c.tok.exp + MaxLatency

\* The replay cache no longer vouches for p.
Gone(p) == p \in evicted \/ clock >= Until(p)

Holds(w, p) == call[w].stage \in Working /\ call[w].proof = p

\* A proof is held by one call, and has had no answer yet.
Fresh(w, p) == p \notin used /\ \A v \in Workers \ {w} : ~Holds(v, p)

CallsOK ==
    /\ call \in [Workers -> {NoCall} \cup Call \cup Minted]
    /\ \A w \in Workers : CallOK(call[w], run[w])

Once == \A w \in Workers, p \in Proofs : Holds(w, p) => Gone(p) \/ Fresh(w, p)

Histories == used \subseteq accepted /\ reused \subseteq used

\* The inductive invariant of the shim, on top of the one of DpopReplay.
ShimInv ==
    /\ IndInv
    /\ CallsOK /\ Sound(store) /\ Once /\ Histories
    /\ ProofOfPossession /\ AnswerIsOwn /\ AnswerAlive
-----------------------------------------------------------------------------
\* The stages of the three kinds of calls.
LEMMA StageFacts ==
    /\ NoCall.stage = "idle"
    /\ \A c \in Call : c.stage \in {"proof", "svid", "curity"} /\ c.caller \in Callers
                       /\ c.aud \in Auds /\ c.proof \in Proofs \cup {NoProof}
    /\ \A c \in Minted : c.stage = "reply" /\ c.caller \in Callers
                         /\ c.aud \in Auds /\ c.proof \in Proofs \cup {NoProof} /\ c.tok \in Token
BY DEF NoCall, Call, Minted

\* What is known of a call that a worker handles.
LEMMA CallFacts ==
    ASSUME CallsOK, NEW w \in Workers, call[w].stage # "idle"
    PROVE  /\ call[w].caller \in Callers /\ call[w].aud \in Auds
           /\ call[w].proof \in Proofs \cup {NoProof}
           /\ call[w].stage # "reply" => call[w] \in Call
           /\ call[w].stage = "reply" => call[w] \in Minted /\ call[w].tok \in Token
BY StageFacts DEF CallsOK

\* Putting a sound entry at the end of a sound store gives a sound store.
LEMMA PutSound ==
    ASSUME NEW S, Sound(S), NEW e \in CacheEntry, EntryOK(e)
    PROVE  Sound(Put(S, e))
<1> DEFINE T == {f \in S : f.key # e.key}
           N(f) == Cardinality({g \in T : g.rank < f.rank})
           R(f) == [f EXCEPT !.rank = N(f)]
           last == [e EXCEPT !.rank = Cardinality(Ranked(T))]
<1>1. IsFiniteSet(T) /\ T \subseteq CacheEntry /\ \A f \in T : EntryOK(f)
  BY FS_Subset DEF Sound
<1> HIDE DEF T
<1>2. Ranked(T) = {R(f) : f \in T}
  BY DEF Ranked
<1>3. \A f \in T : N(f) \in Nat
  <2> TAKE f \in T
  <2>1. IsFiniteSet({g \in T : g.rank < f.rank})
    BY <1>1, FS_Subset
  <2> QED BY <2>1, FS_CardinalityType
<1> HIDE DEF N
<1>4. ASSUME NEW f \in CacheEntry, EntryOK(f), NEW n \in Nat
      PROVE  [f EXCEPT !.rank = n] \in CacheEntry /\ EntryOK([f EXCEPT !.rank = n])
  <2> DEFINE g == [f EXCEPT !.rank = n]
  <2>1. g \in CacheEntry /\ g.key = f.key /\ g.tok = f.tok /\ g.reuseUntil = f.reuseUntil
    BY DEF CacheEntry
  <2> HIDE DEF g
  <2>2. EntryOK(g)
    BY <2>1, <1>4 DEF EntryOK
  <2> QED BY <2>1, <2>2 DEF g
<1>5. \A f \in T : R(f) \in CacheEntry /\ EntryOK(R(f))
  BY <1>1, <1>3, <1>4
<1> HIDE DEF R
<1>6. IsFiniteSet(Ranked(T))
  <2> DEFINE fn == [f \in T |-> R(f)]
  <2>1. fn \in Surjection(T, Ranked(T))
    BY <1>2 DEF Surjection
  <2> QED BY <2>1, <1>1, FS_Surjection
<1>7. Cardinality(Ranked(T)) \in Nat
  BY <1>6, FS_CardinalityType
<1>8. last \in CacheEntry /\ EntryOK(last)
  BY <1>4, <1>7
<1>9. Put(S, e) = Ranked(T) \cup {last}
  BY DEF Put, T
<1> HIDE DEF last
<1>10. IsFiniteSet(Ranked(T) \cup {last})
  BY <1>6, FS_AddElement
<1> QED BY <1>2, <1>5, <1>8, <1>9, <1>10 DEF Sound

\* A subset of a sound store is sound.
LEMMA SubsetSound == ASSUME NEW S, Sound(S), NEW T, T \subseteq S PROVE Sound(T)
BY FS_Subset DEF Sound

\* Every step of the shim is a step of DpopReplay, or leaves its state alone.
LEMMA ShimStep == [ShimNext]_allVars => [Next]_dpopVars
<1> SUFFICES ASSUME [ShimNext]_allVars PROVE [Next]_dpopVars
  OBVIOUS
<1>1. ASSUME NEW w \in Workers, NEW c \in Callers, NEW a \in Auds, NEW p \in Proofs,
             CallBound(w, c, a, p)
      PROVE  Next
  <2>1. <<c, a>> \in Targets
    BY ShimAssumption
  <2> QED BY <1>1, <2>1 DEF CallBound, Next
<1>2. ASSUME NEW w \in Workers, NEW c \in Callers, NEW a \in Auds, CallUnbound(w, c, a)
      PROVE  UNCHANGED dpopVars
  BY <1>2 DEF CallUnbound
<1>3. ASSUME NEW w \in Workers, Handle(w) PROVE [Next]_dpopVars
  BY <1>3 DEF Handle, ProofRejected, ProofAccepted, GiveUp, SvidRead, CurityMints, Reply, Next
<1>4. ASSUME Elapse PROVE Next
  BY <1>4 DEF Elapse, Next
<1>5. CASE UNCHANGED allVars
  BY <1>5 DEF allVars, dpopVars
<1> QED BY <1>1, <1>2, <1>3, <1>4, <1>5 DEF ShimNext

\* What a step of DpopReplay never takes back.
LEMMA DpopGrows ==
    ASSUME IndInv, [Next]_dpopVars
    PROVE  /\ accepted \subseteq accepted' /\ evicted \subseteq evicted'
           /\ clock \in Nat /\ clock' \in Nat /\ clock <= clock' /\ iat' = iat
           /\ \A p \in Proofs : Gone(p) => Gone(p)'
<1>1. TypeOK /\ TypeOK'
  BY NextInv DEF IndInv
<1>2. clock \in Nat /\ clock' \in Nat
  BY <1>1 DEF TypeOK
<1>3. /\ accepted \subseteq accepted' /\ evicted \subseteq evicted'
      /\ clock' = clock \/ clock' = clock + 1
      /\ iat' = iat
  BY DEF Next, dpopVars, Begin, Reject, Refuse, Accept, Tick
<1>4. \A p \in Proofs : Until(p) \in Nat /\ Until(p)' = Until(p)
  BY <1>1, <1>3, UntilType DEF Until
<1>5. clock <= clock'
  BY <1>2, <1>3
<1> QED BY <1>2, <1>3, <1>4, <1>5 DEF Gone
\* A step of worker w that leaves the other workers alone, and lets no proof be
\* held or spent a second time unless the replay cache gave it up.
LEMMA Others ==
    ASSUME ShimInv, [Next]_dpopVars, clock' = clock, NEW w \in Workers,
           call' \in [Workers -> {NoCall} \cup Call \cup Minted],
           \A v \in Workers \ {w} : call'[v] = call[v] /\ run'[v] = run[v],
           CallOK(call[w], run[w])',
           used' = used \/ call'[w] = NoCall,
           \A p \in Proofs : Holds(w, p)' \/ p \in used' \ used => Gone(p)' \/ Fresh(w, p)
    PROVE  CallsOK' /\ Once'
<1>1. IndInv /\ CallsOK /\ Once
  BY DEF ShimInv
<1>2. accepted \subseteq accepted' /\ \A p \in Proofs : Gone(p) => Gone(p)'
  BY <1>1, DpopGrows
<1>3. ASSUME NEW v \in Workers \ {w} PROVE CallOK(call[v], run[v])'
  <2>1. CallOK(call[v], run[v]) /\ call'[v] = call[v] /\ run'[v] = run[v]
    BY <1>1 DEF CallsOK
  <2>2. \A c, a, p : Cleared(c, a, p) => Cleared(c, a, p)'
    BY <1>2 DEF Cleared
  <2> QED BY <2>1, <2>2 DEF CallOK
<1>4. CallsOK'
  BY <1>3 DEF CallsOK
<1>6. \A v \in Workers \ {w}, p \in Proofs : Holds(v, p)' <=> Holds(v, p)
  BY DEF Holds
<1>7. ASSUME NEW p \in Proofs, Holds(w, p)' PROVE Gone(p)' \/ Fresh(w, p)'
  <2>1. used' = used
    BY <1>7, StageFacts DEF Holds, Working
  <2> QED BY <1>6, <1>7, <2>1 DEF Fresh
<1>8. ASSUME NEW v \in Workers \ {w}, NEW p \in Proofs, Holds(v, p)'
      PROVE  Gone(p)' \/ Fresh(v, p)'
  <2>1. Holds(v, p)
    BY <1>6, <1>8
  <2>2. Gone(p) \/ Fresh(v, p)
    BY <1>1, <2>1 DEF Once
  <2>3. CASE Gone(p)'
    BY <2>3
  <2>4. CASE ~Gone(p)'
    <3>1. Fresh(v, p) /\ ~Fresh(w, p)
      BY <1>2, <2>1, <2>2, <2>4 DEF Fresh
    <3>2. ~Holds(w, p)' /\ p \notin used' \ used
      BY <2>4, <3>1
    <3> QED BY <1>6, <3>1, <3>2 DEF Fresh
  <2> QED BY <2>3, <2>4
<1>9. Once'
  BY <1>7, <1>8 DEF Once
<1> QED BY <1>4, <1>9

\* A step that answers nothing keeps what is known of the answers.
LEMMA Silent ==
    ASSUME ShimInv, [Next]_dpopVars, UNCHANGED <<answer, used, reused>>
    PROVE  Histories' /\ ProofOfPossession' /\ AnswerIsOwn' /\ AnswerAlive'
<1>1. IndInv /\ Histories /\ ProofOfPossession /\ AnswerIsOwn /\ AnswerAlive
  BY DEF ShimInv
<1>2. accepted \subseteq accepted' /\ \A p \in Proofs : Gone(p) => Gone(p)'
  BY <1>1, DpopGrows
<1>3. reused \subseteq Proofs
  BY <1>1 DEF Histories, IndInv, TypeOK
<1>4. \A p \in reused : Gone(p)'
  BY <1>1, <1>2, <1>3 DEF ProofOfPossession, Gone
<1>5. ProofOfPossession'
  BY <1>1, <1>2, <1>4 DEF ProofOfPossession, Gone
<1> QED BY <1>1, <1>2, <1>5 DEF Histories, AnswerIsOwn, AnswerAlive

\* An answer to a call that is entitled to it, with a token of its own that is
\* still alive.
LEMMA AnswerInv ==
    ASSUME ShimInv, [Next]_dpopVars, clock' = clock, NEW w \in Workers,
           \A v \in Workers \ {w} : run'[v] = run[v],
           NEW c \in Callers, NEW a \in Auds, NEW p \in Proofs \cup {NoProof}, NEW tok \in Token,
           Answer(w, c, a, p, tok), Cleared(c, a, p)',
           p \in Proofs => Gone(p)' \/ Fresh(w, p),
           tok.from = c, tok.aud = a, clock < tok.exp,
           clock + Life < tok.exp + MaxLatency + Ttl
    PROVE  CallsOK' /\ Once' /\ Histories' /\ ProofOfPossession' /\ AnswerIsOwn' /\ AnswerAlive'
<1>1. IndInv /\ CallsOK /\ Histories /\ ProofOfPossession
  BY DEF ShimInv
<1>2. accepted \subseteq accepted' /\ \A q \in Proofs : Gone(q) => Gone(q)'
  BY <1>1, DpopGrows
<1>3. NoProof \notin Proofs
  BY ShimAssumption
<1>4. PICK r : r = [caller |-> c, aud |-> a, proof |-> p, tok |-> tok, at |-> clock]
  OBVIOUS
<1>5. r.caller = c /\ r.aud = a /\ r.proof = p /\ r.tok = tok /\ r.at = clock
  BY <1>4
<1>6. /\ answer' = {r}
      /\ used' = used \cup ({p} \ {NoProof})
      /\ reused' = reused \cup (used \cap {p})
      /\ call' = [call EXCEPT ![w] = NoCall]
  BY <1>4 DEF Answer
<1>7. p = NoProof \/ (p \in Proofs /\ p \in accepted')
  BY <1>1, NextInv DEF Cleared, IndInv, TypeOK
<1>8. Histories'
  BY <1>1, <1>2, <1>3, <1>6, <1>7 DEF Histories, IndInv, TypeOK
<1>9. CallsOK' /\ Once'
  <2>1. call' \in [Workers -> {NoCall} \cup Call \cup Minted]
    BY <1>1, <1>6 DEF CallsOK
  <2>2. call'[w] = NoCall /\ \A v \in Workers \ {w} : call'[v] = call[v]
    BY <1>1, <1>6 DEF CallsOK
  <2>3. CallOK(call[w], run[w])'
    BY <2>2, StageFacts DEF CallOK, Working
  <2>4. \A q \in Proofs : ~Holds(w, q)'
    BY <2>2, StageFacts DEF Holds, Working
  <2>5. \A q \in Proofs : Holds(w, q)' \/ q \in used' \ used => Gone(q)' \/ Fresh(w, q)
    BY <1>6, <2>4
  <2> QED BY <2>1, <2>2, <2>3, <2>5, Others
<1>10. ProofOfPossession'
  <2>1. \A q \in reused : Gone(q)'
    BY <1>1, <1>2 DEF ProofOfPossession, Gone, Histories, IndInv, TypeOK
  <2>2. p \in used => Gone(p)'
    BY <1>1, <1>3, <1>7 DEF Fresh, Histories, IndInv, TypeOK
  <2>3. \A q \in reused' : Gone(q)'
    BY <1>6, <2>1, <2>2
  <2> QED BY <1>5, <1>6, <2>3 DEF ProofOfPossession, Gone, Cleared
<1>11. AnswerIsOwn' /\ AnswerAlive'
  BY <1>5, <1>6 DEF AnswerIsOwn, AnswerAlive
<1> QED BY <1>8, <1>9, <1>10, <1>11
\* The cache lookup of a call that is entitled to its answer.
LEMMA LookupInv ==
    ASSUME ShimInv, [Next]_dpopVars, clock' = clock, NEW w \in Workers,
           \A v \in Workers \ {w} : run'[v] = run[v],
           NEW c \in Callers, NEW a \in Auds, NEW p \in Proofs \cup {NoProof},
           Lookup(w, c, a, p), Cleared(c, a, p)',
           p \in Proofs => Gone(p)' \/ Fresh(w, p)
    PROVE  ShimInv'
<1>1. IndInv /\ CallsOK /\ Sound(store) /\ IndInv' /\ clock \in Nat
  BY NextInv DEF ShimInv, IndInv, TypeOK
<1>2. CASE \E e \in Hits(c, a) : store' = Put(store, e) /\ Answer(w, c, a, p, e.tok)
  <2>1. PICK e \in Hits(c, a) : store' = Put(store, e) /\ Answer(w, c, a, p, e.tok)
    BY <1>2
  <2>2. e \in store /\ e.key = <<c, a>> /\ clock < e.reuseUntil
    BY DEF Hits, KeyOf
  <2>3. e \in CacheEntry /\ EntryOK(e)
    BY <1>1, <2>2 DEF Sound
  <2>4. /\ e.tok \in Token /\ e.reuseUntil \in Nat /\ e.tok.exp \in Nat
    BY <2>3 DEF CacheEntry, Token
  <2>5. e.tok.from = c /\ e.tok.aud = a
    BY <2>2, <2>3 DEF EntryOK
  <2>6. clock < e.tok.exp /\ clock + Life < e.tok.exp + MaxLatency + Ttl
    BY <1>1, <2>2, <2>3, <2>4, ShimAssumption DEF EntryOK
  <2>7. Sound(store')
    BY <1>1, <2>1, <2>3, PutSound
  <2>8. CallsOK' /\ Once' /\ Histories' /\ ProofOfPossession' /\ AnswerIsOwn' /\ AnswerAlive'
    BY <2>1, <2>4, <2>5, <2>6, AnswerInv
  <2> QED BY <1>1, <2>7, <2>8 DEF ShimInv, Sound, EntryOK
<1>3. CASE /\ store' = {e \in store : e.key # KeyOf(c, a)}
           /\ call' = [call EXCEPT ![w] = [stage |-> "svid", caller |-> c, aud |-> a, proof |-> p]]
           /\ UNCHANGED <<answer, used, reused>>
  <2>1. PICK n : n = [stage |-> "svid", caller |-> c, aud |-> a, proof |-> p]
    OBVIOUS
  <2>2. n \in Call /\ n.stage = "svid" /\ n.caller = c /\ n.aud = a /\ n.proof = p
    BY <2>1 DEF Call
  <2>3. call' = [call EXCEPT ![w] = n]
    BY <1>3, <2>1
  <2>4. call'[w] = n /\ \A v \in Workers \ {w} : call'[v] = call[v]
    BY <1>1, <2>3 DEF CallsOK
  <2>5. call' \in [Workers -> {NoCall} \cup Call \cup Minted]
    BY <1>1, <2>2, <2>3 DEF CallsOK
  <2>6. CallOK(call[w], run[w])'
    BY <2>2, <2>4 DEF CallOK
  <2>7. \A q \in Proofs : Holds(w, q)' => q = p
    BY <2>2, <2>4 DEF Holds
  <2>8. CallsOK' /\ Once'
    BY <1>3, <2>4, <2>5, <2>6, <2>7, Others
  <2>9. Sound(store')
    <3>1. store' \subseteq store
      BY <1>3
    <3> QED BY <1>1, <3>1, SubsetSound
  <2>10. Histories' /\ ProofOfPossession' /\ AnswerIsOwn' /\ AnswerAlive'
    BY <1>3, Silent
  <2> QED BY <1>1, <2>8, <2>9, <2>10 DEF ShimInv, Sound, EntryOK
<1> QED BY <1>2, <1>3 DEF Lookup

\* A step of worker w that puts n in the place of its call and touches neither
\* the store nor the answers.
LEMMA MoveInv ==
    ASSUME ShimInv, [Next]_dpopVars, clock' = clock, NEW w \in Workers,
           \A v \in Workers \ {w} : run'[v] = run[v],
           NEW n \in {NoCall} \cup Call \cup Minted,
           call' = [call EXCEPT ![w] = n], UNCHANGED <<store, answer, used, reused>>,
           CallOK(n, run[w])',
           n.stage \in Working => call[w].stage \in Working /\ call[w].proof = n.proof
    PROVE  ShimInv'
<1>1. IndInv /\ CallsOK /\ Sound(store) /\ Once /\ IndInv'
  BY NextInv DEF ShimInv
<1>2. call'[w] = n /\ \A v \in Workers \ {w} : call'[v] = call[v]
  BY <1>1 DEF CallsOK
<1>3. call' \in [Workers -> {NoCall} \cup Call \cup Minted]
  BY <1>1 DEF CallsOK
<1>4. CallOK(call[w], run[w])'
  BY <1>2 DEF CallOK
<1>5. ASSUME NEW p \in Proofs, Holds(w, p)' PROVE Gone(p)' \/ Fresh(w, p)
  <2>1. Holds(w, p)
    BY <1>2, <1>5 DEF Holds
  <2> QED BY <1>1, <2>1, DpopGrows DEF Once
<1>6. CallsOK' /\ Once'
  BY <1>2, <1>3, <1>4, <1>5, Others
<1> QED BY <1>1, <1>6, Silent DEF ShimInv, Sound, EntryOK

\* A call with a bound token starts the DPoP check.
LEMMA CallBoundInv ==
    ASSUME ShimInv, [Next]_dpopVars, NEW w \in Workers, NEW c \in Callers, NEW a \in Auds,
           NEW p \in Proofs, CallBound(w, c, a, p)
    PROVE  ShimInv'
<1>1. PICK n : n = [stage |-> "proof", caller |-> c, aud |-> a, proof |-> p]
  OBVIOUS
<1>2. n \in Call /\ n.stage = "proof" /\ n.caller = c /\ n.aud = a /\ n.proof = p
  BY <1>1 DEF Call
<1>3. PICK r : r = [busy |-> TRUE, proof |-> p, target |-> <<c, a>>, now |-> clock]
  OBVIOUS
<1>4. r.busy /\ r.proof = p /\ r.target = <<c, a>>
  BY <1>3
<1>5. c \in Bound /\ clock' = clock /\ run' = [run EXCEPT ![w] = r]
      /\ call' = [call EXCEPT ![w] = n] /\ UNCHANGED <<store, answer, used, reused>>
  BY <1>1, <1>3 DEF CallBound, Begin
<1>6. run'[w] = r /\ \A v \in Workers \ {w} : run'[v] = run[v]
  BY <1>5 DEF ShimInv, IndInv, TypeOK
<1>7. CallOK(n, run[w])'
  BY <1>2, <1>4, <1>5, <1>6 DEF CallOK, Working
<1> QED BY <1>2, <1>5, <1>6, <1>7, MoveInv DEF Working

\* A verification that ends leaves the other workers' alone.
LEMMA RunFrame ==
    ASSUME TypeOK, NEW w \in Workers, run' = [run EXCEPT ![w] = Idle]
    PROVE  \A v \in Workers \ {w} : run'[v] = run[v]
BY DEF TypeOK

\* A step that leaves the state of DpopReplay alone.
LEMMA DpopFrame ==
    ASSUME UNCHANGED dpopVars
    PROVE  /\ clock' = clock /\ run' = run /\ accepted' = accepted
           /\ \A c, a, p : Cleared(c, a, p)' <=> Cleared(c, a, p)
           /\ \A p : Gone(p)' <=> Gone(p)
BY DEF dpopVars, Cleared, Gone, Until

\* The proof is accepted: it is new to the shim, or the replay cache gave it up.
LEMMA ProofAcceptedInv ==
    ASSUME ShimInv, [Next]_dpopVars, NEW w \in Workers, ProofAccepted(w)
    PROVE  ShimInv'
<1>1. PICK c, a, p : c = call[w].caller /\ a = call[w].aud /\ p = call[w].proof
  OBVIOUS
<1>2. IndInv /\ CallsOK /\ Once /\ Histories /\ IndInv' /\ TypeOK
  BY NextInv DEF ShimInv, IndInv
<1>3. call[w].stage = "proof" /\ Accept(w) /\ Lookup(w, c, a, p)
  BY <1>1 DEF ProofAccepted
<1>4. c \in Bound /\ run[w].busy /\ run[w].proof = p /\ run[w].target = <<c, a>>
  BY <1>1, <1>2, <1>3 DEF CallsOK, CallOK
<1>5. c \in Callers /\ a \in Auds /\ p \in Proofs
  BY <1>1, <1>2, <1>3, <1>4, CallFacts, InFlight
<1>6. /\ clock' = clock /\ run' = [run EXCEPT ![w] = Idle] /\ accepted' = accepted \cup {p}
      /\ again' = IF p \in accepted THEN {[proof |-> p, at |-> clock]} ELSE again
      /\ ProofFor[p] = <<c, a>>
  BY <1>3, <1>4 DEF Accept, Passes
<1>7. Cleared(c, a, p)'
  BY <1>4, <1>6 DEF Cleared
<1>8. p \in accepted => Gone(p)'
  <2> SUFFICES ASSUME p \in accepted PROVE Gone(p)'
    OBVIOUS
  <2>1. PICK r : r = [proof |-> p, at |-> clock]
    OBVIOUS
  <2>2. r.proof = p /\ r.at = clock /\ r \in again'
    BY <1>6, <2>1
  <2> QED BY <1>2, <1>6, <2>2 DEF IndInv, NoReplayInWindow, Gone
<1>9. p \notin accepted => Fresh(w, p)
  <2>1. ASSUME NEW v \in Workers, Holds(v, p) PROVE p \in accepted
    <3>1. p # NoProof
      BY <1>5, ShimAssumption
    <3> QED BY <1>2, <2>1, <3>1 DEF Holds, CallsOK, CallOK, Cleared
  <2> QED BY <1>2, <2>1 DEF Fresh, Histories
<1>10. \A v \in Workers \ {w} : run'[v] = run[v]
  BY <1>2, <1>6, RunFrame
<1> QED BY <1>3, <1>5, <1>6, <1>7, <1>8, <1>9, <1>10, LookupInv
\* Curity's answer is on the way: the token is the caller's own.
LEMMA CurityMintsInv ==
    ASSUME ShimInv, [Next]_dpopVars, NEW w \in Workers, CurityMints(w)
    PROVE  ShimInv'
<1>1. IndInv /\ CallsOK /\ clock \in Nat /\ Life \in Nat /\ MaxLatency \in Nat
  BY ShimAssumption DEF ShimInv, IndInv, TypeOK
<1>2. PICK c, a, p : c = call[w].caller /\ a = call[w].aud /\ p = call[w].proof
  OBVIOUS
<1>3. PICK t : t = [from |-> c, aud |-> a, exp |-> clock + Life]
  OBVIOUS
<1>4. PICK n : n = [stage |-> "reply", caller |-> c, aud |-> a, proof |-> p, tok |-> t]
  OBVIOUS
<1>5. /\ call[w].stage = "curity" /\ call' = [call EXCEPT ![w] = n]
      /\ UNCHANGED <<store, answer, used, reused>> /\ UNCHANGED dpopVars
  BY <1>2, <1>3, <1>4 DEF CurityMints
<1>6. c \in Callers /\ a \in Auds /\ p \in Proofs \cup {NoProof}
  BY <1>1, <1>2, <1>5, CallFacts
<1>7. t \in Token /\ t.from = c /\ t.aud = a /\ t.exp = clock + Life
  BY <1>1, <1>3, <1>6 DEF Token
<1>8. n \in Minted /\ n.stage = "reply" /\ n.caller = c /\ n.aud = a /\ n.proof = p /\ n.tok = t
  BY <1>4, <1>6, <1>7 DEF Minted
<1>9. Cleared(c, a, p)
  BY <1>1, <1>2, <1>5 DEF CallsOK, CallOK, Working
<1>10. clock + Life <= t.exp + MaxLatency
  BY <1>1, <1>7
<1>11. CallOK(n, run[w])'
  BY <1>5, <1>7, <1>8, <1>9, <1>10, DpopFrame DEF CallOK
<1>12. clock' = clock /\ \A v \in Workers \ {w} : run'[v] = run[v]
  BY <1>5, DpopFrame
<1> QED BY <1>2, <1>5, <1>8, <1>11, <1>12, MoveInv DEF Working

\* The time an entry is served fits its token: the lifetime that is counted from
\* cache.set makes up for the latency of Curity's answer.
LEMMA WindowFits ==
    ASSUME NEW now \in Nat, NEW exp \in Nat, now + Life <= exp + MaxLatency, ~(Life <= Skew)
    PROVE  /\ ReuseUntil(now) \in Nat /\ ReuseUntil(now) <= exp
           /\ ReuseUntil(now) + Life <= exp + MaxLatency + Ttl
<1>1. /\ Life \in Nat /\ Ttl \in Nat /\ Skew \in Nat /\ MaxLatency \in Nat
      /\ MaxLatency <= Skew \/ MaxLatency + Ttl <= Life
  BY ShimAssumption
<1>2. CASE Ttl < Life - Skew
  BY <1>1, <1>2 DEF ReuseUntil
<1>3. CASE ~(Ttl < Life - Skew)
  BY <1>1, <1>3 DEF ReuseUntil
<1> QED BY <1>2, <1>3

\* exchange returns: the entry is sound, and the answer is the caller's own.
LEMMA ReplyInv ==
    ASSUME ShimInv, [Next]_dpopVars, NEW w \in Workers, Reply(w)
    PROVE  ShimInv'
<1>1. /\ IndInv /\ CallsOK /\ Sound(store) /\ Once /\ IndInv' /\ clock \in Nat
      /\ Life \in Nat /\ MaxLatency \in Nat /\ Ttl \in Nat \ {0} /\ MaxLatency < Life
  BY NextInv, ShimAssumption DEF ShimInv, IndInv, TypeOK
<1>2. PICK c, a, p, t : c = call[w].caller /\ a = call[w].aud /\ p = call[w].proof /\ t = call[w].tok
  OBVIOUS
<1>3. /\ call[w].stage = "reply" /\ store' = Stored(c, a, t) /\ Answer(w, c, a, p, t)
      /\ UNCHANGED dpopVars
  BY <1>2 DEF Reply
<1>4. c \in Callers /\ a \in Auds /\ p \in Proofs \cup {NoProof} /\ t \in Token
  BY <1>1, <1>2, <1>3, CallFacts
<1>5. /\ Cleared(c, a, p) /\ t.from = c /\ t.aud = a
      /\ clock + Life <= t.exp + MaxLatency
  BY <1>1, <1>2, <1>3 DEF CallsOK, CallOK, Working
<1>6. t.exp \in Nat
  BY <1>4 DEF Token
<1>7. clock < t.exp /\ clock + Life < t.exp + MaxLatency + Ttl
  BY <1>1, <1>5, <1>6
<1>8. p \in Proofs => Gone(p) \/ Fresh(w, p)
  BY <1>1, <1>2, <1>3 DEF Once, Holds, Working
<1>9. /\ clock' = clock /\ \A v \in Workers \ {w} : run'[v] = run[v]
      /\ Cleared(c, a, p)' /\ (p \in Proofs => Gone(p)' \/ Fresh(w, p))
  BY <1>3, <1>5, <1>8, DpopFrame
<1>10. CallsOK' /\ Once' /\ Histories' /\ ProofOfPossession' /\ AnswerIsOwn' /\ AnswerAlive'
  BY <1>3, <1>4, <1>5, <1>7, <1>9, AnswerInv
<1>11. Sound(store')
  <2>1. CASE Life <= Skew
    BY <1>1, <1>3, <2>1 DEF Stored
  <2>2. CASE ~(Life <= Skew)
    <3>1. PICK u : u = ReuseUntil(clock)
      OBVIOUS
    <3>2. u \in Nat /\ u <= t.exp /\ u + Life <= t.exp + MaxLatency + Ttl
      BY <1>1, <1>5, <1>6, <2>2, <3>1, WindowFits
    <3>3. PICK e : e = [key |-> <<c, a>>, tok |-> t, reuseUntil |-> u, rank |-> 0]
      OBVIOUS
    <3>4. e \in CacheEntry /\ e.key = <<c, a>> /\ e.tok = t /\ e.reuseUntil = u
      BY <1>4, <3>2, <3>3 DEF CacheEntry
    <3>5. EntryOK(e)
      BY <1>5, <3>2, <3>4 DEF EntryOK
    <3>6. Sound(Put(store, e))
      BY <1>1, <3>4, <3>5, PutSound
    <3>7. store' = Trim(Put(store, e))
      BY <1>3, <2>2, <3>1, <3>3 DEF Stored, KeyOf
    <3>8. Trim(Put(store, e)) \subseteq Put(store, e)
      BY DEF Trim
    <3> QED BY <3>6, <3>7, <3>8, SubsetSound
  <2> QED BY <2>1, <2>2
<1> QED BY <1>1, <1>10, <1>11 DEF ShimInv, Sound, EntryOK

\* Time passes: an answer of Curity that is still unread is within MaxLatency.
LEMMA ElapseInv ==
    ASSUME ShimInv, [Next]_dpopVars, Elapse
    PROVE  ShimInv'
<1>1. /\ IndInv /\ CallsOK /\ Sound(store) /\ Once /\ IndInv' /\ clock \in Nat
      /\ Life \in Nat /\ MaxLatency \in Nat
  BY NextInv, ShimAssumption DEF ShimInv, IndInv, TypeOK
<1>2. /\ clock' = clock + 1 /\ UNCHANGED <<run, accepted, evicted, iat>>
      /\ UNCHANGED <<call, store, answer, used, reused>>
      /\ \A w \in Workers : call[w].stage = "reply" =>
             clock + Life < call[w].tok.exp + MaxLatency
  BY DEF Elapse, Tick, shimVars
<1>3. ASSUME NEW w \in Workers PROVE CallOK(call[w], run[w])'
  <2>1. CallOK(call[w], run[w]) /\ call'[w] = call[w] /\ run'[w] = run[w]
    BY <1>1, <1>2 DEF CallsOK
  <2>2. \A c, a, p : Cleared(c, a, p) => Cleared(c, a, p)'
    BY <1>2 DEF Cleared
  <2>3. ASSUME call[w].stage = "reply" PROVE clock' + Life <= call[w].tok.exp + MaxLatency
    <3>1. call[w].tok \in Token
      BY <1>1, <2>3, CallFacts
    <3>2. call[w].tok.exp \in Nat
      BY <3>1 DEF Token
    <3> QED BY <1>1, <1>2, <2>3, <3>2
  <2> QED BY <2>1, <2>2, <2>3 DEF CallOK
<1>4. CallsOK'
  BY <1>1, <1>2, <1>3 DEF CallsOK
<1>5. Once'
  <2>1. \A w \in Workers, p \in Proofs : Holds(w, p)' <=> Holds(w, p)
    BY <1>2 DEF Holds
  <2>2. \A w \in Workers, p \in Proofs : Fresh(w, p) => Fresh(w, p)'
    BY <1>2, <2>1 DEF Fresh
  <2> QED BY <1>1, <2>1, <2>2, DpopGrows DEF Once
<1>6. Sound(store')
  BY <1>1, <1>2
<1> QED BY <1>1, <1>2, <1>4, <1>5, <1>6, Silent DEF ShimInv, Sound, EntryOK

\* Every step preserves the invariant.
LEMMA ShimNextInv == ShimInv /\ [ShimNext]_allVars => ShimInv'
<1> SUFFICES ASSUME ShimInv, [ShimNext]_allVars PROVE ShimInv'
  OBVIOUS
<1>1. [Next]_dpopVars
  BY ShimStep
<1>2. IndInv /\ CallsOK /\ TypeOK
  BY DEF ShimInv, IndInv
<1>3. ASSUME NEW w \in Workers, NEW c \in Callers, NEW a \in Auds, NEW p \in Proofs,
             CallBound(w, c, a, p)
      PROVE  ShimInv'
  BY <1>1, <1>3, CallBoundInv
<1>4. ASSUME NEW w \in Workers, NEW c \in Callers, NEW a \in Auds, CallUnbound(w, c, a)
      PROVE  ShimInv'
  <2>1. Lookup(w, c, a, NoProof) /\ c \notin Bound /\ UNCHANGED dpopVars
    BY <1>4 DEF CallUnbound
  <2>2. clock' = clock /\ \A v \in Workers \ {w} : run'[v] = run[v]
    BY <2>1, DpopFrame
  <2>3. Cleared(c, a, NoProof)' /\ NoProof \notin Proofs
    BY <2>1, ShimAssumption DEF Cleared
  <2> QED BY <1>1, <2>1, <2>2, <2>3, LookupInv
<1>5. ASSUME NEW w \in Workers, call' = [call EXCEPT ![w] = NoCall], clock' = clock,
             \A v \in Workers \ {w} : run'[v] = run[v], UNCHANGED <<store, answer, used, reused>>
      PROVE  ShimInv'
  <2>1. CallOK(NoCall, run[w])'
    BY StageFacts DEF CallOK, Working
  <2> QED BY <1>1, <1>5, <2>1, StageFacts, MoveInv DEF Working
<1>6. ASSUME NEW w \in Workers, ProofRejected(w) PROVE ShimInv'
  <2>1. clock' = clock /\ run' = [run EXCEPT ![w] = Idle]
    BY <1>6 DEF ProofRejected, Reject, Refuse
  <2> QED BY <1>2, <1>5, <1>6, <2>1, RunFrame DEF ProofRejected
<1>7. ASSUME NEW w \in Workers, ProofAccepted(w) PROVE ShimInv'
  BY <1>1, <1>7, ProofAcceptedInv
<1>8. ASSUME NEW w \in Workers, GiveUp(w) PROVE ShimInv'
  BY <1>5, <1>8, DpopFrame DEF GiveUp
<1>9. ASSUME NEW w \in Workers, SvidRead(w) PROVE ShimInv'
  <2>1. PICK o, n : o = call[w] /\ n = [o EXCEPT !.stage = "curity"]
    OBVIOUS
  <2>2. o.stage = "svid" /\ call' = [call EXCEPT ![w] = n] /\ UNCHANGED dpopVars
        /\ UNCHANGED <<store, answer, used, reused>>
    BY <1>9, <2>1 DEF SvidRead
  <2>3. o \in Call
    BY <1>2, <2>1, <2>2, CallFacts
  <2>4. n \in Call /\ n.stage = "curity" /\ n.caller = o.caller /\ n.aud = o.aud /\ n.proof = o.proof
    BY <2>1, <2>3 DEF Call
  <2>5. Cleared(o.caller, o.aud, o.proof)
    BY <1>2, <2>1, <2>2 DEF CallsOK, CallOK, Working
  <2>6. CallOK(n, run[w])'
    BY <2>2, <2>4, <2>5, DpopFrame DEF CallOK
  <2>7. clock' = clock /\ \A v \in Workers \ {w} : run'[v] = run[v]
    BY <2>2, DpopFrame
  <2> QED BY <1>1, <2>1, <2>2, <2>4, <2>6, <2>7, MoveInv DEF Working
<1>10. ASSUME NEW w \in Workers, CurityMints(w) PROVE ShimInv'
  BY <1>1, <1>10, CurityMintsInv
<1>11. ASSUME NEW w \in Workers, Reply(w) PROVE ShimInv'
  BY <1>1, <1>11, ReplyInv
<1>12. CASE Elapse
  BY <1>1, <1>12, ElapseInv
<1>13. CASE UNCHANGED allVars
  <2>1. UNCHANGED dpopVars /\ UNCHANGED shimVars
    BY <1>13 DEF allVars, dpopVars, shimVars
  <2>2. CallsOK'
    BY <1>2, <2>1, DpopFrame DEF shimVars, CallsOK, CallOK
  <2>3. Once'
    BY <2>1, DpopFrame DEF shimVars, ShimInv, Once, Holds, Fresh
  <2>4. IndInv'
    BY <1>1, <1>2, NextInv
  <2>5. Histories' /\ ProofOfPossession' /\ AnswerIsOwn' /\ AnswerAlive'
    BY <1>1, <2>1, Silent DEF shimVars
  <2> QED BY <2>1, <2>2, <2>3, <2>4, <2>5 DEF shimVars, ShimInv, Sound, EntryOK
<1> QED BY <1>3, <1>4, <1>6, <1>7, <1>8, <1>9, <1>10, <1>11, <1>12, <1>13 DEF ShimNext, Handle

\* The invariant holds at the start.
LEMMA ShimInitInv == ShimInit => ShimInv
<1> SUFFICES ASSUME ShimInit PROVE ShimInv
  OBVIOUS
<1>1. IndInv
  BY InitInv DEF ShimInit
<1>2. CallsOK /\ Once
  BY StageFacts DEF ShimInit, CallsOK, CallOK, Working, Once, Holds
<1> QED BY <1>1, <1>2, FS_EmptySet
     DEF ShimInit, ShimInv, Sound, Histories, ProofOfPossession, AnswerIsOwn, AnswerAlive

(* ShimInv is an invariant of the shim: calls past the DPoP check are entitled to
   an answer, cached decisions are what their keys say, and a proof the replay
   cache still vouches for is held by one call and has had no answer. *)
THEOREM ShimInvariance == ShimSpec => []ShimInv
BY ShimInitInv, ShimNextInv, PTL DEF ShimSpec

(* The shim implements DpopReplay: whatever handleExchange does around
   verifyDpopProof, its DPoP state moves as that module says, so that the
   theorems about DpopReplay above hold of the shim. *)
THEOREM ShimImplementsDpop == ShimSpec => Spec
<1>1. ShimInit => Init
  BY DEF ShimInit
<1> QED BY <1>1, ShimStep, PTL DEF ShimSpec, Spec

(* handleExchange checks the DPoP proof before it looks at the cache: an answer
   for a bound token goes only to a call with an accepted proof made for it, and
   one proof gets one answer unless the replay cache gave it up. *)
THEOREM AnswersNeedProof == ShimSpec => []ProofOfPossession
<1>1. ShimInv => ProofOfPossession
  BY DEF ShimInv
<1> QED BY <1>1, ShimInvariance, PTL

(* The token handleExchange answers with was minted from this caller's token for
   this audience, whatever ExchangeCache held, evicted or received meanwhile. *)
THEOREM AnswersAreOwn == ShimSpec => []AnswerIsOwn
<1>1. ShimInv => AnswerIsOwn
  BY DEF ShimInv
<1> QED BY <1>1, ShimInvariance, PTL

(* The token handleExchange answers with is still valid, and was received from
   Curity less than Ttl ago, for every lifetime, skew and latency that
   ShimAssumption admits. *)
THEOREM AnswersAreAlive == ShimSpec => []AnswerAlive
<1>1. ShimInv => AnswerAlive
  BY DEF ShimInv
<1> QED BY <1>1, ShimInvariance, PTL
=============================================================================
