---------------------------- MODULE WireLogProofs ---------------------------
(***************************************************************************)
(* Proofs about WireLog, for any traces, any JWTs in headers and bodies,   *)
(* any size of the table of traces and any number of calls, whatever is    *)
(* rendered, rejected or lost.                                             *)
(***************************************************************************)
EXTENDS WireLog, FiniteSetTheorems, SequenceTheorems, WellFoundedInduction, TLAPS

Call == [trace : Traces \cup {NoTrace}, seq : Nat, state : {"sent", "written", "lost"}]

\* An entry of the table of traces.
EntryOK(e) ==
    /\ e = [seq |-> e.seq, tokens |-> e.tokens, at |-> e.at]
    /\ e.seq \in Nat /\ e.at \in Nat

TypeOK ==
    /\ mode \in {"pretty", "full"}
    /\ calls \in Seq(Call)
    /\ traces = [t \in DOMAIN traces |-> traces[t]]
    /\ DOMAIN traces \subseteq Traces /\ IsFiniteSet(DOMAIN traces)
    /\ \A t \in DOMAIN traces : EntryOK(traces[t])
    /\ DOMAIN log = 1..Len(log) /\ Len(log) \in Nat /\ log = [i \in DOMAIN log |-> log[i]]

\* The place of a trace is that of its last call.
LastUse ==
    \A t \in DOMAIN traces :
        /\ traces[t].at \in DOMAIN calls /\ calls[traces[t].at].trace = t
        /\ \A c \in DOMAIN calls : calls[c].trace = t => c <= traces[t].at

\* A call is counted in the table, unless its trace was dropped since.
Counted ==
    \A c \in DOMAIN calls : calls[c].trace # NoTrace =>
        \/ Crowded(c, Len(calls))
        \/ calls[c].trace \in DOMAIN traces /\ calls[c].seq <= traces[calls[c].trace].seq

\* A block is of a call that was written, and a call has one block.
OneBlock ==
    \A i \in DOMAIN log :
        /\ log[i].call \in DOMAIN calls /\ calls[log[i].call].state = "written"
        /\ \A j \in DOMAIN log : log[i].call = log[j].call => i = j

\* The token of trace t remembered by number n was expanded in a block of this
\* number, or the block of this number was lost.
Justified(t, tok, n) ==
    \/ \E j \in DOMAIN log :
          TraceOf(log[j]) = t /\ NumberOf(log[j]) = n /\ tok \in log[j].expands
    \/ \E c \in DOMAIN calls : calls[c] = [trace |-> t, seq |-> n, state |-> "lost"]

TokensJustified ==
    \A t \in DOMAIN traces : \A tok \in DOMAIN traces[t].tokens : \A n :
        n = traces[t].tokens[tok] => Justified(t, tok, n)

\* What a block expanded is remembered until its trace is dropped.
Remembered ==
    mode = "pretty" => \A i \in DOMAIN log : TraceOf(log[i]) # NoTrace =>
        \/ Crowded(log[i].call, Len(calls))
        \/ /\ TraceOf(log[i]) \in DOMAIN traces
           /\ log[i].expands \subseteq DOMAIN traces[TraceOf(log[i])].tokens

\* The inductive invariant.
IndInv ==
    /\ TypeOK /\ LastUse /\ Counted /\ OneBlock /\ TokensJustified /\ Remembered
    /\ NumbersFollowSending /\ RefsResolve /\ ExpandedOnce
-----------------------------------------------------------------------------
\* The two clauses of RefsResolve and ExpandedOnce, for one block and for two.
Resolves(i, ref) ==
    \/ \E j \in 1..i :
          /\ TraceOf(log[j]) = TraceOf(log[i])
          /\ NumberOf(log[j]) = ref[2]
          /\ ref[1] \in log[j].expands
          /\ i = j \/ NumberOf(log[j]) # NumberOf(log[i])
                   \/ Crowded(log[i].call, log[j].call) \/ Crowded(log[j].call, log[i].call)
    \/ \E c \in DOMAIN calls :
          calls[c] = [trace |-> TraceOf(log[i]), seq |-> ref[2], state |-> "lost"]

LEMMA RefsByBlock == RefsResolve <=> \A i \in DOMAIN log : \A ref \in log[i].refs : Resolves(i, ref)
BY DEF RefsResolve, Resolves

\* What every step does to calls and blocks: they stay, but for the state of a
\* call in flight.
Continues ==
    /\ mode' = mode
    /\ calls' \in Seq(Call) /\ Len(calls) <= Len(calls')
    /\ \A k \in DOMAIN calls :
          /\ calls'[k].trace = calls[k].trace /\ calls'[k].seq = calls[k].seq
          /\ calls[k].state # "sent" => calls'[k] = calls[k]
    /\ DOMAIN log' = 1..Len(log') /\ Len(log') \in Nat /\ Len(log) <= Len(log')
    /\ \A i \in DOMAIN log : log'[i] = log[i]

\* The traces used after call c, up to call d, when cs are the calls.
Overtakers(cs, c, d) == {cs[e].trace : e \in (c+1)..d} \ {cs[c].trace, NoTrace}

LEMMA OvertakersFinite ==
    ASSUME NEW cs, NEW c \in Nat, NEW d \in Nat
    PROVE  IsFiniteSet(Overtakers(cs, c, d)) /\ Cardinality(Overtakers(cs, c, d)) \in Nat
<1> DEFINE S == (c+1)..d
           T == {cs[e].trace : e \in S}
           fn == [e \in S |-> cs[e].trace]
<1>1. fn \in Surjection(S, T)
  BY DEF Surjection
<1>2. IsFiniteSet(S)
  BY FS_Interval
<1>3. IsFiniteSet(T)
  BY <1>1, <1>2, FS_Surjection
<1>4. Overtakers(cs, c, d) \in SUBSET T
  BY DEF Overtakers
<1> QED BY <1>3, <1>4, FS_Subset, FS_CardinalityType

\* A set of traces used after c is large enough.
LEMMA LargeEnough ==
    ASSUME NEW cs, NEW c \in Nat, NEW d \in Nat, NEW V,
           V \subseteq Overtakers(cs, c, d), IsFiniteSet(V), Cardinality(V) >= MaxTraces
    PROVE  Cardinality(Overtakers(cs, c, d)) >= MaxTraces
<1>1. IsFiniteSet(Overtakers(cs, c, d)) /\ Cardinality(Overtakers(cs, c, d)) \in Nat
  BY OvertakersFinite
<1>2. Cardinality(V) <= Cardinality(Overtakers(cs, c, d))
  BY <1>1, FS_Subset
<1>3. Cardinality(V) \in Nat
  BY FS_CardinalityType
<1> QED BY <1>1, <1>2, <1>3, WireAssumption

\* Once overtaken, a call stays so.
LEMMA CrowdedGrows ==
    ASSUME TypeOK, Continues, NEW c \in DOMAIN calls,
           NEW d \in 0..Len(calls), NEW e \in 0..Len(calls'), d <= e, Crowded(c, d)
    PROVE  Crowded(c, e)'
<1>1. DOMAIN calls = 1..Len(calls) /\ Len(calls) \in Nat
      /\ DOMAIN calls' = 1..Len(calls') /\ Len(calls') \in Nat
  BY DEF TypeOK, Continues
<1>2. \A k \in DOMAIN calls : calls'[k].trace = calls[k].trace
  BY DEF Continues
<1>3. \A k \in (c+1)..d : k \in (c+1)..e /\ k \in DOMAIN calls
  BY <1>1
<1>4. Overtakers(calls, c, d) \subseteq Overtakers(calls', c, e)
  BY <1>2, <1>3 DEF Overtakers
<1>5. Cardinality(Overtakers(calls, c, d)) >= MaxTraces
  BY DEF Crowded, Overtakers
<1>6. IsFiniteSet(Overtakers(calls, c, d))
  BY <1>1, OvertakersFinite
<1>7. Cardinality(Overtakers(calls', c, e)) >= MaxTraces
  BY <1>1, <1>4, <1>5, <1>6, LargeEnough
<1> QED BY <1>7 DEF Crowded, Overtakers

\* What justifies a remembered number stays.
LEMMA JustifiedStays ==
    ASSUME TypeOK, OneBlock, Continues, NEW t, NEW tok, NEW n, Justified(t, tok, n)
    PROVE  Justified(t, tok, n)'
<1>1. DOMAIN calls \subseteq DOMAIN calls' /\ DOMAIN log \subseteq DOMAIN log'
  BY DEF TypeOK, Continues
<1>2. CASE \E j \in DOMAIN log :
              TraceOf(log[j]) = t /\ NumberOf(log[j]) = n /\ tok \in log[j].expands
  <2>1. PICK j \in DOMAIN log :
              TraceOf(log[j]) = t /\ NumberOf(log[j]) = n /\ tok \in log[j].expands
    BY <1>2
  <2>2. log'[j] = log[j] /\ log[j].call \in DOMAIN calls
    BY DEF Continues, OneBlock
  <2>3. TraceOf(log[j])' = t /\ NumberOf(log[j])' = n /\ tok \in log'[j].expands
    BY <2>1, <2>2 DEF TraceOf, NumberOf, Continues
  <2> QED BY <1>1, <2>3 DEF Justified
<1>3. CASE \E c \in DOMAIN calls : calls[c] = [trace |-> t, seq |-> n, state |-> "lost"]
  <2>1. PICK c \in DOMAIN calls : calls[c] = [trace |-> t, seq |-> n, state |-> "lost"]
    BY <1>3
  <2>2. calls'[c] = calls[c]
    BY <2>1 DEF Continues
  <2> QED BY <1>1, <2>1, <2>2 DEF Justified
<1> QED BY <1>2, <1>3 DEF Justified

\* What a reference leads to stays.
LEMMA ResolvesStays ==
    ASSUME TypeOK, OneBlock, Continues, NEW i \in DOMAIN log, NEW ref, Resolves(i, ref)
    PROVE  Resolves(i, ref)'
<1>1. DOMAIN calls = 1..Len(calls) /\ Len(calls) \in Nat
      /\ DOMAIN calls' = 1..Len(calls') /\ Len(calls') \in Nat /\ Len(calls) <= Len(calls')
      /\ DOMAIN log = 1..Len(log) /\ Len(log) \in Nat
  BY DEF TypeOK, Continues
<1>2. \A j \in DOMAIN log : /\ log'[j] = log[j] /\ log[j].call \in DOMAIN calls
                            /\ TraceOf(log[j])' = TraceOf(log[j])
                            /\ NumberOf(log[j])' = NumberOf(log[j])
  BY DEF Continues, OneBlock, TraceOf, NumberOf
<1>3. ASSUME NEW j \in 1..i,
             TraceOf(log[j]) = TraceOf(log[i]), NumberOf(log[j]) = ref[2],
             ref[1] \in log[j].expands,
             \/ i = j \/ NumberOf(log[j]) # NumberOf(log[i])
             \/ Crowded(log[i].call, log[j].call) \/ Crowded(log[j].call, log[i].call)
      PROVE  Resolves(i, ref)'
  <2>1. j \in DOMAIN log
    BY <1>1
  <2>2. ASSUME NEW c \in DOMAIN calls, NEW d \in DOMAIN calls, Crowded(c, d)
        PROVE  Crowded(c, d)'
    BY <1>1, <2>2, CrowdedGrows
  <2>3. \/ i = j \/ (NumberOf(log[j]) # NumberOf(log[i]))'
        \/ Crowded(log[i].call, log[j].call)' \/ Crowded(log[j].call, log[i].call)'
    BY <1>2, <1>3, <2>1, <2>2
  <2> QED BY <1>2, <1>3, <2>1, <2>3 DEF Resolves
<1>4. ASSUME NEW c \in DOMAIN calls,
             calls[c] = [trace |-> TraceOf(log[i]), seq |-> ref[2], state |-> "lost"]
      PROVE  Resolves(i, ref)'
  <2>1. calls'[c] = calls[c] /\ c \in DOMAIN calls'
    BY <1>1, <1>4 DEF Continues
  <2> QED BY <1>2, <1>4, <2>1 DEF Resolves
<1> QED BY <1>3, <1>4 DEF Resolves
-----------------------------------------------------------------------------
\* The log is empty at the start.
LEMMA InitInv == Init => IndInv
<1> SUFFICES ASSUME Init PROVE IndInv
  OBVIOUS
<1>1. calls \in Seq(Call) /\ DOMAIN calls = {}
  BY DEF Init
<1>2. DOMAIN traces = {} /\ traces = [t \in DOMAIN traces |-> traces[t]]
  BY DEF Init
<1>3. /\ DOMAIN log = {} /\ DOMAIN log = 1..Len(log) /\ Len(log) \in Nat
      /\ log = [i \in DOMAIN log |-> log[i]]
  BY DEF Init
<1>4. TypeOK
  BY <1>1, <1>2, <1>3, FS_EmptySet DEF Init, TypeOK
<1>5. LastUse /\ Counted /\ OneBlock /\ TokensJustified /\ Remembered
  BY <1>1, <1>2, <1>3 DEF LastUse, Counted, OneBlock, TokensJustified, Remembered
<1>6. NumbersFollowSending /\ RefsResolve /\ ExpandedOnce
  BY <1>1, <1>3 DEF NumbersFollowSending, RefsResolve, ExpandedOnce
<1> QED BY <1>4, <1>5, <1>6 DEF IndInv
-----------------------------------------------------------------------------
(* A call is sent. *)

\* A set of natural numbers that is not empty has a least element.
LEMMA LeastNatural ==
    ASSUME NEW S, S \subseteq Nat, S # {}
    PROVE  \E m \in S : \A n \in S : m <= n
<1> DEFINE R == OpToRel(<, Nat)
<1>1. PICK m \in S : \A n \in S : ~(<<n, m>> \in R)
  BY NatLessThanWellFounded, WFMin
<1>2. \A n \in S : ~(n < m)
  BY <1>1 DEF OpToRel
<1> QED BY <1>2

\* Only a trace that the rest of the table, full, was used after is dropped.
LEMMA EvictedFacts ==
    ASSUME NEW m, m = [u \in DOMAIN m |-> m[u]], IsFiniteSet(DOMAIN m),
           \A u \in DOMAIN m : m[u].at \in Nat
    PROVE  /\ Evicted(m) = [u \in DOMAIN Evicted(m) |-> m[u]]
           /\ DOMAIN Evicted(m) \subseteq DOMAIN m
           /\ \A u \in DOMAIN m \ DOMAIN Evicted(m) :
                 /\ \A v \in DOMAIN m : m[u].at <= m[v].at
                 /\ Cardinality(DOMAIN m \ {u}) >= MaxTraces
<1>1. CASE ~(Cardinality(DOMAIN m) > MaxTraces)
  <2>1. Evicted(m) = m
    BY <1>1 DEF Evicted
  <2> QED BY <2>1
<1>2. CASE Cardinality(DOMAIN m) > MaxTraces
  <2> DEFINE oldest == CHOOSE u \in DOMAIN m : \A v \in DOMAIN m : m[u].at <= m[v].at
  <2>1. Cardinality(DOMAIN m) \in Nat /\ MaxTraces \in Nat \ {0}
    BY FS_CardinalityType, WireAssumption
  <2>2. DOMAIN m # {}
    BY <1>2, <2>1, FS_EmptySet
  <2>3. {m[u].at : u \in DOMAIN m} \subseteq Nat /\ {m[u].at : u \in DOMAIN m} # {}
    BY <2>2
  <2>4. PICK a \in {m[u].at : u \in DOMAIN m} : \A b \in {m[u].at : u \in DOMAIN m} : a <= b
    BY <2>3, LeastNatural
  <2>5. \E u \in DOMAIN m : \A v \in DOMAIN m : m[u].at <= m[v].at
    BY <2>4
  <2>6. oldest \in DOMAIN m /\ \A v \in DOMAIN m : m[oldest].at <= m[v].at
    BY <2>5
  <2>7. Evicted(m) = [u \in DOMAIN m \ {oldest} |-> m[u]]
    BY <1>2 DEF Evicted
  <2> HIDE DEF oldest
  <2>8. Cardinality(DOMAIN m \ {oldest}) = Cardinality(DOMAIN m) - 1
    <3>1. \A D, x : IsFiniteSet(D) /\ x \in D => Cardinality(D \ {x}) = Cardinality(D) - 1
      BY FS_RemoveElement
    <3> QED BY <2>6, <3>1
  <2>9. Cardinality(DOMAIN m \ {oldest}) >= MaxTraces
    BY <1>2, <2>1, <2>8
  <2> QED BY <2>6, <2>7, <2>9
<1> QED BY <1>1, <1>2

\* The table before the oldest trace is dropped: what the invariant says of the
\* calls cs, the last of which is number n.
Table(m, cs, n) ==
    /\ m = [u \in DOMAIN m |-> m[u]]
    /\ DOMAIN m \subseteq Traces /\ IsFiniteSet(DOMAIN m)
    /\ \A u \in DOMAIN m :
          /\ EntryOK(m[u]) /\ m[u].at \in 1..n /\ cs[m[u].at].trace = u
          /\ \A c \in 1..n : cs[c].trace = u => c <= m[u].at

\* A call of a trace that is dropped was overtaken by the rest of the table.
LEMMA DroppedIsCrowded ==
    ASSUME NEW m, NEW cs, NEW n \in Nat, Table(m, cs, n),
           NEW c \in 1..n, cs[c].trace \in DOMAIN m, cs[c].trace \notin DOMAIN Evicted(m)
    PROVE  Cardinality(Overtakers(cs, c, n)) >= MaxTraces
<1> DEFINE u == cs[c].trace
           V == DOMAIN m \ {u}
<1>1. /\ \A v \in DOMAIN m : m[u].at <= m[v].at
      /\ Cardinality(V) >= MaxTraces
  BY EvictedFacts DEF Table, EntryOK
<1>2. ASSUME NEW v \in V PROVE v \in Overtakers(cs, c, n)
  <2>1. m[v].at \in 1..n /\ cs[m[v].at].trace = v /\ v \in Traces
    BY DEF Table
  <2>2. m[u].at \in 1..n /\ cs[m[u].at].trace = u /\ c <= m[u].at
    BY DEF Table
  <2>3. m[u].at # m[v].at /\ m[u].at <= m[v].at
    BY <1>1, <2>1, <2>2
  <2>4. m[v].at \in (c+1)..n
    BY <2>1, <2>2, <2>3
  <2>5. v # NoTrace
    BY <2>1, WireAssumption
  <2> QED BY <2>1, <2>4, <2>5 DEF Overtakers
<1>3. IsFiniteSet(V)
  BY FS_RemoveElement DEF Table
<1> HIDE DEF V
<1> QED BY <1>1, <1>2, <1>3, LargeEnough

\* The calls after one was sent.
LEMMA Sent ==
    ASSUME TypeOK, NEW t \in Traces \cup {NoTrace}, Send(t), NEW n, n = Len(calls)
    PROVE  /\ Continues /\ log' = log
           /\ n \in Nat /\ DOMAIN calls = 1..n /\ DOMAIN calls' = 1..(n+1) /\ Len(calls') = n+1
           /\ \A k \in 1..n : calls'[k] = calls[k] /\ calls[k].seq \in Nat
           /\ calls'[n+1].trace = t /\ calls'[n+1].state = "sent"
           /\ t # NoTrace => calls'[n+1].seq = Entry(t).seq + 1 /\ Entry(t).seq \in Nat
<1>1. Entry(t).seq \in Nat
  BY DEF TypeOK, Entry, NoEntry, EntryOK
<1>2. PICK x \in Nat : calls' = Append(calls, [trace |-> t, seq |-> x, state |-> "sent"])
                       /\ (t # NoTrace => x = Entry(t).seq + 1)
  BY <1>1 DEF Send
<1>3. [trace |-> t, seq |-> x, state |-> "sent"] \in Call
  BY DEF Call
<1>4. calls \in Seq(Call)
  BY DEF TypeOK
<1>5. /\ calls' \in Seq(Call) /\ Len(calls') = n+1 /\ n \in Nat
      /\ DOMAIN calls = 1..n /\ DOMAIN calls' = 1..(n+1)
      /\ \A k \in 1..n : calls'[k] = calls[k]
      /\ calls'[n+1] = [trace |-> t, seq |-> x, state |-> "sent"]
  BY <1>2, <1>3, <1>4
<1>6. mode' = mode /\ log' = log
  BY DEF Send
<1>7. Continues
  BY <1>5, <1>6 DEF Continues, TypeOK
<1>8. \A k \in 1..n : calls[k].seq \in Nat
  <2>1. \A k \in 1..n : calls[k] \in Call
    BY <1>4, <1>5
  <2> QED BY <2>1 DEF Call
<1> QED BY <1>1, <1>2, <1>5, <1>6, <1>7, <1>8

\* The table m after a call of t, number n+1, was sent, before a trace is dropped.
Counting(m, t, n) ==
    /\ Table(m, calls', n+1)
    /\ traces' = m \/ traces' = Evicted(m)
    /\ DOMAIN m = (IF t = NoTrace THEN DOMAIN traces ELSE DOMAIN traces \cup {t})
    /\ \A u \in DOMAIN traces : m[u].tokens = traces[u].tokens /\ m[u].seq >= traces[u].seq
    /\ t # NoTrace => /\ m[t].seq = calls'[n+1].seq
                      /\ t \notin DOMAIN traces => m[t].tokens = <<>>

LEMMA SentTable ==
    ASSUME IndInv, NEW t \in Traces \cup {NoTrace}, Send(t), NEW n, n = Len(calls)
    PROVE  \E m : Counting(m, t, n)
<1>1. /\ n \in Nat /\ DOMAIN calls = 1..n
      /\ \A k \in 1..n : calls'[k] = calls[k]
      /\ calls'[n+1].trace = t
      /\ t # NoTrace => calls'[n+1].seq = Entry(t).seq + 1 /\ Entry(t).seq \in Nat
  BY Sent DEF IndInv
<1>2. /\ traces = [u \in DOMAIN traces |-> traces[u]]
      /\ DOMAIN traces \subseteq Traces /\ IsFiniteSet(DOMAIN traces)
      /\ \A u \in DOMAIN traces : EntryOK(traces[u])
  BY DEF IndInv, TypeOK
<1>3. \A u \in DOMAIN traces :
          /\ traces[u].at \in 1..n /\ calls[traces[u].at].trace = u
          /\ \A c \in 1..n : calls[c].trace = u => c <= traces[u].at
  BY <1>1 DEF IndInv, LastUse
<1>4. CASE t = NoTrace
  <2>1. Table(traces, calls', n+1)
    <3>1. ASSUME NEW u \in DOMAIN traces
          PROVE  /\ EntryOK(traces[u]) /\ traces[u].at \in 1..(n+1)
                 /\ calls'[traces[u].at].trace = u
                 /\ \A c \in 1..(n+1) : calls'[c].trace = u => c <= traces[u].at
      <4>1. u # NoTrace
        BY <1>2, WireAssumption
      <4> QED BY <1>1, <1>2, <1>3, <1>4, <4>1
    <3> QED BY <1>2, <3>1 DEF Table
  <2>2. traces' = traces
    BY <1>4 DEF Send
  <2>3. \A u \in DOMAIN traces : traces[u].seq >= traces[u].seq
    BY <1>2 DEF EntryOK
  <2> QED BY <1>4, <2>1, <2>2, <2>3 DEF Counting
<1>5. CASE t # NoTrace
  <2> DEFINE e == [seq |-> Entry(t).seq + 1, tokens |-> Entry(t).tokens, at |-> n + 1]
  <2>1. PICK m : m = Touched(t)
    OBVIOUS
  <2>2. m = [u \in DOMAIN traces \cup {t} |-> IF u = t THEN e ELSE traces[u]]
    BY <2>1 DEF Touched
  <2>3. DOMAIN m = DOMAIN traces \cup {t} /\ m = [u \in DOMAIN m |-> m[u]]
    BY <2>2
  <2>4. m[t] = e /\ \A u \in DOMAIN traces \ {t} : m[u] = traces[u]
    BY <2>2
  <2>5. e.seq = Entry(t).seq + 1 /\ e.tokens = Entry(t).tokens /\ e.at = n + 1 /\ EntryOK(e)
    BY <1>1, <1>5 DEF EntryOK
  <2> HIDE DEF e
  <2>6. IsFiniteSet(DOMAIN m) /\ DOMAIN m \subseteq Traces
    BY <1>2, <1>5, <2>3, FS_AddElement
  <2>7. ASSUME NEW u \in DOMAIN m
        PROVE  /\ EntryOK(m[u]) /\ m[u].at \in 1..(n+1) /\ calls'[m[u].at].trace = u
               /\ \A c \in 1..(n+1) : calls'[c].trace = u => c <= m[u].at
    <3>1. CASE u = t
      <4>1. m[u].at = n + 1
        BY <2>4, <2>5, <3>1
      <4> QED BY <1>1, <2>4, <2>5, <3>1, <4>1
    <3>2. CASE u # t
      <4>1. u \in DOMAIN traces /\ m[u] = traces[u]
        BY <2>3, <2>4, <3>2
      <4> QED BY <1>1, <1>2, <1>3, <3>2, <4>1
    <3> QED BY <3>1, <3>2
  <2>8. Table(m, calls', n+1)
    BY <2>3, <2>6, <2>7 DEF Table
  <2>9. traces' = Evicted(m)
    BY <1>5, <2>1 DEF Send
  <2>10. ASSUME NEW u \in DOMAIN traces
         PROVE  m[u].tokens = traces[u].tokens /\ m[u].seq >= traces[u].seq
    <3>1. traces[u].seq \in Nat
      BY <1>2 DEF EntryOK
    <3>2. CASE u = t
      BY <2>4, <2>5, <3>1, <3>2 DEF Entry
    <3>3. CASE u # t
      BY <2>4, <3>1, <3>3
    <3> QED BY <3>2, <3>3
  <2>11. m[t].seq = calls'[n+1].seq
    BY <1>1, <1>5, <2>4, <2>5
  <2>12. t \notin DOMAIN traces => m[t].tokens = <<>>
    BY <2>4, <2>5 DEF Entry, NoEntry
  <2> QED BY <1>5, <2>3, <2>8, <2>9, <2>10, <2>11, <2>12 DEF Counting
<1> QED BY <1>4, <1>5

\* The invariant holds after a call was sent.
LEMMA SendInv ==
    ASSUME IndInv, NEW t \in Traces \cup {NoTrace}, Send(t)
    PROVE  IndInv'
<1>1. PICK n : n = Len(calls)
  OBVIOUS
<1>2. /\ Continues /\ log' = log
      /\ n \in Nat /\ DOMAIN calls = 1..n /\ DOMAIN calls' = 1..(n+1) /\ Len(calls') = n+1
      /\ \A k \in 1..n : calls'[k] = calls[k] /\ calls[k].seq \in Nat
      /\ calls'[n+1].trace = t /\ calls'[n+1].state = "sent"
      /\ t # NoTrace => calls'[n+1].seq = Entry(t).seq + 1 /\ Entry(t).seq \in Nat
  BY <1>1, Sent DEF IndInv
<1>a. PICK m : Counting(m, t, n)
  BY <1>1, SentTable
<1>3. /\ Table(m, calls', n+1)
      /\ traces' = m \/ traces' = Evicted(m)
      /\ DOMAIN m = (IF t = NoTrace THEN DOMAIN traces ELSE DOMAIN traces \cup {t})
      /\ \A u \in DOMAIN traces : m[u].tokens = traces[u].tokens /\ m[u].seq >= traces[u].seq
      /\ t # NoTrace => /\ m[t].seq = calls'[n+1].seq
                        /\ t \notin DOMAIN traces => m[t].tokens = <<>>
  BY <1>a DEF Counting
<1>4. TypeOK /\ LastUse /\ Counted /\ OneBlock /\ TokensJustified /\ Remembered
      /\ NumbersFollowSending /\ RefsResolve /\ ExpandedOnce
  BY DEF IndInv
<1>5. /\ DOMAIN traces' \subseteq DOMAIN m
      /\ traces' = [u \in DOMAIN traces' |-> traces'[u]]
      /\ \A u \in DOMAIN traces' : traces'[u] = m[u]
  <2>1. m = [u \in DOMAIN m |-> m[u]] /\ IsFiniteSet(DOMAIN m) /\ \A u \in DOMAIN m : m[u].at \in Nat
    BY <1>2, <1>3 DEF Table, EntryOK
  <2>2. /\ Evicted(m) = [u \in DOMAIN Evicted(m) |-> m[u]]
        /\ DOMAIN Evicted(m) \subseteq DOMAIN m
    BY <2>1, EvictedFacts
  <2>3. CASE traces' = m
    BY <2>1, <2>3
  <2>4. CASE traces' = Evicted(m)
    <3>1. PICK E : E = Evicted(m)
      OBVIOUS
    <3>2. E = [u \in DOMAIN E |-> m[u]] /\ DOMAIN E \subseteq DOMAIN m
      BY <2>2, <3>1
    <3>3. \A u \in DOMAIN E : E[u] = m[u]
      BY <3>2
    <3> QED BY <2>4, <3>1, <3>2, <3>3
  <2> QED BY <1>3, <2>3, <2>4
\* A call of a trace that is not in the table any more was overtaken.
<1>6. ASSUME NEW c \in DOMAIN calls', calls'[c].trace \in DOMAIN m, calls'[c].trace \notin DOMAIN traces'
      PROVE  Crowded(c, n+1)'
  <2>1. traces' = Evicted(m)
    BY <1>3, <1>6
  <2>2. PICK cs : cs = calls'
    OBVIOUS
  <2>3. /\ n+1 \in Nat /\ c \in 1..(n+1) /\ Table(m, cs, n+1)
        /\ cs[c].trace \in DOMAIN m /\ cs[c].trace \notin DOMAIN Evicted(m)
    BY <1>2, <1>3, <1>6, <2>1, <2>2
  <2>4. Cardinality(Overtakers(cs, c, n+1)) >= MaxTraces
    BY <2>3, DroppedIsCrowded
  <2>5. Cardinality(Overtakers(calls', c, n+1)) >= MaxTraces
    BY <2>2, <2>4
  <2> QED BY <2>5 DEF Crowded, Overtakers
<1>7. ASSUME NEW c \in DOMAIN calls, Crowded(c, n) PROVE Crowded(c, n+1)'
  BY <1>1, <1>2, <1>4, <1>7, CrowdedGrows
<1>8. TypeOK'
  <2>1. IsFiniteSet(DOMAIN traces') /\ DOMAIN traces' \subseteq Traces
    BY <1>3, <1>5, FS_Subset DEF Table
  <2>2. \A u \in DOMAIN traces' : EntryOK(traces'[u])
    BY <1>3, <1>5 DEF Table
  <2>3. /\ mode' \in {"pretty", "full"} /\ calls' \in Seq(Call)
        /\ DOMAIN log' = 1..Len(log') /\ Len(log') \in Nat /\ log' = [i \in DOMAIN log' |-> log'[i]]
    BY <1>2, <1>4 DEF TypeOK, Continues
  <2> QED BY <1>5, <2>1, <2>2, <2>3 DEF TypeOK
<1>9. LastUse'
  BY <1>2, <1>3, <1>5 DEF LastUse, Table
<1>10. Counted'
  <2> SUFFICES ASSUME NEW c \in DOMAIN calls', calls'[c].trace # NoTrace
               PROVE  \/ Crowded(c, n+1)'
                      \/ /\ calls'[c].trace \in DOMAIN traces'
                         /\ calls'[c].seq <= traces'[calls'[c].trace].seq
    BY <1>2 DEF Counted
  <2> DEFINE u == calls'[c].trace
  <2>1. CASE c = n+1
    <3>1. u = t /\ t # NoTrace /\ u \in DOMAIN m /\ m[u].seq = calls'[c].seq /\ calls'[c].seq \in Nat
      BY <1>2, <1>3, <2>1
    <3> QED BY <1>5, <1>6, <3>1
  <2>2. CASE c # n+1
    <3>1. c \in DOMAIN calls /\ calls'[c] = calls[c] /\ u # NoTrace
      BY <1>2, <2>2
    <3>2. CASE Crowded(c, n)
      BY <1>7, <3>1, <3>2
    <3>3. CASE u \in DOMAIN traces /\ calls[c].seq <= traces[u].seq
      <4>1. u \in DOMAIN m /\ m[u].seq >= traces[u].seq
        BY <1>3, <3>3
      <4>2. calls[c].seq \in Nat /\ traces[u].seq \in Nat /\ m[u].seq \in Nat
        BY <1>2, <1>3, <1>4, <3>1, <3>3, <4>1 DEF TypeOK, EntryOK, Table
      <4>3. calls[c].seq <= m[u].seq
        BY <3>3, <4>1, <4>2
      <4> QED BY <1>5, <1>6, <3>1, <4>1, <4>3
    <3>4. Crowded(c, n) \/ (u \in DOMAIN traces /\ calls[c].seq <= traces[u].seq)
      BY <1>1, <1>4, <3>1 DEF Counted
    <3> QED BY <3>2, <3>3, <3>4
  <2> QED BY <2>1, <2>2
<1>11. \A i \in DOMAIN log : /\ log[i].call \in DOMAIN calls /\ log[i].call \in DOMAIN calls'
                             /\ calls'[log[i].call] = calls[log[i].call]
                             /\ TraceOf(log[i])' = TraceOf(log[i])
  BY <1>2, <1>4 DEF OneBlock, TraceOf
<1>12. OneBlock'
  BY <1>2, <1>4, <1>11 DEF OneBlock
<1>13. TokensJustified'
  <2> SUFFICES ASSUME NEW u \in DOMAIN traces', NEW tok \in DOMAIN traces'[u].tokens,
                      NEW x, x = traces'[u].tokens[tok]
               PROVE  Justified(u, tok, x)'
    BY DEF TokensJustified
  <2>1. traces'[u].tokens = m[u].tokens /\ u \in DOMAIN m
    BY <1>5
  <2>2. CASE u \in DOMAIN traces
    <3>1. m[u].tokens = traces[u].tokens
      BY <1>3, <2>2
    <3>2. Justified(u, tok, x)
      BY <1>4, <2>1, <2>2, <3>1 DEF TokensJustified
    <3> QED BY <1>2, <1>4, <3>2, JustifiedStays
  <2>3. CASE u \notin DOMAIN traces
    <3>1. traces'[u].tokens = <<>>
      BY <1>3, <2>1, <2>3
    <3> QED BY <3>1
  <2> QED BY <2>2, <2>3
<1>14. Remembered'
  <2> SUFFICES ASSUME mode' = "pretty", NEW i \in DOMAIN log,
                      NEW c, c = log[i].call, NEW u, u = calls[c].trace, u # NoTrace
               PROVE  \/ Crowded(c, n+1)'
                      \/ u \in DOMAIN traces' /\ log[i].expands \subseteq DOMAIN traces'[u].tokens
    BY <1>2, <1>11 DEF Remembered, TraceOf
  <2>1. c \in DOMAIN calls /\ c \in DOMAIN calls' /\ calls'[c].trace = u
    BY <1>11
  <2>2. mode = "pretty"
    BY <1>2 DEF Continues
  <2>3. Crowded(c, n) \/ (u \in DOMAIN traces /\ log[i].expands \subseteq DOMAIN traces[u].tokens)
    BY <1>1, <1>4, <2>1, <2>2 DEF Remembered, TraceOf
  <2>4. CASE Crowded(c, n)
    BY <1>7, <2>1, <2>4
  <2>5. CASE u \in DOMAIN traces /\ log[i].expands \subseteq DOMAIN traces[u].tokens
    <3>1. u \in DOMAIN m /\ m[u].tokens = traces[u].tokens
      BY <1>3, <2>5
    <3>2. CASE u \in DOMAIN traces'
      BY <1>5, <2>1, <2>5, <3>1, <3>2
    <3>3. CASE u \notin DOMAIN traces'
      BY <1>6, <2>1, <3>1, <3>3
    <3> QED BY <3>2, <3>3
  <2> QED BY <2>3, <2>4, <2>5
<1>15. NumbersFollowSending'
  <2> SUFFICES ASSUME NEW c \in DOMAIN calls', NEW d \in DOMAIN calls', c < d,
                      calls'[c].trace = calls'[d].trace, calls'[c].trace # NoTrace
               PROVE  calls'[c].seq < calls'[d].seq \/ Crowded(c, d)'
    BY DEF NumbersFollowSending
  <2>1. c \in DOMAIN calls /\ calls'[c] = calls[c]
    BY <1>2
  <2>2. CASE d \in DOMAIN calls
    <3>1. calls'[d] = calls[d] /\ d \in 0..n /\ d <= d /\ d \in 0..(n+1)
      BY <1>2, <2>2
    <3>2. calls[c].seq < calls[d].seq \/ Crowded(c, d)
      BY <1>4, <2>1, <2>2, <3>1 DEF NumbersFollowSending
    <3>3. Crowded(c, d) => Crowded(c, d)'
      BY <1>1, <1>2, <1>4, <2>1, <3>1, CrowdedGrows
    <3> QED BY <2>1, <3>1, <3>2, <3>3
  <2>3. CASE d = n+1
    <3>1. calls[c].trace = t /\ t # NoTrace
      BY <1>2, <2>1, <2>3
    <3>2. CASE Crowded(c, n)
      BY <1>7, <2>1, <2>3, <3>2
    <3>3. CASE t \in DOMAIN traces /\ calls[c].seq <= traces[t].seq
      <4>1. calls'[d].seq = traces[t].seq + 1
        BY <1>2, <2>3, <3>1, <3>3 DEF Entry
      <4>2. calls[c].seq \in Nat /\ traces[t].seq \in Nat
        BY <1>2, <1>4, <2>1, <3>3 DEF TypeOK, EntryOK
      <4> QED BY <2>1, <3>3, <4>1, <4>2
    <3> QED BY <1>1, <1>4, <2>1, <3>1, <3>2, <3>3 DEF Counted
  <2> QED BY <1>2, <2>2, <2>3
<1>16. RefsResolve'
  <2>1. ASSUME NEW i \in DOMAIN log', NEW ref \in log'[i].refs PROVE Resolves(i, ref)'
    BY <1>2, <1>4, RefsByBlock, ResolvesStays
  <2>2. (\A i \in DOMAIN log : \A ref \in log[i].refs : Resolves(i, ref))'
    BY <2>1
  <2> QED BY <2>2 DEF RefsResolve, Resolves
<1>17. ExpandedOnce'
  <2> SUFFICES ASSUME mode' = "pretty", NEW i \in DOMAIN log, NEW j \in DOMAIN log, i < j,
                      TraceOf(log[i]) = TraceOf(log[j]), TraceOf(log[i]) # NoTrace,
                      log[i].expands \cap log[j].expands # {}, NEW c, c = log[i].call
               PROVE  Crowded(c, n+1)'
    BY <1>2, <1>11 DEF ExpandedOnce
  <2>1. Crowded(c, n)
    BY <1>1, <1>2, <1>4 DEF ExpandedOnce, Continues
  <2> QED BY <1>7, <1>11, <2>1
<1> QED BY <1>8, <1>9, <1>10, <1>12, <1>13, <1>14, <1>15, <1>16, <1>17 DEF IndInv
-----------------------------------------------------------------------------
(* A call has settled. *)

\* The call c settled: the tokens it expanded are recorded, and it has a block that
\* expands them or is lost.
Settles(c, expands) ==
    /\ calls[c].state = "sent"
    /\ expands \cap DOMAIN Known(c) = {}
    /\ traces' = Recorded(c, expands)
    /\ mode' = mode
    /\ \/ /\ calls' = [calls EXCEPT ![c].state = "lost"]
          /\ log' = log
       \/ /\ calls' = [calls EXCEPT ![c].state = "written"]
          /\ \E b : /\ log' = Append(log, b) /\ b.call = c /\ b.expands = expands
                    /\ \A ref \in b.refs :
                          \/ /\ ref[1] \in DOMAIN Known(c) /\ ref[2] = Known(c)[ref[1]]
                          \/ /\ Remembers(c) /\ ref[1] \in expands /\ ref[2] = calls[c].seq

\* Answered and Rejected are such steps, whatever is displayed.
LEMMA EmitSettles ==
    ASSUME NEW c \in DOMAIN calls, NEW shown, Emit(c, shown)
    PROVE  \E expands : Settles(c, expands)
<1>1. \A s : /\ Block(c, s).call = c /\ Block(c, s).expands \cap DOMAIN Known(c) = {}
             /\ \A ref \in Block(c, s).refs :
                   \/ /\ ref[1] \in DOMAIN Known(c) /\ ref[2] = Known(c)[ref[1]]
                   \/ /\ Remembers(c) /\ ref[1] \in Block(c, s).expands /\ ref[2] = calls[c].seq
  BY DEF Block
<1>2. CASE Written(c, shown)
  <2>1. PICK b : b = Block(c, shown)
    OBVIOUS
  <2>2. Settles(c, b.expands)
    BY <1>1, <1>2, <2>1 DEF Emit, Written, Settles
  <2> QED BY <2>2
<1>3. CASE Lost(c, shown)
  <2>1. PICK s, expands : expands = Block(c, s).expands /\ traces' = Recorded(c, expands)
    BY <1>3 DEF Lost
  <2>2. Settles(c, expands)
    BY <1>1, <1>3, <2>1 DEF Emit, Lost, Settles
  <2> QED BY <2>2
<1> QED BY <1>2, <1>3 DEF Emit

\* The table after the tokens were recorded.
LEMMA RecordedFacts ==
    ASSUME TypeOK, NEW c \in DOMAIN calls, NEW expands, NEW t, t = calls[c].trace,
           NEW T, T = Recorded(c, expands)
    PROVE  /\ DOMAIN T = DOMAIN traces /\ T = [u \in DOMAIN T |-> T[u]]
           /\ \A u \in DOMAIN traces :
                 T[u].seq = traces[u].seq /\ T[u].at = traces[u].at /\ EntryOK(T[u])
           /\ \A u \in DOMAIN traces \ {t} : T[u] = traces[u]
           /\ ~Remembers(c) => T = traces
           /\ Remembers(c) =>
                 /\ t \in DOMAIN traces
                 /\ DOMAIN T[t].tokens = DOMAIN traces[t].tokens \cup expands
                 /\ \A tok \in DOMAIN T[t].tokens :
                       T[t].tokens[tok] = IF tok \in expands THEN calls[c].seq
                                          ELSE traces[t].tokens[tok]
<1>1. /\ traces = [u \in DOMAIN traces |-> traces[u]]
      /\ \A u \in DOMAIN traces : EntryOK(traces[u])
  BY DEF TypeOK
<1>2. CASE ~Remembers(c)
  <2>1. T = traces
    BY <1>2 DEF Recorded
  <2> QED BY <1>1, <1>2, <2>1
<1>3. CASE Remembers(c)
  <2> DEFINE old == traces[t].tokens
             new == [tok \in DOMAIN old \cup expands |->
                        IF tok \in expands THEN calls[c].seq ELSE old[tok]]
  <2>1. t \in DOMAIN traces
    BY <1>3 DEF Remembers
  <2>2. T = [traces EXCEPT ![t].tokens = new]
    BY <1>3 DEF Recorded
  <2>3. /\ DOMAIN new = DOMAIN old \cup expands
        /\ \A tok \in DOMAIN new : new[tok] = IF tok \in expands THEN calls[c].seq ELSE old[tok]
    OBVIOUS
  <2> HIDE DEF new
  <2>4. /\ DOMAIN T = DOMAIN traces
        /\ \A u \in DOMAIN traces \ {t} : T[u] = traces[u]
        /\ T[t] = [traces[t] EXCEPT !.tokens = new]
    BY <1>1, <2>1, <2>2
  <2>5. traces[t] = [seq |-> traces[t].seq, tokens |-> traces[t].tokens, at |-> traces[t].at]
        /\ traces[t].seq \in Nat /\ traces[t].at \in Nat
    BY <1>1, <2>1 DEF EntryOK
  <2>6. T[t] = [seq |-> traces[t].seq, tokens |-> new, at |-> traces[t].at]
    BY <2>4, <2>5
  <2>7. T[t].seq = traces[t].seq /\ T[t].at = traces[t].at /\ T[t].tokens = new /\ EntryOK(T[t])
    BY <2>5, <2>6 DEF EntryOK
  <2>8. T = [u \in DOMAIN T |-> T[u]]
    BY <1>1, <2>2
  <2> QED BY <1>1, <1>3, <2>1, <2>3, <2>4, <2>7, <2>8
<1> QED BY <1>2, <1>3

\* Append, to a sequence of any elements.
Sequence(s) == DOMAIN s = 1..Len(s) /\ Len(s) \in Nat /\ s = [i \in DOMAIN s |-> s[i]]

Extends(r, s, b) == r = Append(s, b)

LEMMA Appended ==
    ASSUME NEW s, Sequence(s), NEW b, NEW r, Extends(r, s, b)
    PROVE  /\ Sequence(r) /\ Len(r) = Len(s) + 1
           /\ \A i \in DOMAIN s : r[i] = s[i]
           /\ r[Len(s) + 1] = b
<1> USE DEF Sequence, Extends
<1>1. PICK S : S = {s[i] : i \in DOMAIN s} \cup {b}
  OBVIOUS
<1>2. b \in S /\ \A i \in 1..Len(s) : s[i] \in S
  BY <1>1
<1>3. PICK n \in Nat : n = Len(s)
  OBVIOUS
<1>4. s \in [1..n -> S]
  BY <1>2, <1>3
<1>5. s \in Seq(S)
  BY <1>4
<1>6. r \in Seq(S) /\ Len(r) = Len(s) + 1 /\ r[Len(s) + 1] = b /\ \A i \in 1..Len(s) : r[i] = s[i]
  BY <1>2, <1>5
<1>7. Len(r) \in Nat /\ r \in [1..Len(r) -> S]
  BY <1>6, LenProperties
<1>8. DOMAIN r = 1..Len(r) /\ r = [i \in DOMAIN r |-> r[i]]
  BY <1>7
<1> QED BY <1>6, <1>8

\* Calls, blocks and table after a call has settled.
LEMMA Settled ==
    ASSUME IndInv, NEW c \in DOMAIN calls, NEW expands, Settles(c, expands)
    PROVE  /\ Continues /\ DOMAIN calls' = DOMAIN calls /\ Len(calls') = Len(calls)
           /\ \A k \in DOMAIN calls \ {c} : calls'[k] = calls[k]
           /\ \A k \in DOMAIN calls : calls'[k].trace = calls[k].trace /\ calls'[k].seq = calls[k].seq
           /\ \/ /\ log' = log
                 /\ calls'[c] = [trace |-> calls[c].trace, seq |-> calls[c].seq, state |-> "lost"]
              \/ /\ Len(log') = Len(log) + 1 /\ DOMAIN log' = DOMAIN log \cup {Len(log')}
                 /\ calls'[c].state = "written"
                 /\ log'[Len(log')].call = c /\ log'[Len(log')].expands = expands
                 /\ \A ref \in log'[Len(log')].refs :
                       \/ /\ ref[1] \in DOMAIN Known(c) /\ ref[2] = Known(c)[ref[1]]
                       \/ /\ Remembers(c) /\ ref[1] \in expands /\ ref[2] = calls[c].seq
           /\ log' = [i \in DOMAIN log' |-> log'[i]]
<1>1. /\ calls \in Seq(Call) /\ DOMAIN log = 1..Len(log) /\ Len(log) \in Nat
      /\ log = [i \in DOMAIN log |-> log[i]] /\ calls[c].state = "sent" /\ mode' = mode
  BY DEF IndInv, TypeOK, Settles
<1>2. ASSUME NEW st \in {"written", "lost"}, calls' = [calls EXCEPT ![c].state = st]
      PROVE  /\ calls' \in Seq(Call) /\ DOMAIN calls' = DOMAIN calls /\ Len(calls') = Len(calls)
             /\ \A k \in DOMAIN calls \ {c} : calls'[k] = calls[k]
             /\ calls'[c] = [trace |-> calls[c].trace, seq |-> calls[c].seq, state |-> st]
  <2>1. calls[c] \in Call
    BY <1>1
  <2>2. PICK x : x = [calls[c] EXCEPT !.state = st]
    OBVIOUS
  <2>3. x \in Call /\ x = [trace |-> calls[c].trace, seq |-> calls[c].seq, state |-> st]
    BY <2>1, <2>2 DEF Call
  <2>4. calls' = [calls EXCEPT ![c] = x]
    BY <1>2, <2>2
  <2> QED BY <1>1, <2>3, <2>4
<1>3. CASE log' = log /\ calls' = [calls EXCEPT ![c].state = "lost"]
  <2>1. /\ calls' \in Seq(Call) /\ DOMAIN calls' = DOMAIN calls /\ Len(calls') = Len(calls)
        /\ \A k \in DOMAIN calls \ {c} : calls'[k] = calls[k]
        /\ calls'[c] = [trace |-> calls[c].trace, seq |-> calls[c].seq, state |-> "lost"]
    BY <1>2, <1>3
  <2>2. \A k \in DOMAIN calls : calls'[k].trace = calls[k].trace /\ calls'[k].seq = calls[k].seq
    BY <2>1
  <2>3. Continues
    <3>1. Len(calls) \in Nat /\ Len(calls) <= Len(calls')
      BY <1>1, <2>1
    <3>2. \A k \in DOMAIN calls : calls[k].state # "sent" => calls'[k] = calls[k]
      BY <1>1, <2>1
    <3>3. /\ DOMAIN log' = 1..Len(log') /\ Len(log') \in Nat /\ Len(log) <= Len(log')
          /\ \A i \in DOMAIN log : log'[i] = log[i]
      BY <1>1, <1>3
    <3> QED BY <1>1, <2>1, <2>2, <3>1, <3>2, <3>3 DEF Continues
  <2>4. log' = log /\ log' = [i \in DOMAIN log' |-> log'[i]]
    BY <1>1, <1>3
  <2> QED BY <2>1, <2>2, <2>3, <2>4
<1>4. CASE \E b : /\ log' = Append(log, b) /\ calls' = [calls EXCEPT ![c].state = "written"]
                  /\ b.call = c /\ b.expands = expands
                  /\ \A ref \in b.refs :
                        \/ /\ ref[1] \in DOMAIN Known(c) /\ ref[2] = Known(c)[ref[1]]
                        \/ /\ Remembers(c) /\ ref[1] \in expands /\ ref[2] = calls[c].seq
  <2>1. PICK b : /\ log' = Append(log, b) /\ calls' = [calls EXCEPT ![c].state = "written"]
                 /\ b.call = c /\ b.expands = expands
                 /\ \A ref \in b.refs :
                       \/ /\ ref[1] \in DOMAIN Known(c) /\ ref[2] = Known(c)[ref[1]]
                       \/ /\ Remembers(c) /\ ref[1] \in expands /\ ref[2] = calls[c].seq
    BY <1>4
  <2>2. /\ calls' \in Seq(Call) /\ DOMAIN calls' = DOMAIN calls /\ Len(calls') = Len(calls)
        /\ \A k \in DOMAIN calls \ {c} : calls'[k] = calls[k]
        /\ calls'[c] = [trace |-> calls[c].trace, seq |-> calls[c].seq, state |-> "written"]
    BY <1>2, <2>1
  <2>3. \A k \in DOMAIN calls : calls'[k].trace = calls[k].trace /\ calls'[k].seq = calls[k].seq
    BY <2>2
  <2>4. /\ DOMAIN log' = 1..Len(log') /\ Len(log') = Len(log) + 1 /\ log' = [i \in DOMAIN log' |-> log'[i]]
        /\ \A i \in DOMAIN log : log'[i] = log[i]
        /\ log'[Len(log) + 1] = b
    <3>1. PICK s, r : s = log /\ r = log'
      OBVIOUS
    <3>2. Sequence(s) /\ Extends(r, s, b)
      BY <1>1, <2>1, <3>1 DEF Sequence, Extends
    <3>3. /\ Sequence(r) /\ Len(r) = Len(s) + 1
          /\ \A i \in DOMAIN s : r[i] = s[i]
          /\ r[Len(s) + 1] = b
      BY <3>2, Appended
    <3> QED BY <3>1, <3>3 DEF Sequence
  <2>5. DOMAIN log' = DOMAIN log \cup {Len(log')} /\ log'[Len(log')] = b
    BY <1>1, <2>4
  <2>6. Continues
    BY <1>1, <2>2, <2>3, <2>4 DEF Continues
  <2> QED BY <2>1, <2>2, <2>3, <2>4, <2>5, <2>6
<1> QED BY <1>3, <1>4 DEF Settles
LEMMA SettleInv ==
    ASSUME IndInv, NEW c \in DOMAIN calls, NEW expands, Settles(c, expands)
    PROVE  IndInv'
<1>1. PICK n : n = Len(calls)
  OBVIOUS
<1>2. PICK t : t = calls[c].trace
  OBVIOUS
<1>3. PICK m : m = Len(log')
  OBVIOUS
<1>4. /\ TypeOK /\ LastUse /\ Counted /\ OneBlock /\ TokensJustified /\ Remembered
      /\ NumbersFollowSending /\ RefsResolve /\ ExpandedOnce
  BY DEF IndInv
<1>5. /\ n \in Nat /\ DOMAIN calls = 1..n /\ DOMAIN calls' = 1..n /\ Len(calls') = n
      /\ Continues
      /\ \A k \in DOMAIN calls \ {c} : calls'[k] = calls[k]
      /\ \A k \in DOMAIN calls : /\ calls'[k].trace = calls[k].trace
                                 /\ calls'[k].seq = calls[k].seq /\ calls[k].seq \in Nat
      /\ calls[c].state = "sent" /\ mode' = mode
  <2>1. calls \in Seq(Call)
    BY <1>4 DEF TypeOK
  <2>2. \A k \in DOMAIN calls : calls[k] \in Call
    BY <2>1
  <2>3. \A k \in DOMAIN calls : calls[k].seq \in Nat
    BY <2>2 DEF Call
  <2>4. calls[c].state = "sent" /\ mode' = mode
    BY DEF Settles
  <2>5. n \in Nat /\ DOMAIN calls = 1..n
    BY <1>1, <2>1
  <2> QED BY <1>1, <2>3, <2>4, <2>5, Settled
<1>6. \/ /\ log' = log
         /\ calls'[c] = [trace |-> calls[c].trace, seq |-> calls[c].seq, state |-> "lost"]
      \/ /\ m = Len(log) + 1 /\ DOMAIN log' = DOMAIN log \cup {m}
         /\ calls'[c].state = "written"
         /\ log'[m].call = c /\ log'[m].expands = expands
         /\ \A ref \in log'[m].refs :
               \/ /\ ref[1] \in DOMAIN Known(c) /\ ref[2] = Known(c)[ref[1]]
               \/ /\ Remembers(c) /\ ref[1] \in expands /\ ref[2] = calls[c].seq
  BY <1>3, Settled
<1>7. /\ DOMAIN log = 1..Len(log) /\ Len(log) \in Nat
      /\ DOMAIN log' = 1..m /\ m \in Nat /\ log' = [i \in DOMAIN log' |-> log'[i]]
      /\ \A i \in DOMAIN log : log'[i] = log[i] /\ i \in DOMAIN log'
  BY <1>3, <1>4, <1>5, Settled DEF TypeOK, Continues
<1>8. /\ DOMAIN traces' = DOMAIN traces /\ traces' = [u \in DOMAIN traces' |-> traces'[u]]
      /\ \A u \in DOMAIN traces :
            traces'[u].seq = traces[u].seq /\ traces'[u].at = traces[u].at /\ EntryOK(traces'[u])
      /\ \A u \in DOMAIN traces \ {t} : traces'[u] = traces[u]
      /\ ~Remembers(c) => traces' = traces
      /\ Remembers(c) =>
            /\ t \in DOMAIN traces
            /\ DOMAIN traces'[t].tokens = DOMAIN traces[t].tokens \cup expands
            /\ \A tok \in DOMAIN traces'[t].tokens :
                  traces'[t].tokens[tok] = IF tok \in expands THEN calls[c].seq
                                           ELSE traces[t].tokens[tok]
  <2>1. PICK T : T = traces'
    OBVIOUS
  <2>2. T = Recorded(c, expands)
    BY <2>1 DEF Settles
  <2> HIDE <2>1
  <2>3. /\ DOMAIN T = DOMAIN traces /\ T = [u \in DOMAIN T |-> T[u]]
        /\ \A u \in DOMAIN traces :
              T[u].seq = traces[u].seq /\ T[u].at = traces[u].at /\ EntryOK(T[u])
        /\ \A u \in DOMAIN traces \ {t} : T[u] = traces[u]
        /\ ~Remembers(c) => T = traces
        /\ Remembers(c) =>
              /\ t \in DOMAIN traces
              /\ DOMAIN T[t].tokens = DOMAIN traces[t].tokens \cup expands
              /\ \A tok \in DOMAIN T[t].tokens :
                    T[t].tokens[tok] = IF tok \in expands THEN calls[c].seq
                                       ELSE traces[t].tokens[tok]
    BY <1>2, <1>4, <2>2, RecordedFacts
  <2> QED BY <2>1, <2>3
<1>9. ASSUME NEW k \in DOMAIN calls, NEW d \in 0..n, Crowded(k, d) PROVE Crowded(k, d)'
  BY <1>1, <1>4, <1>5, <1>9, CrowdedGrows
<1>10. \A i \in DOMAIN log :
          /\ log[i].call \in DOMAIN calls /\ log[i].call # c /\ log[i].call \in DOMAIN calls'
          /\ log'[i] = log[i] /\ calls'[log[i].call] = calls[log[i].call]
          /\ TraceOf(log[i]) \in {calls[log[i].call].trace} /\ TraceOf(log[i])' = TraceOf(log[i])
          /\ NumberOf(log[i])' = NumberOf(log[i])
  BY <1>4, <1>5, <1>7 DEF OneBlock, TraceOf, NumberOf
<1>11. ASSUME m = Len(log) + 1, log'[m].call = c
       PROVE  TraceOf(log[m])' = t /\ NumberOf(log[m])' = calls[c].seq
  BY <1>2, <1>5, <1>11 DEF TraceOf, NumberOf
<1>12. TypeOK'
  BY <1>3, <1>4, <1>5, <1>7, <1>8 DEF TypeOK, Continues
<1>13. LastUse'
  BY <1>4, <1>5, <1>8 DEF LastUse
<1>14. Counted'
  <2> SUFFICES ASSUME NEW k \in DOMAIN calls, calls[k].trace # NoTrace
               PROVE  \/ Crowded(k, n)'
                      \/ /\ calls[k].trace \in DOMAIN traces
                         /\ calls[k].seq <= traces[calls[k].trace].seq
    BY <1>5, <1>8 DEF Counted
  <2>1. \/ Crowded(k, n)
        \/ calls[k].trace \in DOMAIN traces /\ calls[k].seq <= traces[calls[k].trace].seq
    BY <1>1, <1>4 DEF Counted
  <2> QED BY <1>5, <1>9, <2>1
<1>15. OneBlock'
  <2>1. ASSUME log' = log PROVE OneBlock'
    BY <1>4, <1>10, <2>1 DEF OneBlock
  <2>2. ASSUME DOMAIN log' = DOMAIN log \cup {m}, calls'[c].state = "written", log'[m].call = c
        PROVE  OneBlock'
    BY <1>4, <1>5, <1>10, <2>2 DEF OneBlock
  <2> QED BY <1>6, <2>1, <2>2
<1>16. TokensJustified'
  <2> SUFFICES ASSUME NEW u \in DOMAIN traces', NEW tok \in DOMAIN traces'[u].tokens,
                      NEW x, x = traces'[u].tokens[tok]
               PROVE  Justified(u, tok, x)'
    BY DEF TokensJustified
  <2>1. CASE Remembers(c) /\ u = t /\ tok \in expands
    <3>1. x = calls[c].seq
      BY <1>8, <2>1
    <3>2. CASE calls'[c] = [trace |-> calls[c].trace, seq |-> calls[c].seq, state |-> "lost"]
      <4>1. c \in DOMAIN calls' /\ calls'[c] = [trace |-> u, seq |-> x, state |-> "lost"]
        BY <1>2, <1>5, <2>1, <3>1, <3>2
      <4> QED BY <4>1 DEF Justified
    <3>3. CASE /\ m = Len(log) + 1 /\ DOMAIN log' = DOMAIN log \cup {m}
               /\ log'[m].call = c /\ log'[m].expands = expands
      <4>1. /\ m \in DOMAIN log' /\ TraceOf(log[m])' = u /\ NumberOf(log[m])' = x
            /\ tok \in log'[m].expands
        BY <1>11, <2>1, <3>1, <3>3
      <4> QED BY <4>1 DEF Justified
    <3> QED BY <1>6, <3>2, <3>3
  <2>2. CASE ~(Remembers(c) /\ u = t /\ tok \in expands)
    <3>1. u \in DOMAIN traces /\ tok \in DOMAIN traces[u].tokens /\ x = traces[u].tokens[tok]
      BY <1>8, <2>2
    <3>2. Justified(u, tok, x)
      BY <1>4, <3>1 DEF TokensJustified
    <3> QED BY <1>4, <1>5, <3>2, JustifiedStays
  <2> QED BY <2>1, <2>2
<1>17. Remembered'
  <2> SUFFICES ASSUME mode' = "pretty", NEW i \in DOMAIN log', TraceOf(log[i])' # NoTrace,
                      NEW k, k = log'[i].call, NEW u, u = TraceOf(log[i])'
               PROVE  \/ Crowded(k, n)'
                      \/ u \in DOMAIN traces' /\ log'[i].expands \subseteq DOMAIN traces'[u].tokens
    BY <1>5 DEF Remembered
  <2>1. CASE i \in DOMAIN log
    <3>1. /\ k = log[i].call /\ k \in DOMAIN calls /\ u = TraceOf(log[i]) /\ u # NoTrace
          /\ log'[i].expands = log[i].expands
      BY <1>10, <2>1
    <3>2. Crowded(k, n) \/ (u \in DOMAIN traces /\ log[i].expands \subseteq DOMAIN traces[u].tokens)
      BY <1>1, <1>4, <1>5, <2>1, <3>1 DEF Remembered
    <3>3. u \in DOMAIN traces => /\ u \in DOMAIN traces'
                                 /\ DOMAIN traces[u].tokens \subseteq DOMAIN traces'[u].tokens
      BY <1>8
    <3> QED BY <1>5, <1>9, <3>1, <3>2, <3>3
  <2>2. CASE i \notin DOMAIN log
    <3>1. m = Len(log) + 1 /\ i = m /\ log'[m].call = c /\ log'[m].expands = expands
      BY <1>6, <2>2
    <3>2. k = c /\ u = t /\ t # NoTrace
      BY <1>11, <3>1
    <3>3. CASE t \in DOMAIN traces
      <4>1. Remembers(c)
        BY <1>2, <1>5, <3>3 DEF Remembers
      <4> QED BY <1>8, <3>1, <3>2, <4>1
    <3>4. CASE t \notin DOMAIN traces
      <4>1. Crowded(c, n)
        BY <1>1, <1>2, <1>4, <3>2, <3>4 DEF Counted
      <4> QED BY <1>5, <1>9, <3>2, <4>1
    <3> QED BY <3>3, <3>4
  <2> QED BY <2>1, <2>2
<1>18. NumbersFollowSending'
  <2> SUFFICES ASSUME NEW k \in DOMAIN calls, NEW d \in DOMAIN calls, k < d,
                      calls[k].trace = calls[d].trace, calls[k].trace # NoTrace
               PROVE  calls[k].seq < calls[d].seq \/ Crowded(k, d)'
    BY <1>5 DEF NumbersFollowSending
  <2>1. calls[k].seq < calls[d].seq \/ Crowded(k, d)
    BY <1>4 DEF NumbersFollowSending
  <2> QED BY <1>5, <1>9, <2>1
<1>19. RefsResolve'
  <2>1. ASSUME NEW i \in DOMAIN log, NEW ref \in log'[i].refs PROVE Resolves(i, ref)'
    BY <1>4, <1>5, <1>7, RefsByBlock, ResolvesStays
  <2>2. ASSUME m = Len(log) + 1, log'[m].call = c, log'[m].expands = expands, NEW ref,
               Remembers(c), ref[1] \in expands, ref[2] = calls[c].seq
        PROVE  Resolves(m, ref)'
    <3>1. TraceOf(log[m])' = t /\ NumberOf(log[m])' = ref[2] /\ ref[1] \in log'[m].expands
      BY <1>11, <2>2
    <3>2. m \in 1..m
      BY <1>7, <2>2
    <3> QED BY <3>1, <3>2 DEF Resolves
  <2>3. ASSUME m = Len(log) + 1, log'[m].call = c, NEW ref,
               ref[1] \in DOMAIN Known(c), ref[2] = Known(c)[ref[1]]
        PROVE  Resolves(m, ref)'
    <3>1. t \in DOMAIN traces /\ Known(c) = traces[t].tokens
      BY <1>2, <2>3 DEF Known
    <3>2. Justified(t, ref[1], ref[2])
      BY <1>4, <2>3, <3>1 DEF TokensJustified
    <3>3. t # NoTrace
      BY <1>4, <3>1, WireAssumption DEF TypeOK
    <3>4. TraceOf(log[m])' = t /\ NumberOf(log[m])' = calls[c].seq
      BY <1>11, <2>3
    <3>5. ASSUME NEW j \in DOMAIN log, TraceOf(log[j]) = t, NumberOf(log[j]) = ref[2],
                 ref[1] \in log[j].expands
          PROVE  Resolves(m, ref)'
      <4>1. PICK k : k = log[j].call
        OBVIOUS
      <4>2. /\ k \in DOMAIN calls /\ k # c /\ calls[k].trace = t /\ calls[k].seq = ref[2]
            /\ log'[j].call = k /\ log'[m].call = c
        BY <1>10, <2>3, <3>5, <4>1 DEF TraceOf, NumberOf
      <4>3. /\ TraceOf(log[j])' = t /\ NumberOf(log[j])' = ref[2] /\ ref[1] \in log'[j].expands
            /\ j \in 1..m
        BY <1>7, <1>10, <2>3, <3>5
      <4>4. ref[2] # calls[c].seq \/ Crowded(k, c) \/ Crowded(c, k)
        BY <1>2, <1>4, <1>5, <3>3, <4>2 DEF NumbersFollowSending
      <4>5. ref[2] # calls[c].seq \/ Crowded(k, c)' \/ Crowded(c, k)'
        BY <1>5, <1>9, <4>2, <4>4
      <4>6. \/ (NumberOf(log[j]) # NumberOf(log[m]))'
            \/ Crowded(log[m].call, log[j].call)' \/ Crowded(log[j].call, log[m].call)'
        BY <3>4, <4>2, <4>3, <4>5
      <4> QED BY <3>4, <4>3, <4>6 DEF Resolves
    <3>6. ASSUME NEW k \in DOMAIN calls,
                 calls[k] = [trace |-> t, seq |-> ref[2], state |-> "lost"]
          PROVE  Resolves(m, ref)'
      <4>1. k \in DOMAIN calls' /\ calls'[k] = [trace |-> t, seq |-> ref[2], state |-> "lost"]
        BY <1>5, <3>6
      <4> QED BY <3>4, <4>1 DEF Resolves
    <3> QED BY <3>2, <3>5, <3>6 DEF Justified
  <2>4. ASSUME NEW i \in DOMAIN log', NEW ref \in log'[i].refs PROVE Resolves(i, ref)'
    BY <1>6, <2>1, <2>2, <2>3, <2>4
  <2>5. (\A i \in DOMAIN log : \A ref \in log[i].refs : Resolves(i, ref))'
    BY <2>4
  <2> QED BY <2>5 DEF RefsResolve, Resolves
<1>20. ExpandedOnce'
  <2> SUFFICES ASSUME mode = "pretty", NEW i \in DOMAIN log', NEW j \in DOMAIN log', i < j,
                      TraceOf(log[i])' = TraceOf(log[j])', TraceOf(log[i])' # NoTrace,
                      log'[i].expands \cap log'[j].expands # {}, NEW k, k = log'[i].call
               PROVE  Crowded(k, n)'
    BY <1>5 DEF ExpandedOnce
  <2>1. i \in DOMAIN log
    BY <1>6, <1>7
  <2>2. k = log[i].call /\ k \in DOMAIN calls /\ log'[i] = log[i] /\ TraceOf(log[i])' = TraceOf(log[i])
    BY <1>10, <2>1
  <2>3. CASE j \in DOMAIN log
    <3>1. /\ TraceOf(log[i]) = TraceOf(log[j]) /\ TraceOf(log[i]) # NoTrace
          /\ log[i].expands \cap log[j].expands # {}
      BY <1>10, <2>1, <2>3
    <3>2. Crowded(k, n)
      BY <1>1, <1>4, <2>1, <2>2, <2>3, <3>1 DEF ExpandedOnce
    <3> QED BY <1>5, <1>9, <2>2, <3>2
  <2>4. CASE j \notin DOMAIN log
    <3>1. m = Len(log) + 1 /\ j = m /\ log'[m].call = c /\ log'[m].expands = expands
      BY <1>6, <2>4
    <3>2. TraceOf(log[i]) = t /\ t # NoTrace /\ log[i].expands \cap expands # {}
      BY <1>11, <2>2, <3>1
    <3>3. Crowded(k, n) \/ (t \in DOMAIN traces /\ log[i].expands \subseteq DOMAIN traces[t].tokens)
      BY <1>1, <1>4, <2>1, <2>2, <3>2 DEF Remembered
    <3>4. t \in DOMAIN traces => Known(c) = traces[t].tokens
      BY <1>2 DEF Known
    <3>5. expands \cap DOMAIN Known(c) = {}
      BY DEF Settles
    <3>6. Crowded(k, n)
      BY <3>2, <3>3, <3>4, <3>5
    <3> QED BY <1>5, <1>9, <2>2, <3>6
  <2> QED BY <2>3, <2>4
<1> QED BY <1>12, <1>13, <1>14, <1>15, <1>16, <1>17, <1>18, <1>19, <1>20 DEF IndInv
-----------------------------------------------------------------------------
LEMMA NextInv == IndInv /\ [Next]_vars => IndInv'
<1> SUFFICES ASSUME IndInv, [Next]_vars PROVE IndInv'
  OBVIOUS
<1>1. CASE \E t \in Traces \cup {NoTrace} : Send(t)
  BY <1>1, SendInv
<1>2. ASSUME NEW c \in DOMAIN calls, Answered(c) PROVE IndInv'
  <2>1. PICK shown : Emit(c, shown)
    BY <1>2 DEF Answered
  <2> QED BY <2>1, EmitSettles, SettleInv
<1>3. ASSUME NEW c \in DOMAIN calls, Rejected(c) PROVE IndInv'
  <2>1. PICK shown : Emit(c, shown)
    BY <1>3 DEF Rejected
  <2> QED BY <2>1, EmitSettles, SettleInv
<1>4. CASE UNCHANGED vars
  <2>1. mode' = mode /\ calls' = calls /\ traces' = traces /\ log' = log
    BY <1>4 DEF vars
  <2>2. TypeOK' /\ LastUse' /\ OneBlock'
    BY <2>1 DEF IndInv, TypeOK, LastUse, OneBlock
  <2>4. Counted' /\ NumbersFollowSending'
    BY <2>1 DEF IndInv, Counted, NumbersFollowSending, Crowded
  <2>5. TokensJustified'
    BY <2>1 DEF IndInv, TokensJustified, Justified, TraceOf, NumberOf
  <2>6. Remembered'
    BY <2>1 DEF IndInv, Remembered, Crowded, TraceOf
  <2>7. RefsResolve'
    <3>1. Continues
      BY <2>1 DEF IndInv, TypeOK, Continues
    <3>2. ASSUME NEW i \in DOMAIN log', NEW ref \in log'[i].refs PROVE Resolves(i, ref)'
      BY <2>1, <3>1, RefsByBlock, ResolvesStays DEF IndInv
    <3>3. (\A i \in DOMAIN log : \A ref \in log[i].refs : Resolves(i, ref))'
      BY <3>2
    <3> QED BY <3>3 DEF RefsResolve, Resolves
  <2>8. ExpandedOnce'
    BY <2>1 DEF IndInv, ExpandedOnce, Crowded, TraceOf
  <2> QED BY <2>2, <2>4, <2>5, <2>6, <2>7, <2>8 DEF IndInv
<1> QED BY <1>1, <1>2, <1>3, <1>4 DEF Next

\* Every state of the wire log satisfies the inductive invariant.
THEOREM Invariance == Spec => []IndInv
<1>1. Init => IndInv
  BY InitInv
<1>2. IndInv /\ [Next]_vars => IndInv'
  BY NextInv
<1> QED BY <1>1, <1>2, PTL DEF Spec

\* The numbers of a trace follow the order in which its calls were sent (nextSeq
\* before the fetch), unless the table dropped the trace in between.
THEOREM NumbersInOrder == Spec => []NumbersFollowSending
<1>1. IndInv => NumbersFollowSending
  BY DEF IndInv
<1> QED BY <1>1, Invariance, PTL

\* A reference to an earlier block leads to a block that shows the token, or to one
\* that was lost (pushLine, seenTokens).
THEOREM ReferencesResolve == Spec => []RefsResolve
<1>1. IndInv => RefsResolve
  BY DEF IndInv
<1> QED BY <1>1, Invariance, PTL

\* In pretty mode a token is expanded twice in a trace only after the trace was
\* dropped from the table.
THEOREM TokensExpandedOnce == Spec => []ExpandedOnce
<1>1. IndInv => ExpandedOnce
  BY DEF IndInv
<1> QED BY <1>1, Invariance, PTL
=============================================================================
