------------------------------- MODULE WireLog -------------------------------
(***************************************************************************)
(* The HTTP wire log: wrapFetch of otel-bootstrap, installed on the global *)
(* fetch of every Node service.  A call is numbered within its trace when  *)
(* it is sent; its block is written when the fetch has settled and the     *)
(* bodies have been read, in any order among the calls in flight.  What    *)
(* happens in between touches nothing that calls share: it is one step.    *)
(* A token is expanded once per trace and referred to by number after      *)
(* that.  The table of traces is bounded.                                  *)
(***************************************************************************)
EXTENDS Naturals, Sequences, FiniteSets

CONSTANTS Traces,      \* trace ids of the active spans
          NoTrace,     \* a call made outside any span
          Headers,     \* the JWTs that the headers of a request may carry, in order
          Bodies,      \* the JWTs that a body may carry, in order
          MaxTraces,   \* 256 in the code
          MaxCalls     \* bound: number of calls

ASSUME WireAssumption ==
    /\ NoTrace \notin Traces
    /\ MaxTraces \in Nat \ {0}
    /\ MaxCalls \in Nat

VARIABLES mode,     \* "pretty" or "full", fixed by the environment
          calls,    \* the calls in the order they were sent
          traces,   \* the Map: per trace its last number, its tokens, its place
          log       \* the blocks in the order they were written

vars == <<mode, calls, traces, log>>
-----------------------------------------------------------------------------
NoEntry == [seq |-> 0, tokens |-> <<>>]
Entry(t) == IF t \in DOMAIN traces THEN traces[t] ELSE NoEntry

\* Mutant of Touched: set without the delete, so that the trace keeps its place.
Touched_inPlace(t) ==
    LET e == [seq |-> Entry(t).seq + 1, tokens |-> Entry(t).tokens,
              at |-> IF t \in DOMAIN traces THEN traces[t].at ELSE Len(calls) + 1]
    IN  [u \in DOMAIN traces \cup {t} |-> IF u = t THEN e ELSE traces[u]]

\* The Map after the trace was counted up and moved to the end.
Touched(t) ==
    LET e == [seq |-> Entry(t).seq + 1, tokens |-> Entry(t).tokens, at |-> Len(calls) + 1]
    IN  [u \in DOMAIN traces \cup {t} |-> IF u = t THEN e ELSE traces[u]]

\* The trace in the first place of the Map is dropped when there are too many.
Evicted(m) ==
    LET oldest == CHOOSE u \in DOMAIN m : \A v \in DOMAIN m : m[u].at <= m[v].at
    IN  IF Cardinality(DOMAIN m) > MaxTraces
        THEN [u \in DOMAIN m \ {oldest} |-> m[u]] ELSE m

\* wireLoggedFetch up to the call of the original fetch.
Send(t) ==
    /\ Len(calls) < MaxCalls
    /\ IF t = NoTrace
       THEN /\ calls' = Append(calls, [trace |-> t, seq |-> 0, state |-> "sent"])
            /\ UNCHANGED traces
       ELSE /\ calls' = Append(calls, [trace |-> t, seq |-> Entry(t).seq + 1, state |-> "sent"])
            /\ traces' = Evicted(Touched(t))
    /\ UNCHANGED <<mode, log>>

-----------------------------------------------------------------------------
(***************************************************************************)
(* The block of a call.                                                    *)
(***************************************************************************)
Elements(s) == {s[i] : i \in DOMAIN s}

\* Mutant of Known: one table for all traces.
Known_shared(c) ==
    LET used == {t \in DOMAIN traces : traces[t].tokens # <<>>}
    IN  IF mode = "full" \/ calls[c].trace = NoTrace \/ used = {} THEN <<>>
        ELSE traces[CHOOSE t \in used : TRUE].tokens

\* The tokens that pushLine finds in seenTokens, with their numbers.
Known(c) == IF mode = "full" \/ calls[c].trace \notin DOMAIN traces THEN <<>>
            ELSE traces[calls[c].trace].tokens

\* Whether pushLine remembers what it expands.
Remembers(c) == mode = "pretty" /\ calls[c].trace \in DOMAIN traces

\* A token is expanded where it is shown first; shown again in the same block it
\* is "the same token as above", unless nothing is remembered.
Block(c, shown) ==
    LET known == Known(c)
        fresh == Elements(shown) \ DOMAIN known
        again == {tok \in fresh : \E i, j \in DOMAIN shown : i # j /\ shown[i] = tok /\ shown[j] = tok}
    IN  [call |-> c,
         expands |-> fresh,
         refs |-> {<<tok, known[tok]>> : tok \in Elements(shown) \cap DOMAIN known}
                  \cup {<<tok, calls[c].seq>> : tok \in IF Remembers(c) THEN again ELSE {}}]

\* Mutant of Recorded: nothing is remembered from block to block.
Recorded_never(c, expands) == traces

\* The tokens expanded now are known from now on, by the number of the call.
Recorded(c, expands) ==
    IF Remembers(c)
    THEN [traces EXCEPT ![calls[c].trace].tokens =
            [tok \in DOMAIN @ \cup expands |->
                IF tok \in expands THEN calls[c].seq ELSE @[tok]]]
    ELSE traces

\* emit: the block is formatted and written.
Written(c, shown) ==
    /\ log' = Append(log, Block(c, shown))
    /\ traces' = Recorded(c, Block(c, shown).expands)
    /\ calls' = [calls EXCEPT ![c].state = "written"]

\* emit: the formatter throws (a date claim out of range) or the write does.  The
\* error is swallowed; the tokens up to there count as expanded.
Lost(c, shown) ==
    /\ \E expands \in {Block(c, SubSeq(shown, 1, n)).expands : n \in 0..Len(shown)} :
          traces' = Recorded(c, expands)
    /\ calls' = [calls EXCEPT ![c].state = "lost"]
    /\ UNCHANGED log

Emit(c, shown) ==
    /\ calls[c].state = "sent"
    /\ Written(c, shown) \/ Lost(c, shown)
    /\ UNCHANGED mode

\* renderBody: the summaries leave some JWTs of a body out, a long text is cut; a
\* body that could not be read has none.
Rendered == {<<>>} \cup UNION {{SubSeq(b, m, n) : m, n \in DOMAIN b} : b \in Bodies}

\* The bodies are there, and the block shows the headers and what is rendered.
Answered(c) == \E shown \in {h \o q \o r : h \in Headers, q, r \in Rendered} : Emit(c, shown)

\* fetch rejected: the caller has the exception, the block no response.
Rejected(c) == \E shown \in {h \o q : h \in Headers, q \in Rendered} : Emit(c, shown)
-----------------------------------------------------------------------------
\* installWireLog in a service where it is on.
Init ==
    /\ mode \in {"pretty", "full"}
    /\ calls = <<>>
    /\ traces = <<>>
    /\ log = <<>>

Next ==
    \/ \E t \in Traces \cup {NoTrace} : Send(t)
    \/ \E c \in DOMAIN calls : Answered(c)
    \/ \E c \in DOMAIN calls : Rejected(c)

Spec == Init /\ [][Next]_vars
-----------------------------------------------------------------------------
(***************************************************************************)
(* Properties.                                                             *)
(***************************************************************************)
TraceOf(b) == calls[b.call].trace
NumberOf(b) == calls[b.call].seq

\* MaxTraces other traces were used after call c, up to call d.
Crowded(c, d) ==
    Cardinality({calls[e].trace : e \in (c+1)..d} \ {calls[c].trace, NoTrace}) >= MaxTraces

\* The numbers of a trace follow the order of sending: "#n (assigned when the
\* request is SENT, per trace) keeps the order readable".  Only a trace that as
\* many others as the table holds have overtaken starts again.
NumbersFollowSending ==
    \A c, d \in DOMAIN calls :
        (c < d /\ calls[c].trace = calls[d].trace /\ calls[c].trace # NoTrace) =>
            \/ calls[c].seq < calls[d].seq
            \/ Crowded(c, d)

\* A reference "(same token as #n)" leads to a block of the same trace, already
\* written, that has the number and expands the token, unless the block of that
\* number was lost; "above" is in the block itself unless the trace has started
\* again.
RefsResolve ==
    \A i \in DOMAIN log : \A ref \in log[i].refs :
        \/ \E j \in 1..i :
              /\ TraceOf(log[j]) = TraceOf(log[i])
              /\ NumberOf(log[j]) = ref[2]
              /\ ref[1] \in log[j].expands
              /\ i = j \/ NumberOf(log[j]) # NumberOf(log[i])
                       \/ Crowded(log[i].call, log[j].call) \/ Crowded(log[j].call, log[i].call)
        \/ \E c \in DOMAIN calls :
              calls[c] = [trace |-> TraceOf(log[i]), seq |-> ref[2], state |-> "lost"]

\* In pretty mode two blocks of a trace expand the same token only if the
\* trace was dropped from the table after the first of the calls was sent.
ExpandedOnce ==
    mode = "pretty" => \A i, j \in DOMAIN log :
        (/\ i < j
         /\ TraceOf(log[i]) = TraceOf(log[j])
         /\ TraceOf(log[i]) # NoTrace
         /\ log[i].expands \cap log[j].expands # {}) =>
            Crowded(log[i].call, Len(calls))
=============================================================================
