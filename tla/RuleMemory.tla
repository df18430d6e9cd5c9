----------------------------- MODULE RuleMemory ------------------------------
(***************************************************************************)
(* What a rule remembers from one evaluation to the next                   *)
(* (sv_core/parsing/evaluator.py): the previous values of crossings, the   *)
(* histories of count, the runs of streak, the bars divergence looks at.   *)
(* Each is a dictionary; an operator takes the memory st and what one call *)
(* sees and gives the call's value and the memory after it.  Names ending  *)
(* in "Mutant" are faulty variants of the definition that follows them.    *)
(***************************************************************************)
EXTENDS Integers, Sequences, FiniteSets, Dicts

NoState == [cross |-> <<>>, count |-> <<>>, streak |-> <<>>, hist |-> <<>>]

Val(v, st) == [v |-> v, st |-> st]

\* What s[-n:] keeps of s, where that is cut off at all: the last n elements, all of
\* them for 0, and for a negative n all but the first -n.
LastOf(s, n) == SubSeq(s, IF n <= 0 THEN 1 - n
                          ELSE IF Len(s) > n THEN Len(s) - n + 1 ELSE 1, Len(s))

Crosses(name, prev, a, b) ==
    /\ prev # Null
    /\ IF name = "crosses_above" THEN prev[1] < prev[2] /\ a >= b
                                 ELSE prev[1] > prev[2] /\ a <= b

\* The previous pair is kept only the first time.
CrossedMutant(name, key, a, b, st) ==
    LET prev == Get(st.cross, key, Null)
    IN  IF a = Null \/ b = Null THEN Val(Null, st)
        ELSE Val(Crosses(name, prev, a, b),
                 [st EXCEPT !.cross = Put(@, key, IF prev = Null THEN <<a, b>> ELSE prev)])

\* _eval_cross_above and _eval_cross_below, of the two values.  A cycle with a
\* missing value leaves the previous pair as it is.
Crossed(name, key, a, b, st) ==
    IF a = Null \/ b = Null THEN Val(Null, st)
    ELSE Val(Crosses(name, Get(st.cross, key, Null), a, b),
             [st EXCEPT !.cross = Put(@, key, <<a, b>>)])

\* The history is cut before the new evaluation is appended.
CountedMutant(key, period, holds, st) ==
    LET before == Get(st.count, key, <<>>)
        hist == Append(IF period > 0 THEN LastOf(before, period) ELSE before, holds)
    IN  Val(IF period > 0 THEN Cardinality({i \in DOMAIN hist : hist[i]}) ELSE 0,
            [st EXCEPT !.count = Put(@, key, hist)])

\* _eval_count_func: in how many of the last period evaluations did the condition
\* hold?  The history is cut to the period.
Counted(key, period, holds, st) ==
    LET all == Append(Get(st.count, key, <<>>), holds)
        hist == IF period > 0 THEN LastOf(all, period) ELSE all
    IN  Val(IF period > 0 THEN Cardinality({i \in DOMAIN hist : hist[i]}) ELSE 0,
            [st EXCEPT !.count = Put(@, key, hist)])

\* A missing condition leaves the run as it is.
RanMutant(key, holds, st) ==
    LET run == Get(st.streak, key, 0) + (IF holds THEN 1 ELSE 0)
    IN  Val(run, [st EXCEPT !.streak = Put(@, key, run)])

\* _eval_consecutive_func: for how many evaluations has the condition held?
Ran(key, holds, st) ==
    LET run == IF holds THEN Get(st.streak, key, 0) + 1 ELSE 0
    IN  Val(run, [st EXCEPT !.streak = Put(@, key, run)])

Beyond(bullish, a, b) == IF bullish THEN a < b ELSE a > b

\* _detect_divergence on a history of <<price, indicator>>: the last two local
\* extrema of the price, and what the indicator did between them
Divergence(hist, bullish) ==
    LET extrema == {i \in 2..(Len(hist) - 1) : /\ Beyond(bullish, hist[i][1], hist[i - 1][1])
                                               /\ Beyond(bullish, hist[i][1], hist[i + 1][1])}
        last == CHOOSE i \in extrema : \A j \in extrema : j <= i
        before == CHOOSE i \in extrema \ {last} : \A j \in extrema \ {last} : j <= i
    IN  /\ Cardinality(extrema) >= 2
        /\ Beyond(bullish, hist[last][1], hist[before][1])
        /\ Beyond(bullish, hist[before][2], hist[last][2])

\* _eval_divergence, of the lookback, the price and the indicator's value: at least
\* five bars, at most the lookback
Diverged(bullish, key, lookback, price, x, st) ==
    LET hist == LastOf(Append(Get(st.hist, key, <<>>), <<price, x>>), lookback)
    IN  Val(Len(hist) >= 5 /\ Divergence(hist, bullish),
            [st EXCEPT !.hist = Put(@, key, hist)])
=============================================================================
