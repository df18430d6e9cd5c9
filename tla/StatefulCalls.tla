--------------------------- MODULE StatefulCalls -----------------------------
(***************************************************************************)
(* The calls of a rule's script that look back: crossings, count, streak   *)
(* and divergence (sv_core/parsing/evaluator.py), evaluated again and      *)
(* again while the engine runs.  Every call is kept under a key of its own *)
(* in the memory of the rule, which is all that the code has of the past;  *)
(* evaluations keeps what every call saw and said, from which the          *)
(* properties say what it should have said.  The memory starts empty with  *)
(* each start of the engine.                                               *)
(*                                                                         *)
(* An evaluation is [saw |-> what the call saw, said |-> its value].       *)
(***************************************************************************)
EXTENDS RuleMemory

CONSTANTS Calls,        \* the calls a script may contain, by their keys
          Levels,       \* prices, and what is compared with them
          Readings,     \* values of an indicator
          Periods,      \* second arguments of count
          Lookbacks     \* second arguments of divergence

ASSUME MemoryAssumption ==
    /\ Levels \subseteq Int /\ Readings \subseteq Int
    /\ Periods \subseteq Int /\ Lookbacks \subseteq Int
    /\ Null \notin Levels
    /\ \A a, b \in Levels : Null # <<a, b>>

VARIABLES script,       \* the calls of the script, and what each calls
          memory,       \* what the rule remembers
          evaluations   \* the evaluations of each call
memoryVars == <<script, memory, evaluations>>

Crossings == {"crosses_above", "crosses_below"}
Divergences == {"bullish", "bearish"}

Kinds == {[name |-> f, reach |-> 0] : f \in Crossings \cup {"streak"}}
             \cup {[name |-> "count", reach |-> p] : p \in Periods}
             \cup {[name |-> f, reach |-> l] : f \in Divergences, l \in Lookbacks}

MemoryInit == /\ script \in UNION {[C -> Kinds] : C \in SUBSET Calls}
              /\ memory = NoState
              /\ evaluations = [k \in Calls |-> <<>>]

Calling(k, names) == k \in DOMAIN script /\ script[k].name \in names

\* The call saw x and gave the value and the memory of res.
Evaluated(k, x, res) ==
    /\ memory' = res.st
    /\ evaluations' = [evaluations EXCEPT ![k] = Append(@, [saw |-> x, said |-> res.v])]
    /\ UNCHANGED script

EvalCross(k, a, b) ==
    /\ Calling(k, Crossings)
    /\ Evaluated(k, <<a, b>>, Crossed(script[k].name, k, a, b, memory))

EvalCount(k, holds) ==
    /\ Calling(k, {"count"})
    /\ Evaluated(k, holds, Counted(k, script[k].reach, holds = TRUE, memory))

EvalStreak(k, holds) ==
    /\ Calling(k, {"streak"})
    /\ Evaluated(k, holds, Ran(k, holds = TRUE, memory))

\* A bar without a price or an indicator is not looked at: the call is false and
\* remembers nothing.
EvalDivergence(k, price, x) ==
    /\ Calling(k, Divergences)
    /\ Evaluated(k, <<price, x>>,
                 Diverged(script[k].name = "bullish", k, script[k].reach, price, x, memory))

MemoryNext ==
    \E k \in Calls :
       \/ \E a, b \in Levels \cup {Null} : EvalCross(k, a, b)
       \/ \E holds \in BOOLEAN \cup {Null} : EvalCount(k, holds) \/ EvalStreak(k, holds)
       \/ \E price \in Levels, x \in Readings : EvalDivergence(k, price, x)

MemorySpec == MemoryInit /\ [][MemoryNext]_memoryVars
-----------------------------------------------------------------------------
(* What the i-th of the evaluations s of a call should have said.           *)

Blank(s, i) == s[i].saw[1] = Null \/ s[i].saw[2] = Null
Below(pair) == pair[1] < pair[2]
Above(pair) == pair[1] > pair[2]

\* One value, last seen on one side of the other, is not there any more, whatever
\* evaluations with a missing value lie between.
CrossingIsRight(name, s, i) ==
    s[i].said =
        IF Blank(s, i) THEN Null
        ELSE /\ IF name = "crosses_above" THEN ~Below(s[i].saw) ELSE ~Above(s[i].saw)
             /\ \E j \in 1..(i - 1) :
                   /\ ~Blank(s, j)
                   /\ IF name = "crosses_above" THEN Below(s[j].saw) ELSE Above(s[j].saw)
                   /\ \A m \in (j + 1)..(i - 1) : Blank(s, m)

\* The number of evaluations among the last period in which the condition held
CountIsRight(period, s, i) ==
    s[i].said = Cardinality({j \in 1..i : j > i - period /\ s[j].saw = TRUE})

\* The length of the unbroken run of evaluations in which the condition held
StreakIsRight(s, i) ==
    /\ s[i].said \in 0..i
    /\ \A j \in 1..i : j > i - s[i].said => s[j].saw = TRUE
    /\ s[i].said < i => s[i - s[i].said].saw # TRUE

\* Of the bars in reach, at least five, the last two turns of the price lie one
\* beyond the other, and the indicator at them the other way round.
DivergenceIsRight(name, lookback, s, i) ==
    LET beyond(a, b) == Beyond(name = "bullish", a, b)
        price(j) == s[j].saw[1]
        indicator(j) == s[j].saw[2]
        first == IF lookback < 0 THEN i + 1
                 ELSE IF lookback > 0 /\ i > lookback THEN i - lookback + 1 ELSE 1
        inside == (first + 1)..(i - 1)
        turn(j) == beyond(price(j), price(j - 1)) /\ beyond(price(j), price(j + 1))
    IN  s[i].said <=>
            /\ i - first >= 4
            /\ \E l, m \in inside :
                  /\ l < m /\ turn(l) /\ turn(m)
                  /\ \A j \in inside : j > l /\ turn(j) => j = m
                  /\ beyond(price(m), price(l)) /\ beyond(indicator(l), indicator(m))

IsRight(f, s, i) ==
    /\ f.name \in Crossings => CrossingIsRight(f.name, s, i)
    /\ f.name = "count" => CountIsRight(f.reach, s, i)
    /\ f.name = "streak" => StreakIsRight(s, i)
    /\ f.name \in Divergences => DivergenceIsRight(f.name, f.reach, s, i)

\* A condition that looks back is decided by everything its call has seen, though the
\* code keeps only a pair of values, a number or a history cut to size, and never by
\* what another call of the script has seen.
ConditionsInv == \A k \in DOMAIN script : \A i \in DOMAIN evaluations[k] :
                    IsRight(script[k], evaluations[k], i)
=============================================================================
