----------------------------- MODULE Selection -----------------------------
(***************************************************************************)
(* A call of the portfolio filter with any list of candidates, compared    *)
(* with a definition that says what is to be selected and not how.         *)
(***************************************************************************)
EXTENDS SystemTrader, Sums

CONSTANTS
    Symbols,       \* stock codes
    Amounts,       \* price * qty of a candidate
    Priorities,    \* rule priorities
    Limits,        \* cash * budget_ratio
    MaxExecuted,   \* bound of the amount executed so far
    MaxCandidates  \* bound of the number of candidates of a cycle

ASSUME SelectionAssumption ==
    /\ IsFiniteSet(Symbols)
    /\ Amounts \subseteq Nat
    /\ Priorities \subseteq Int
    /\ Limits \subseteq Nat
    /\ MaxExecuted \in Nat
    /\ MaxCandidates \in Nat

VARIABLES
    asked,   \* what process_cycle was called with
    decided  \* the batch it has returned

selectionVars == <<asked, decided>>

Candidates == [rule : {0}, symbol : Symbols, side : Sides, amount : Amounts,
               priority : Priorities]

Asks == [cands : UNION {[1 .. n -> Candidates] : n \in 0 .. MaxCandidates},
         held : SUBSET Symbols, limit : Limits, executed : 0 .. MaxExecuted]

Quiet == [cands |-> <<>>, held |-> {}, limit |-> 0, executed |-> 0]

\* Candidates are distinct objects; the field rule tells them apart.
Numbered(cands) == [i \in DOMAIN cands |-> [cands[i] EXCEPT !.rule = i]]

SelectionInit == asked = Quiet /\ decided = PassBegins(0)

Decide(ask) ==
    /\ asked' = ask
    /\ decided' = ProcessCycle(Numbered(ask.cands), ask.held, ask.limit, ask.executed)

SelectionNext == \E ask \in Asks : Decide(ask)

SelectionSpec == SelectionInit /\ [][SelectionNext]_selectionVars

----------------------------------------------------------------------------
\* Candidates by their place in the list that was handed over.
Chosen == [k \in DOMAIN decided.selected |-> decided.selected[k].rule]
Refused == [k \in DOMAIN decided.dropped |-> decided.dropped[k][1].rule]

BuysOf(S) == {i \in S : asked.cands[i].side = "BUY"}

AmountOfAll(S) == SumOver([i \in DOMAIN asked.cands |-> asked.cands[i].amount], S)

\* Candidate i may be taken when the candidates in S have been.
Acceptable(i, S) ==
    LET cand == asked.cands[i]
    IN  IF cand.side = "SELL" THEN cand.symbol \in asked.held
        ELSE /\ cand.symbol \notin asked.held
             /\ \A j \in BuysOf(S) : asked.cands[j].symbol # cand.symbol
             /\ Cardinality(asked.held) + Cardinality(BuysOf(S)) < MaxPositions
             /\ asked.executed + AmountOfAll(BuysOf(S) \cup {i}) <= asked.limit

\* The pass over the sorted list computes the one selection in which every
\* candidate is in exactly when it is acceptable after the selected ones that
\* come before it, and hands it on in that order.
SelectionIsGreedy ==
    /\ \A i \in DOMAIN asked.cands :
          i \in ToSet(Chosen) <=>
              Acceptable(i, {j \in ToSet(Chosen) : Before(asked.cands, j, i)})
    /\ \A k, l \in DOMAIN Chosen : k < l => Before(asked.cands, Chosen[k], Chosen[l])

\* Executing the whole selection keeps the portfolio within its limits
\* whatever came before: as many positions and as much money as allowed, one
\* BUY for a symbol, and never a BUY and a SELL of the same symbol.
SelectionFitsPortfolio ==
    LET buys == BuysOf(ToSet(Chosen))
    IN  buys # {} =>
        /\ Cardinality(asked.held \cup {asked.cands[i].symbol : i \in buys}) <= MaxPositions
        /\ asked.executed + AmountOfAll(buys) <= asked.limit
        /\ \A i \in buys : \A j \in ToSet(Chosen) \ {i} :
              asked.cands[i].symbol # asked.cands[j].symbol

\* Each candidate is either selected or dropped, once: none is lost on the
\* way, so each shows up in the execution results or in the block log.
EachDecidedOnce ==
    /\ IsInjective(Chosen \o Refused)
    /\ ToSet(Chosen \o Refused) = DOMAIN asked.cands

\* The portfolio filter.
SelectionInv == SelectionIsGreedy /\ SelectionFitsPortfolio /\ EachDecidedOnce
=============================================================================
