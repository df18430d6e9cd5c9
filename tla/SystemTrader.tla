---------------------------- MODULE SystemTrader ----------------------------
(***************************************************************************)
(* The portfolio filter between rule evaluation and order execution        *)
(* (local_server/engine/system_trader.py).  Once per evaluation cycle the  *)
(* engine hands it every buy and sell candidate of the cycle, the symbols  *)
(* the account holds, the day's spending limit (cash * budget_ratio) and   *)
(* the amount already executed today; it answers which candidates may be   *)
(* executed and why each of the others was dropped.                        *)
(*                                                                         *)
(* A candidate is a record with the fields rule, symbol, side, amount      *)
(* (price times quantity) and priority.                                    *)
(***************************************************************************)
EXTENDS Integers, Sequences, FiniteSets, SequencesExt

CONSTANT MaxPositions          \* SystemTrader._max_positions

ASSUME MaxPositionsAssumption == MaxPositions \in Nat

Sides == {"BUY", "SELL"}

Before(cands, i, j) == \/ cands[i].priority > cands[j].priority
                       \/ cands[i].priority = cands[j].priority /\ i < j

\* sorted(candidates, key=priority, reverse=True): descending and stable.
ByPriority(cands) ==
    LET order == CHOOSE p \in [DOMAIN cands -> DOMAIN cands] :
                    \A i, j \in DOMAIN cands : i < j => Before(cands, p[i], p[j])
    IN  [i \in DOMAIN cands |-> cands[order[i]]]

\* The three objections of _check_buy.  acc carries what the cycle has selected
\* so far: the symbols bought, their number, and the amount spent.
Duplicate(c, held, acc) == c.symbol \in held \cup acc.buySymbols

\* The positions of this cycle are not counted.
NoRoomMutant(held, acc) == Cardinality(held) >= MaxPositions

NoRoom(held, acc) == Cardinality(held) + acc.added >= MaxPositions

OverBudget(c, acc, limit) == acc.budget + c.amount > limit

\* _check_buy answers with the first that applies.
CheckBuy(c, held, acc, limit) ==
    IF Duplicate(c, held, acc) THEN "DUPLICATE_SYMBOL"
    ELSE IF NoRoom(held, acc) THEN "MAX_POSITIONS"
    ELSE IF OverBudget(c, acc, limit) THEN "DAILY_BUDGET_EXCEEDED"
    ELSE "NONE"

CheckSell(c, held) == IF c.symbol \in held THEN "NONE" ELSE "SELL_NO_HOLDING"

Objection(c, held, acc, limit) ==
    IF c.side = "BUY" THEN CheckBuy(c, held, acc, limit) ELSE CheckSell(c, held)

\* What a candidate leaves of the pass: it is dropped with its objection, or selected.
Considered(acc, c, held, limit) ==
    LET reason == Objection(c, held, acc, limit)
    IN  IF reason # "NONE" THEN [acc EXCEPT !.dropped = Append(@, <<c, reason>>)]
        ELSE IF c.side = "BUY"
        THEN [acc EXCEPT !.selected = Append(@, c),
                         !.buySymbols = @ \cup {c.symbol},
                         !.added = @ + 1,
                         !.budget = @ + c.amount]
        ELSE [acc EXCEPT !.selected = Append(@, c)]

PassBegins(executed) ==
    [selected |-> <<>>, dropped |-> <<>>, buySymbols |-> {}, added |-> 0, budget |-> executed]

\* process_cycle: one pass over the candidates in priority order.
ProcessCycle(cands, held, limit, executed) ==
    LET consider(acc, c) == Considered(acc, c, held, limit)
    IN  FoldLeft(consider, PassBegins(executed), ByPriority(cands))
=============================================================================
