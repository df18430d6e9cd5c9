------------------------------ MODULE MCMarket -------------------------------
(***************************************************************************)
(* The parts between the strategies and the market, model-checked side by  *)
(* side: the rule language (MCDecisions), the portfolio filter, bars, the  *)
(* engine's positions, the mock broker, backtests and the memory of        *)
(* conditions.  They share no variable, so a behaviour picks one of them   *)
(* and leaves the others alone.                                            *)
(***************************************************************************)
EXTENDS MCDecisions, Selection, MinuteBars, Positions, MockBroker, Backtest,
        StatefulCalls

CONSTANT MaxEvaluations    \* bound of the evaluations of a script's calls

\* Backtests that are asked for: with the defaults' proportions, without cash, with debts,
\* and with a slippage that takes all of the price or more.
AskedCashes == {-10, 0, 10}
AskedSlippages == {-20, -10, 1}

VARIABLE part

marketVars == <<part, barVars, posVars, mockVars, backtestVars, selectionVars, memoryVars, vars>>

\* Scripts whose calls see so little that all of it can be enumerated: one call, or two
\* of different functions other than divergence.  Keys are only compared with one
\* another, so that one may be fixed.
Feasible ==
    /\ (CHOOSE k \in Calls : TRUE) \in DOMAIN script
    /\ \A k, l \in DOMAIN script :
          k # l => script[k].name \notin Divergences \cup {script[l].name}

\* Divergence needs more bars than the five it looks at.
Bounded ==
    MapThenSumSet(LAMBDA k : Len(evaluations[k]), DOMAIN script) <
        IF \E k \in DOMAIN script : script[k].name \in Divergences
        THEN MaxEvaluations + 3 ELSE MaxEvaluations

\* The parts a behaviour is not about have one initial state.
MCInit ==
    /\ part \in {"decisions", "bars", "positions", "mock", "backtest", "selection",
                "memory"}
    /\ BarsInit /\ PositionsInit /\ MockInit /\ BacktestInit /\ SelectionInit /\ MemoryInit
    /\ part # "bars" => source = "kis"
    /\ part # "positions" => account = 0
    /\ part # "mock" => prices = CHOOSE p \in [Stocks -> MockPrices] : TRUE
    /\ part # "backtest" => ast = "Script" /\ config = CHOOSE r \in Requests : TRUE
    /\ IF part = "memory" THEN Feasible ELSE script = <<>>
    /\ IF part = "decisions" THEN Init
       ELSE subject = [kind |-> "none"] /\ answer = Null /\ trace = <<>>

\* Stock codes are only compared with one another, so that the first candidate's may be
\* fixed.  The filter keeps nothing from one call to the next, so that one call is enough.
FirstIsFixed(cands) == cands # <<>> => cands[1].symbol = CHOOSE x \in Symbols : TRUE

MCNext ==
    /\ UNCHANGED part
    /\ \/ /\ part = "bars"
          /\ BarsNext
          /\ UNCHANGED <<posVars, mockVars, backtestVars, selectionVars, memoryVars, vars>>
       \/ /\ part = "positions"
          /\ PositionsNext
          /\ UNCHANGED <<barVars, mockVars, backtestVars, selectionVars, memoryVars, vars>>
       \/ /\ part = "mock"
          /\ MockNext
          /\ UNCHANGED <<barVars, posVars, backtestVars, selectionVars, memoryVars, vars>>
       \/ /\ part = "backtest"
          /\ BacktestNext
          /\ UNCHANGED <<barVars, posVars, mockVars, selectionVars, memoryVars, vars>>
       \/ /\ part = "selection" /\ asked = Quiet
          /\ \E ask \in Asks : FirstIsFixed(ask.cands) /\ Decide(ask)
          /\ UNCHANGED <<barVars, posVars, mockVars, backtestVars, memoryVars, vars>>
       \/ /\ part = "decisions"
          /\ Next
          /\ UNCHANGED <<barVars, posVars, mockVars, backtestVars, selectionVars, memoryVars>>
       \/ /\ part = "memory" /\ Bounded
          /\ MemoryNext
          /\ UNCHANGED <<barVars, posVars, mockVars, backtestVars, selectionVars, vars>>

MCSpec == MCInit /\ [][MCNext]_marketVars
=============================================================================
