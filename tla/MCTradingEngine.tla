--------------------------- MODULE MCTradingEngine ---------------------------
(***************************************************************************)
(* Small instances of TradingEngine for TLC.                               *)
(***************************************************************************)
EXTENDS TradingEngine

CONSTANTS a, b, o1, o2

\* One symbol, or one symbol for each of two rules
OneSymbol == {a}
AllOnA == [r \in Rules |-> a]
TwoSymbols == {a, b}
SymbolByRule == [r \in Rules |-> IF r = 1 THEN a ELSE b]

UnitAmounts == [r \in Rules |-> 1]

Budget1 == {1}
Budget2 == {2}

\* The loss limit, reached by the first loss or by none
NoLoss == {0}
AnyLoss == {0, 9}

NoPnl == {0}
Loss == {-1, 0}

NoManual == {}
ManualBuy == {<<a, "BUY">>}

NoKill == {}
StopAndArm == {<<"remote", "STOP_NEW">>, <<"local", "OFF">>}
CancelAndArm == {<<"local", "CANCEL_OPEN">>, <<"remote", "OFF">>}
RemoteStopAll == {<<"remote", "CANCEL_OPEN">>, <<"remote", "OFF">>}

Ids2 == {o1, o2}

\* Order numbers are interchangeable.
OrderSymmetry == Permutations(OrderIds)
=============================================================================
