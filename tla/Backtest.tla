------------------------------ MODULE Backtest -------------------------------
(***************************************************************************)
(* A backtest (BacktestRunner of cloud_server/services): the loop over the *)
(* bars of one stock that trades on a rule's signals and the figures it    *)
(* reports.                                                                *)
(*                                                                         *)
(* Rates are in parts of Scale, and money in parts of Scale * Scale, so    *)
(* that nothing is rounded but the number of shares.  The request brings   *)
(* the cash and the rates, and nobody looks at them: they are any          *)
(* integers.  run parses a script into a ScriptV2, always; _simulate       *)
(* itself takes the tree it is given.  What the rule says at a bar is a    *)
(* nondeterministic pair of signals.                                       *)
(* Names ending in "Mutant" are faulty variants of the definition that     *)
(* follows them.                                                           *)
(***************************************************************************)
EXTENDS Integers, Sequences, FiniteSetsExt

CONSTANTS
    Closes,       \* closing prices of bars, 0 where there is none
    MaxBars,      \* bound: bars of the period
    Lookback,     \* INDICATOR_LOOKBACK: the least number of bars
    Scale,        \* what rates are parts of
    Share,        \* max_position_pct, which no request changes
    Cashes, Slippages, Commissions, Taxes    \* what is asked for

ASSUME BacktestAssumption ==
    /\ Closes \subseteq Nat
    /\ MaxBars \in Nat /\ Lookback \in Nat \ {0}
    /\ Scale \in Nat \ {0} /\ Share \in 0 .. Scale
    /\ Cashes \subseteq Int /\ Slippages \subseteq Int
    /\ Commissions \subseteq Int /\ Taxes \subseteq Int

VARIABLES
    ast,         \* the tree that _simulate is given
    config,      \* the BacktestConfig of the request
    bars,        \* closing prices so far
    cash,
    position,    \* of the open trade: entry_price, qty, commission_buy; or none
    trades,      \* pnl of the closed trades
    equity,      \* equity_curve
    missed,      \* ghost: the rule has asked to buy, and nothing was bought
    outcome,     \* has the run ended, with a result or an exception?
    report       \* what is returned, or none

backtestVars == <<ast, config, bars, cash, position, trades, equity, missed, outcome, report>>

InitialCash == config.initial_cash
Slippage == config.slippage_rate
Commission == config.commission_rate
Tax == config.tax_rate

Money == Scale * Scale
NoPosition == [entry_price |-> 0, qty |-> 0, commission_buy |-> 0]
NoReport == [final |-> -1, mdd |-> <<0, 1>>, gained |-> 0, wins |-> 0, count |-> 0]

Requests == [initial_cash : Cashes, slippage_rate : Slippages,
             commission_rate : Commissions, tax_rate : Taxes]

BacktestTypeOK ==
    /\ ast \in {"Script", "ScriptV2"}
    /\ config \in Requests
    /\ bars \in Seq(Closes) /\ Len(bars) <= MaxBars
    /\ cash \in Int
    /\ position \in [entry_price : Int, qty : Nat, commission_buy : Int]
    /\ trades \in Seq(Int) /\ equity \in Seq(Int)
    /\ missed \in BOOLEAN
    /\ outcome \in {"running", "done", "raised"}
    /\ report \in [final : Int, mdd : Int \X Int, gained : Int, wins : Nat, count : Nat]

BacktestInit ==
    /\ ast \in {"Script", "ScriptV2"}
    /\ config \in Requests
    /\ bars = <<>>
    /\ cash = InitialCash * Money
    /\ position = NoPosition
    /\ trades = <<>>
    /\ equity = <<>>
    /\ missed = FALSE
    /\ outcome = "running" /\ report = NoReport

Holds == position # NoPosition
Worth(price) == cash + position.qty * price * Money

----------------------------------------------------------------------------
(* _simulate                                                               *)

BuyPrice(price) == price * (Scale + Slippage) * Scale
SellPrice(price) == price * (Scale - Slippage) * Scale
CommissionOf(amount) == (amount * Commission) \div Scale
TaxOf(amount) == (amount * Tax) \div Scale

\* int(invest / buy_price), where a negative quotient buys nothing, as none does that is
\* less than one.  Nothing keeps cash and price from being negative together.
Qty(price) ==
    LET invest == cash * Share
        unit == Scale * BuyPrice(price)
    IN  IF invest > 0 /\ unit > 0 THEN invest \div unit
        ELSE IF invest < 0 /\ unit < 0 THEN (0 - invest) \div (0 - unit)
        ELSE 0

\* The rule's purchase gets as far as the division by the price.
Buys(price, buy) == buy /\ ~Holds /\ price > 0

\* The price is nothing after a slippage of minus a hundred percent.
PriceVanishes(price) == BuyPrice(price) = 0

Buy(price) ==
    LET qty == Qty(price)
        commission == CommissionOf(BuyPrice(price) * qty)
    IN  IF qty = 0 THEN UNCHANGED <<cash, position>>
        ELSE /\ cash' = (cash - BuyPrice(price) * qty) - commission
             /\ position' = [entry_price |-> BuyPrice(price), qty |-> qty,
                             commission_buy |-> commission]

\* What a sale brings in.
Net(price) ==
    LET gross == SellPrice(price) * position.qty
    IN  gross - CommissionOf(gross) - TaxOf(gross)

\* net - entry_price * qty - commission_buy
Pnl(net) == net - position.entry_price * position.qty - position.commission_buy

Sell(price) ==
    /\ cash' = cash + Net(price)
    /\ trades' = Append(trades, Pnl(Net(price)))
    /\ position' = NoPosition

\* dsl_evaluate wants a Script: a ScriptV2 has no buy_block.
Evaluates == ast = "Script"

\* The rule is not evaluated before the bar that completes the look-back: there are no
\* indicators.
Silent == Len(bars) < Lookback - 1 \/ ~Evaluates

Bar(price, buy, sell) ==
    /\ outcome = "running"
    /\ Len(bars) < MaxBars
    /\ bars' = Append(bars, price)
    /\ equity' = Append(equity, Worth(price))
    /\ outcome' = IF ~Silent /\ Buys(price, buy) /\ PriceVanishes(price)
                  THEN "raised" ELSE "running"
    /\ IF Silent THEN UNCHANGED <<cash, position, trades>>
       ELSE IF Buys(price, buy) THEN Buy(price) /\ UNCHANGED trades
       ELSE IF sell /\ Holds THEN Sell(price)
       ELSE UNCHANGED <<cash, position, trades>>
    /\ missed' = (missed \/ (/\ Buys(price, buy) /\ Qty(price) > 0
                             /\ Len(bars') >= Lookback /\ position' = NoPosition))
    /\ UNCHANGED <<ast, config, report>>

----------------------------------------------------------------------------
(* _aggregate_result                                                       *)

\* The largest drop is measured from the bar before.
DrawdownMutant(curve) ==
    LET dd[i \in DOMAIN curve] ==
            IF i = 1 THEN [peak |-> curve[1], worst |-> <<0, 1>>]
            ELSE LET drop == <<curve[i - 1] - curve[i], curve[i - 1]>>
                     w == dd[i - 1].worst
                 IN  [peak |-> curve[i],
                      worst |-> IF drop[1] * w[2] > w[1] * drop[2] THEN drop ELSE w]
    IN  dd[Len(curve)].worst

\* One bar: the highest worth so far, and the largest (peak - eq) / peak, as a fraction.
\* From below nothing the quotient is negative, and never the largest.
Deeper(dd, eq) ==
    LET peak == IF eq > dd.peak THEN eq ELSE dd.peak
        drop == <<peak - eq, peak>>
    IN  [peak |-> peak,
         worst |-> IF peak > 0 /\ drop[1] * dd.worst[2] > dd.worst[1] * drop[2]
                   THEN drop ELSE dd.worst]

Drawdown(curve) ==
    LET dd[i \in DOMAIN curve] ==
            IF i = 1 THEN [peak |-> curve[1], worst |-> <<0, 1>>]
            ELSE Deeper(dd[i - 1], curve[i])
    IN  dd[Len(curve)].worst

Total(pnls) ==
    LET sum[i \in 0 .. Len(pnls)] == IF i = 0 THEN 0 ELSE sum[i - 1] + pnls[i]
    IN  sum[Len(pnls)]

\* The forced liquidation at the last price, which is free of costs.
AllTrades ==
    IF ~Holds THEN trades
    ELSE Append(trades, bars[Len(bars)] * Money * position.qty - position.entry_price * position.qty)

\* (peak - eq) / peak, where the highest worth so far may be nothing at all.
PeakVanishes ==
    \E j \in DOMAIN equity : /\ equity[j] = 0
                            /\ \A i \in 1 .. j : equity[i] <= 0

\* The annual return is a root of final / initial: of a negative number it is complex,
\* which round refuses, unless the number of bars divides 250.
RootMayFail == InitialCash > 0 /\ equity[Len(equity)] < 0

\* The end of the bars.  With fewer than the look-back nothing is simulated.
Ends ==
    /\ outcome = "running"
    /\ Len(bars) >= Lookback
    /\ UNCHANGED <<ast, config, bars, cash, position, trades, equity, missed>>

Report ==
    /\ Ends /\ ~PeakVanishes
    /\ outcome' = "done"
    /\ report' = [final |-> equity[Len(equity)], mdd |-> Drawdown(equity),
                  gained |-> Total(AllTrades),
                  wins |-> Cardinality({i \in DOMAIN AllTrades : AllTrades[i] > 0}),
                  count |-> Len(AllTrades)]

\* HTTP 500, and nothing is saved.
ReportFails ==
    /\ Ends /\ (PeakVanishes \/ RootMayFail)
    /\ outcome' = "raised"
    /\ UNCHANGED report

BacktestNext ==
    \/ \E price \in Closes, buy, sell \in BOOLEAN : Bar(price, buy, sell)
    \/ Report \/ ReportFails

BacktestSpec == BacktestInit /\ [][BacktestNext]_backtestVars

----------------------------------------------------------------------------
\* What the default rates, and any request like them, satisfy: an investment and its
\* commission are less than the cash, and a sale brings in more than it costs.  The API
\* asks it of nobody.
Ordinary ==
    /\ InitialCash > 0
    /\ Slippage \in 0 .. Scale /\ Commission \in 0 .. Scale /\ Tax \in 0 .. Scale
    /\ Commission + Tax <= Scale
    /\ Share * (Scale + Commission) <= Scale * Scale

\* With ordinary rates shares are bought for cash that is there, whatever was lost before,
\* nothing is ever worth less than nothing, and no run raises.
NoDebt ==
    Ordinary =>
        /\ cash >= 0 /\ position.entry_price >= 0 /\ position.commission_buy >= 0
        /\ \A i \in DOMAIN equity : equity[i] >= 0
        /\ outcome # "raised"

\* Between trades the cash is what the closed trades leave of the initial cash, and
\* during one it lacks what the shares have cost and their commission.
CashExplained ==
    cash + position.entry_price * position.qty + position.commission_buy
        = InitialCash * Money + Total(trades)

\* Nothing that happens later reaches an entry of the curve: it is the worth before the
\* trade of its bar, all money before there are indicators.
CurveStartsFlat ==
    /\ Len(equity) = Len(bars)
    /\ \A i \in 1 .. Lookback : i <= Len(equity) => equity[i] = InitialCash * Money

\* Does the account start with something, and never owe more than it is worth?
Solvent == InitialCash > 0 /\ \A i \in DOMAIN equity : equity[i] >= 0

\* The reported drawdown of such an account is the worst of all pairs of a bar and a later
\* one.
DrawdownIsWorst ==
    outcome = "done" /\ Solvent =>
        LET Drop(i, j) == <<equity[i] - equity[j], equity[i]>>
        IN  /\ \A j \in DOMAIN equity : \A i \in 1 .. j :
                  Drop(i, j)[1] * report.mdd[2] <= report.mdd[1] * Drop(i, j)[2]
            /\ \E j \in DOMAIN equity : \E i \in 1 .. j :
                  Drop(i, j)[1] * report.mdd[2] = report.mdd[1] * Drop(i, j)[2]

\* The reported return and the reported trades tell the same story but for the costs of
\* the last bar: those of a purchase that is liquidated, and those of a trade that the
\* curve does not show any more, which are costs if the rates are ordinary.
ReportAddsUp ==
    outcome = "done" =>
        LET gain == report.final - InitialCash * Money
        IN  IF Holds
              THEN \/ gain = report.gained - position.commission_buy
                   \/ gain = Total(trades)
              ELSE Ordinary => gain >= report.gained

\* Before there are indicators nothing is traded; the last point of the curve is the
\* present worth, or that before the last bar's trade.
CurveEnds ==
    /\ Len(bars) < Lookback => cash = InitialCash * Money /\ ~Holds
    /\ bars # <<>> =>
          LET last == equity[Len(equity)]
              price == bars[Len(bars)]
          IN  IF Holds
                THEN \/ last = Worth(price)
                     \/ last = cash + position.entry_price * position.qty
                                    + position.commission_buy
                ELSE Ordinary => last >= cash

\* The accounts of a backtest, during it and in its report.
BacktestInv ==
    /\ BacktestTypeOK /\ NoDebt /\ CashExplained /\ CurveStartsFlat
    /\ CurveEnds /\ DrawdownIsWorst /\ ReportAddsUp

\* "With enough data trades must happen" (test_backtest.py): a rule that asks to buy when
\* it can afford to is followed.
SignalsAreTraded == ~missed
=============================================================================
