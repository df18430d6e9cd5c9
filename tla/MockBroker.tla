----------------------------- MODULE MockBroker ------------------------------
(***************************************************************************)
(* MockAdapter (broker/mock/adapter.py), the broker of the mock mode: it   *)
(* fills every order at once at its own price.  An average price is a      *)
(* fraction <<numerator, denominator>>.  Names ending in "Mutant" are      *)
(* faulty variants of the definition that follows them.                    *)
(***************************************************************************)
EXTENDS Integers, FiniteSetsExt, Sums

CONSTANTS
    Stocks,       \* stock codes
    MockPrices,   \* prices
    StartCash,    \* DEFAULT_INITIAL_CASH
    Lots,         \* quantities of orders
    MaxPlaced     \* bound: orders

ASSUME MockAssumption ==
    /\ IsFiniteSet(Stocks)
    /\ MockPrices \subseteq Nat \ {0}
    /\ StartCash \in Nat
    /\ Lots \subseteq Nat \ {0}
    /\ MaxPlaced \in Nat

VARIABLES
    up,           \* _connected
    mockCash,     \* _cash
    shares,       \* _positions: the quantity of each stock,
    average,      \* and avg_price
    prices,       \* _prices
    placed,       \* _orders: how many
    paid,         \* ghost: the prices paid for what is held, as a range
    worth         \* ghost: the initial cash, and what prices have added to it

mockVars == <<up, mockCash, shares, average, prices, placed, paid, worth>>

NoAverage == <<0, 1>>
NoRange == <<0, 0>>

MockTypeOK ==
    /\ up \in BOOLEAN
    /\ mockCash \in Int
    /\ shares \in [Stocks -> Int]
    /\ average \in [Stocks -> Nat \X (Nat \ {0})]
    /\ prices \in [Stocks -> MockPrices]
    /\ paid \in [Stocks -> Nat \X Nat]
    /\ worth \in Int
    /\ placed \in 0 .. MaxPlaced

MockInit ==
    /\ up = FALSE
    /\ mockCash = StartCash
    /\ shares = [s \in Stocks |-> 0]
    /\ average = [s \in Stocks |-> NoAverage]
    /\ prices \in [Stocks -> MockPrices]
    /\ paid = [s \in Stocks |-> NoRange]
    /\ worth = StartCash
    /\ placed = 0

Divisors(n, d) == {k \in 1 .. d : n % k = 0 /\ d % k = 0}
Fraction(n, d) == LET g == Max(Divisors(n, d)) IN <<n \div g, d \div g>>

MockConnects == up' = ~up /\ UNCHANGED <<mockCash, shares, average, prices, placed, paid, worth>>

\* set_price
SetPrice(s, p) ==
    /\ prices' = [prices EXCEPT ![s] = p]
    /\ worth' = worth + (p - prices[s]) * shares[s]
    /\ UNCHANGED <<up, mockCash, shares, average, placed, paid>>

\* _apply_buy
NewAverage(s, q) ==
    LET a == average[s]
    IN  Fraction(a[1] * shares[s] + prices[s] * q * a[2], a[2] * (shares[s] + q))

\* place_order, BUY; too little cash is an exception.
MockBuy(s, q) ==
    /\ up
    /\ placed < MaxPlaced
    /\ placed' = placed + 1
    /\ mockCash >= prices[s] * q
    /\ mockCash' = mockCash - prices[s] * q
    /\ shares' = [shares EXCEPT ![s] = @ + q]
    /\ average' = [average EXCEPT ![s] = NewAverage(s, q)]
    /\ paid' = [paid EXCEPT ![s] =
                   IF @ = NoRange THEN <<prices[s], prices[s]>>
                   ELSE <<Min({@[1], prices[s]}), Max({@[2], prices[s]})>>]
    /\ UNCHANGED <<up, prices, worth>>

CanSellMutant(s, q) == shares[s] > 0

\* More than is held is an exception.
CanSell(s, q) == shares[s] >= q

\* place_order, SELL, and _apply_sell.
MockSell(s, q) ==
    /\ up
    /\ placed < MaxPlaced
    /\ placed' = placed + 1
    /\ CanSell(s, q)
    /\ mockCash' = mockCash + prices[s] * q
    /\ shares' = [shares EXCEPT ![s] = @ - q]
    /\ average' = [average EXCEPT ![s] = IF shares'[s] = 0 THEN NoAverage ELSE @]
    /\ paid' = [paid EXCEPT ![s] = IF shares'[s] = 0 THEN NoRange ELSE @]
    /\ UNCHANGED <<up, prices, worth>>

MockNext ==
    \/ MockConnects
    \/ \E s \in Stocks : \/ \E p \in MockPrices : SetPrice(s, p)
                         \/ \E q \in Lots : MockBuy(s, q) \/ MockSell(s, q)

MockSpec == MockInit /\ [][MockNext]_mockVars

----------------------------------------------------------------------------
\* get_balance: total_eval, which includes the cash.
TotalEval == mockCash + SumOver([s \in Stocks |-> prices[s] * shares[s]], Stocks)

\* Orders move money between cash and shares and make none, neither goes below zero, and
\* the average price stays between the lowest and the highest price paid since the stock
\* was last sold out.
MockInv ==
    /\ MockTypeOK
    /\ TotalEval = worth
    /\ mockCash >= 0
    /\ \A s \in Stocks :
          /\ shares[s] >= 0
          /\ shares[s] = 0 <=> paid[s] = NoRange
          /\ shares[s] = 0 => average[s] = NoAverage
          /\ paid[s][1] * average[s][2] <= average[s][1]
          /\ average[s][1] <= paid[s][2] * average[s][2]
=============================================================================
