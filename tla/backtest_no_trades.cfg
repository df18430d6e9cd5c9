SPECIFICATION BacktestSpec
CONSTANTS
    Closes = {1, 2, 3}
    MaxBars = 5
    Lookback = 2
    Scale = 10
    Share = 9
    Cashes = {10}
    Slippages = {1}
    Commissions = {1}
    Taxes = {1}
INVARIANTS SignalsAreTraded
CHECK_DEADLOCK FALSE
