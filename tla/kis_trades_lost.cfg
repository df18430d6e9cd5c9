SPECIFICATION BarsSpec
CONSTANTS
    Prices = {1, 2}
    MaxEngines = 2
    LastMinute = 2
    MaxTrades = 3
    PreviousClose = 1
    MaxPolls = 2
INVARIANTS TradesReachBuilders
CHECK_DEADLOCK FALSE
