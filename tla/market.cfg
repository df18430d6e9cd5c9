SPECIFICATION MCSpec
CONSTANTS
    Null = Null
    MaxPositions = 2
    Symbols = {a, b, c}
    Amounts = {1, 2}
    Priorities = {0, 1}
    Limits = {2, 3}
    MaxExecuted = 1
    MaxCandidates = 3
    MaxText = 5
    MaxCycles = 4
    Prices = {1, 2}
    MaxEngines = 2
    LastMinute = 2
    MaxTrades = 3
    PreviousClose = 1
    MaxPolls = 2
    Rules = {1, 2}
    RuleQty = 1
    MaxHeld = 1
    MaxOpen = 2
    MaxEpochs = 2
    Stocks = {a, b}
    MockPrices = {1, 2}
    StartCash = 5
    Lots = {1, 2}
    MaxPlaced = 4
    Closes = {0, 1, 3}
    MaxBars = 5
    Lookback = 2
    Scale = 10
    Share = 9
    Cashes <- AskedCashes
    Slippages <- AskedSlippages
    Commissions = {1, 5}
    Taxes = {1}
    Calls = {q, r}
    Levels = {1, 2, 3}
    Readings = {1, 2}
    Periods = {0, 2}
    Lookbacks = {5}
    MaxEvaluations = 3
INVARIANTS
    DecisionsInv
    ConditionsInv
    SelectionInv
    BarsInv
    AggregateIsExact
    
    MockInv
    BacktestInv
CHECK_DEADLOCK FALSE
