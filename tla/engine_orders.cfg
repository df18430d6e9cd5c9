SPECIFICATION Spec
CONSTANTS
    None = None
    a = a
    b = b
    o1 = o1
    o2 = o2
    NRules = 2
    MaxPositions = 2
    Symbols <- TwoSymbols
    SymbolOf <- SymbolByRule
    AmountOf <- UnitAmounts
    Limits <- Budget2
    MaxBudget = 2
    MaxPerMinute = 1
    LossLimits <- NoLoss
    PnlSteps <- NoPnl
    ManualOrders <- ManualBuy
    KillModes <- StopAndArm
    OrderIds <- Ids2
    MaxDay = 1
    MaxStarts = 1
SYMMETRY OrderSymmetry
INVARIANTS OneOrderPerLife TriggeredOnlyInFlight SpeedLimit KillLeakBound
