SPECIFICATION Spec
CONSTANTS
    None = None
    a = a
    b = b
    o1 = o1
    o2 = o2
    NRules = 1
    MaxPositions = 2
    Symbols <- OneSymbol
    SymbolOf <- AllOnA
    AmountOf <- UnitAmounts
    Limits <- Budget2
    MaxBudget = 2
    MaxPerMinute = 1
    LossLimits <- NoLoss
    PnlSteps <- NoPnl
    ManualOrders <- NoManual
    KillModes <- NoKill
    OrderIds <- Ids2
    MaxDay = 1
    MaxStarts = 1
SYMMETRY OrderSymmetry
INVARIANTS AtMostOncePerDay
