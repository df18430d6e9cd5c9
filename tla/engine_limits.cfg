SPECIFICATION Spec
CONSTANTS
    None = None
    a = a
    b = b
    o1 = o1
    o2 = o2
    NRules = 1
    MaxPositions = 2
    Symbols <- OneSymbol
    SymbolOf <- AllOnA
    AmountOf <- UnitAmounts
    Limits <- Budget1
    MaxBudget = 1
    MaxPerMinute = 1
    LossLimits <- AnyLoss
    PnlSteps <- Loss
    ManualOrders <- NoManual
    KillModes <- CancelAndArm
    OrderIds <- Ids2
    MaxDay = 2
    MaxStarts = 2
SYMMETRY OrderSymmetry
INVARIANTS LossLockStopsOrders LoggedBuysWithinBudget EngineInv
