SPECIFICATION PositionsSpec
CONSTANTS
    Rules = {1}
    RuleQty = 1
    MaxHeld = 1
    MaxOpen = 2
    MaxEpochs = 1
PROPERTIES SyncsComplete
CHECK_DEADLOCK FALSE
