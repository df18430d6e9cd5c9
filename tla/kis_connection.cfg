SPECIFICATION MCSpec
CONSTANTS
    None = None
    x = x
    y = y
    Symbols <- TwoSymbols
    Sockets = {s1, s2, s3}
    MaxRetries = 2
    Ids = {i1}
    Callers = {k1, k2}
    MaxOrders = 2
INVARIANTS OneAttempt KisInv BookInv
PROPERTIES ReconnectEnds BooksConverge
CHECK_DEADLOCK FALSE
