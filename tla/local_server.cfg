SPECIFICATION MCSpec
CONSTANTS
    Requests = {r1, r2}
    Engines = {e1, e2}
    Brokers = {b1, b2}
    None = None
    MaxFaults = 1
    Grace = 1
    Silence = 1
    FailLimit = 2
    Cooldown = 2
    Longest = 4
    MaxLevel = 2
    MaxVersion = 3
    Bad = {2}
    MaxProbes = 1
    MaxMishaps = 1
    Calls = {c1, c2}
    Window = 2
    Limit = 1
    Lifetime = 3
    Margin = 2
    Symbols = {a, b}
    MaxRetries = 2
INVARIANTS
    LifecycleInv
    AlertsInv
    UpdaterInv
    CallsInv
    KiwoomInv
PROPERTIES
    AutoInstallSparesTrading
    HangIsReported
    ServerComesBack
    TokenRecovers
    EveryoneIsPolled
CHECK_DEADLOCK FALSE
