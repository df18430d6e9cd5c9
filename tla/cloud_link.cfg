SPECIFICATION MCSpec
CONSTANTS
    Conns = {c1, c2}
    NoConn = NoConn
    Cmds = {m1, m2}
    MaxCmds = 2
    MaxBackoff = 2
    MaxCuts = 2
    Devices = {d1, d2}
    Channels = {s1, s2}
    NoSocket = NoSocket
    MaxDevices = 1
    Rules = {r1}
    Scripts = {script}
    BadScript = BadScript
    NoRule = NoRule
    Unknown = Unknown
    Editors = {e1, e2}
    MaxEdits = 3
    MaxFailures = 1
    MaxTokens = 3
    MaxLosses = 1
    Rows = {i1, i2}
    Workers = {w1, w2}
    Idle = Idle
    MaxPasswords = 2
    MaxLinks = 1
    MaxLogins = 1
INVARIANTS
    RelayInv
    SessionInv
    SyncInv
    TokenInv
    AccountInv
PROPERTIES
    CommandArrives
    BrokenSessionsEnd
    VersionSeen
CHECK_DEADLOCK FALSE
