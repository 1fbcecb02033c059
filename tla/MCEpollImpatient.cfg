SPECIFICATION Spec
CONSTANTS
    Clients = {c1, c2}
    Impatient = {c1}
    Malformed = {c1}
    NFds = 2
    Workers = {w1}
    Kinds = {"small","large","file","gone"}
    Requests = 1
    Segments = 2
    SndCap = 1
    ConnTimeout = 0
    MaxTicks = 1
    NoClient = NoClient
    NoConn = NoConn
INVARIANTS
    NoLostWakeup
    StraysHaveNoHome
PROPERTIES
    LossNeedsCause
    ClosedIsReleased
CHECK_DEADLOCK FALSE
