SPECIFICATION Spec
CONSTANTS
    Clients = {c1, c2}
    Impatient = {}
    Malformed = {c2}
    NFds = 2
    Workers = {w1, w2}
    Kinds = {"small", "file"}
    Requests = 2
    Segments = 2
    SndCap = 1
    ConnTimeout = 1
    MaxTicks = 0
    NoClient = NoClient
    NoConn = NoConn
INVARIANTS
    AnswersInOrder
    NoFileLeak
PROPERTIES
    EveryRequestAnswered
CHECK_DEADLOCK FALSE
