CONSTANTS
    Accounts = 2
    Valid = {2}
    MaxLines = 2
    Hosts = {h1, h2}
    NoUrl = NoUrl
    Tries = 2
    MaxMoves = 3
    MaxSignals = 2
SPECIFICATION NoticeSpec
CHECK_DEADLOCK FALSE
INVARIANTS
    SentIsAccepted
    FailureExplained
    CpolarIsStopped
PROPERTIES
    DialogueEnds
    AddressIsMailed
    OnlyNewsIsMailed
    SignalEnds
