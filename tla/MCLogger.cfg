CONSTANTS
    Threads = {main, t1}
    Main = main
    Lines = 3
    MaxSize = 2
SPECIFICATION Spec
CHECK_DEADLOCK FALSE
INVARIANTS
    InOrderOnce
    ShutdownFlushes
    RecentOnDisk
PROPERTIES
    EveryLineWritten
    ShutdownReturns
