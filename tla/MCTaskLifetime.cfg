SPECIFICATION Spec
CONSTANTS
    Tasks = {t1, t2}
    Hung = {}
    Workers = {w1, w2}
    MaxAge = 1
    MaxClock = 4
    NoTask = NoTask
    NoRow = NoRow
INVARIANTS
    MaxAgeBoundsLife
CHECK_DEADLOCK FALSE
