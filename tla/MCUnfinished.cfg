SPECIFICATION CardSpec
CONSTANTS
    Ids = {t1, t2}
    NoId = NoId
    MaxPolls = 2
CHECK_DEADLOCK FALSE
PROPERTIES
    UnfinishedIsRestored
