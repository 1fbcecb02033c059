CONSTANTS
    Accounts = 2
    Valid = {2}
    MaxLines = 2
SPECIFICATION Spec
CHECK_DEADLOCK FALSE
INVARIANTS
    FailureIsNotOurs
