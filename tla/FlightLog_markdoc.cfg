CONSTANTS
    Keep = 1
    MaxSessions = 2
    MaxOddities = 0
SPECIFICATION Spec
PROPERTY FailsafeIsMarked
CHECK_DEADLOCK FALSE
