CONSTANTS
    Keep = 1
    MaxSessions = 2
    MaxOddities = 2
SPECIFICATION Spec
INVARIANT FlightsAreWhole
INVARIANT SweepsAreSafe
CHECK_DEADLOCK FALSE
