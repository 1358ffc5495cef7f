SPECIFICATION MixerSpec
CONSTANTS
    Models = {"herald", "talon", "plain", "timed", "aetr"}
    Def <- MCDef
    NoModel = "none"
    Channels = {0, 2, 4, 5}
    Sticks <- MCSticks
    Positions <- MCPositions
    Lateness = {1, 2}
    AgeCap = 3
    QueueCap = 1
    MaxLeaving = 1
INVARIANT ThrottleIsTrue
INVARIANT LastWordIsLatch
PROPERTY WindowsAreApart
