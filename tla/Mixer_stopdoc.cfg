SPECIFICATION MixerSpec
CONSTANTS
    Models = {"herald"}
    Def <- MCDef
    NoModel = "none"
    Channels = {0, 2, 4, 5}
    Sticks = {0}
    Positions <- MCPositions
    Lateness = {1}
    AgeCap = 1
    QueueCap = 2
    MaxLeaving = 1
INVARIANT NoLateWord
