SPECIFICATION ChainSpec
CONSTANTS
    HbTimeout = 1
    HoldTime = 1
    WatchdogTime = 2
    AgeCap = 14
    Snapshots = {c1}
    DefaultChannels = dflt
    JsHold = 1
    HelloPeriod = 1
    GiveUp = 1
    PipeCap = 2
INVARIANT SilenceReachesRadio
