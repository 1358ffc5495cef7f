SPECIFICATION ChainFairSpec
CONSTANTS
    HbTimeout = 1
    HoldTime = 1
    WatchdogTime = 2
    AgeCap = 9
    Snapshots = {c1}
    DefaultChannels = dflt
    JsHold = 1
    HelloPeriod = 1
    GiveUp = 1
    PipeCap = 2
INVARIANT EmissionNeedsPi
INVARIANT DrivenOnlyAfterVerdict
 
PROPERTY FloorKept
PROPERTY RadioFollows
