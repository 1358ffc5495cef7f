SPECIFICATION StationSpec
CONSTANTS
    Names = {"failsafe", "bat-low"}
    Words <- MCWords
    Thresholds = {"notice", "critical"}
    QueueDepth = 1
    WarningPlays = 1
    Repeaters = {1, 2}
    Stems = {"failsafe", "bat-low"}
    Bank <- MCBank
    Parts <- MCParts
    Installed = {"aplay"}
    Texts = {"a", "b"}
    Skies <- MCSkies
    Suns <- MCSuns
    Limits <- MCLimits
    FireAfter = 2
    ClearAfter = 3
    MinuteCap = 3
    Configs <- MCConfigs
    Flags <- MCFlags
    Posters = {"p1", "p2"}
    PingDepth = 1
    Hour = 2
    LogLines = 3
    BoardLines = 2
    Full = 4
    Payloads <- MCPayloads
    MaxRaw = 6
    MaxCoded = 10
    MaxFaults = 1
    Blocking = {"rp2040", "hdmi"}
    Observers = {"gps"}
    Scanned = "hdmi"
    Board = "mega"
    Subsystem = "vfd"
    Window <- MCWindow
    Settle = 1
    Sticks = {"stick", "pad"}
    Readers = {1, 2, 3}
    MaxRequests = 2
    Freshness = 3
    Sensors = {"gps", "flightMode"}
    Readings <- MCReadings
    FreshFor <- MCFreshFor
    ReadyModes = {"ANGL"}
    MaxAge = 2
    Clients = {"mwp", "late"}
    TeeDepth = 1
    Frames = 3
    Grids <- MCGrids
    Workers = {1, 2}
    JobDepth = 1
    MaxRetry = 2
    MaxRuns = 2
    Region <- MCRegion
    NotServed = {"lake"}
    Beyond = {"far"}
    Vector = {"road"}
    Archived = {"far"}
    TileLife = 1
    Classes = {"home", "field", "offline"}
    ClassPosters = {1, 2}
    MaxPosts = 3
    Stands <- MCStands
    Sights = {0, 7}
    Years = {1999, 2026}
    MaxGarbled = 1
    Tabs = {"map"}
    SendDepth = 2
CHECK_DEADLOCK FALSE
INVARIANT StaleIsNotReady
