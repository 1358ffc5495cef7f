SPECIFICATION CockpitSpec
CONSTANTS
    Models = {"taer", "aetr"}
    Slots = {0, 2, 4}
    ThrSlot <- MCThrSlot
    ArmSlot <- MCArmSlot
    DefaultThr = 0
    DefaultArm = 4
    Requests = {r1, r2}
    PipeCap = 2
    LoadCap = 2
    Debounce = 2
    LineCap = 2
    Controllers = {stick1}
    Calls = {"load", "unload", "start", "stop"}
    MaxFlights = 2
    MaxApiCalls = 3
    Callers = {c1, c2}
    Modes = {"IDLE", "FLIGHT"}
    Rules = {wind}
    QueueCap = 2
    MaxCalls = 2
    MaxFaults = 1
    MaxAlarms = 2
    Cells <- MCCells
    GridOf <- MCGridOf
    Site = "b"
    Nowhere = "none"
    Forecasts = {"calm"}
    Snapshots <- MCSnapshots
    Alarms <- MCAlarms
    Pace = 35
    MaxSamples = 3
INVARIANT InputsAreReported
INVARIANT FlightIsOver
INVARIANT ConfigFollowsModel
INVARIANT PanelFollowsMode
 
INVARIANT StoryIsTold
INVARIANT WeatherIsOfPlace
PROPERTY NoCutInFlight
PROPERTY CockpitCatchesUp
