CONSTANTS
    Timeout = 3
    TickPeriod = 2
    BufferSize = 2
    CountCap = 1
SPECIFICATION FairSpec
INVARIANTS RequestIsSound DrainConverges
PROPERTY ArmedIsGated
PROPERTY RequestResolves
