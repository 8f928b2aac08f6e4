CONSTANTS
    None = None
    Identity = Identity
    MaxInt = 50
    TsFloor = 1
    MaxSkew = 2
    LongIds = {"u9"}
    Window = 2
    Lag = 1
    Horizon = 8
    MaxFails = 1
    MinCount = 2
    DeltaPercent = 50
    SkewPercent = 60
    JobSettings <- MCJobSettings
    MaxAge = 0
    RetainLast = 1
    SmallFile = 2
    CareSettings <- MCCareSettings
    MaxCounts = 2
    ServeSettings <- MCServeSettings
    StreamSettings <- MCDocumented
CHECK_DEADLOCK FALSE
SPECIFICATION Spec
INVARIANT
    SomeStatementHolds
