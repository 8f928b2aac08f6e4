\* Each program of the lake once: see MCFeatureLake.
CONSTANTS
    None = None
    LakeFiles = {1, 2, 3}
    Users = {"u1", "u2"}
    LastWin = 4
    DayLength = 2
    RowsOf <- MCRowsOf
    FileDay <- MCFileDay
    Views = {"stats", "rate"}
    OnDemand = {"rate"}
    FeaturesOf <- MCFeaturesOf
    HistSpan = 2
    MaxHist = 1
    Procs = {"p1", "p2"}
    StoreSettings <- MCStoreSettings
    DemoFiles = {8, 9}
    PathOf <- OnePath
    Records <- MCRecords
    NotText = {2}
    Heat <- MCHeat
    MaxFiles = 2
    TopN = 2
    Jobs = {"j1", "j2"}
    Ids = {"j1", "j2"}
    TrainSettings <- MCTrainSettings
    Sources = {1, 2, 3}
    Runs = {"r1", "r2"}
    RunIds = {"r1", "r2"}
    KeepHot = 2
    EngineSettings <- MCEngineSettings
    SinkRows <- MCSinkRows
    SinkDay <- MCSinkDay
    TableRows <- MCTableRows
    MaxReads = 2
    BatchSettings <- MCBatchSettings
    LakeSettings <- Documented
CHECK_DEADLOCK FALSE
SPECIFICATION Spec
INVARIANTS
    SomeStatementHolds
