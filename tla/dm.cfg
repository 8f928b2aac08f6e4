\* A warm-up of two windows, an update on two stable ones: see MCDriftMonitor.
CONSTANTS
    MaxCount = 3
    Malformed = Malformed
    Unreadable = Unreadable
    MaxLog = 4
    WarmupWindows = 2
    OkInterval = 2
    AlphaNum = 1
    AlphaDen = 2
    Settings <- All
    None = None
    Torn = Torn
SPECIFICATION FairSpec
INVARIANTS
    CommittedIsHandled
    StoredIsInUse
PROPERTIES
    UpdateAfterOkRun
    EveryWindowIsHandled
