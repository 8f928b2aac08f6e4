\* A kill between the truncation of the file and its write.
CONSTANTS
    MaxCount = 3
    Malformed = Malformed
    Unreadable = Unreadable
    MaxLog = 4
    WarmupWindows = 2
    OkInterval = 2
    AlphaNum = 1
    AlphaDen = 2
    Settings <- File
    None = None
    Torn = Torn
SPECIFICATION Spec
PROPERTY BootstrapOnlyWithoutPrior
