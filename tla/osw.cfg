\* Three windows, a day of two windows, a history of two: see MCOnlineStoreWriter.
CONSTANTS
    MaxWindow = 3
    Counts = {1, 2}
    Malformed = Malformed
    NonNumeric = NonNumeric
    MaxLog = 4
    HistSpan = 2
    MaxHist = 1
    Settings <- All
    NoRecord = NoRecord
SPECIFICATION FairSpec
INVARIANTS
    HistoryExact
    ReplayIdempotent
PROPERTIES
    CommittedOffsetMoves
