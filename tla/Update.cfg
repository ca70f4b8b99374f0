SPECIFICATION UpdateSpec
CONSTANTS
    Entries <- TwoArchives
    Host <- HostOf
    Clearsigned <- OnlyA
    Torn = Torn
    MaxPublish = 2
    MaxUpdates = 2
    MaxStops = 1
CHECK_DEADLOCK FALSE
INVARIANTS
    DoneIsFresh
    FailedIsPrefix
    ChainIsShortest
PROPERTY
    UpdateReturns
