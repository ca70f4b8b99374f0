SPECIFICATION FairSpec
CONSTANTS
    p = p
    q = q
    amd64 = amd64
    i386 = i386
    unpacked = unpacked
    installed = installed
    w1 = w1
    w2 = w2
    r1 = r1
    Name <- Names
    Arch <- Arches
    Status <- Statuses
    Writers <- TwoWriters
    Readers <- OneReader
    Batches <- SomeBatches
    Files <- SomeFiles
    MaxRestarts = 1
    MayFail = TRUE
CHECK_DEADLOCK FALSE
INVARIANTS
    OnlyWholeBatches
    AcknowledgedIsSaved
PROPERTIES
    FileNeverGoesBack
    AllReturn
