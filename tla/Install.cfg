SPECIFICATION InstallSpec
CONSTANTS
    A = A
    B = B
    x = x
    y = y
    out = out
    Name = {A, B}
    Version <- One
    NumVars = 3
    PostInst = PostInst
    Path <- Paths
    Beyond <- LedOut
    Indices <- TwoFiles
    Requests <- Calls
    Source <- FirstSource
    Debs <- DebOf
    Scripted <- Postinsts
    MaxCalls = 2
CHECK_DEADLOCK FALSE
INVARIANTS
    UnpackedWhole
    StopsWhereItFails
    InstalledIsClosed
