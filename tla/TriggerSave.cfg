SPECIFICATION Spec
CONSTANTS
    a = a
    b = b
    s = s
    t = t
    part = part
    Beginnings <- TwoBeginnings
    Package <- TwoPackages
    Name <- TwoNames
    MaxSaves = 2
    Registrations <- Registered
CHECK_DEADLOCK FALSE
INVARIANTS
    PendingHasInterest
    SavedIsRestored
