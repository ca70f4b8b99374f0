SPECIFICATION FairSpec
CONSTANTS
    A = A
    B = B
    C = C
    V = V
    Name = {A, B, C, V}
    Version <- Versions
    NumVars = 5
    Sessions <- AllSessions
INVARIANTS
    SelectionIsConsistent
    NoSolutionIsRight
    NewestSelected
    KeptIsMaximal
PROPERTIES
    OnlyUnwantedDropped
    Terminates
