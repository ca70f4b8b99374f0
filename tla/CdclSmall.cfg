SPECIFICATION FairSpec
CONSTANTS
    NumVars = 3
    Formulas <- SmallFormulas
    AssumptionSets <- SomeAssumptions
INVARIANTS
    TypeOK
    SatIsModel
    AssumptionsForced
    UnsatSoundIfLearntImplied
    PropagationComplete
    AnalysisStaysOnTrail
PROPERTY Terminates
