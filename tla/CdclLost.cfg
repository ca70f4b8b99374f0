SPECIFICATION Spec
CONSTANTS
    NumVars = 3
    Formulas <- LostModel
    AssumptionSets <- NoAssumptions
INVARIANT UnsatIsSound
