SPECIFICATION Spec
CONSTANTS
    NumVars = 6
    Formulas <- DeepFormulas
    AssumptionSets <- NoAssumptions
PROPERTIES
    BackjumpGains
    ImplementsOracle
