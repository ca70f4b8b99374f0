SPECIFICATION ScriptSpec
CONSTANTS
    Paths = {"a", "b", "src"}
    Configs <- SomeConfigs
    Codes = {0, 1, 127}
    Killed = 9
    MaxSignals = 2
    Defaults <- PathOnly
    ConfigEnv <- Overrides
    ExtraEnv <- Overrides
CHECK_DEADLOCK FALSE
INVARIANTS
    RunsRestricted
    SuccessIsReal
PROPERTIES
    ScriptReturns
