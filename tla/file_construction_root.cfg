SPECIFICATION Spec
CONSTANTS
    Thread = {t1, t2}
    Paths <- MCPaths
    MaxActions = 2
    MaxCalls = 1
    MaxForeign = 1
    Nobody = Nobody
CHECK_DEADLOCK FALSE
INVARIANTS EffectsInWorkspace
SYMMETRY Interchangeable
