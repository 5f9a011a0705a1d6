SPECIFICATION Spec
CONSTANTS
    Thread = {t1, t2}
    Paths <- MCPaths
    MaxActions = 2
    MaxCalls = 2
    MaxForeign = 1
    Nobody = Nobody
CHECK_DEADLOCK FALSE
INVARIANTS TypeOK OneConstruction OutcomeIsTruthful ReceiptedIsWhole StrayNeedsOtherThread
PROPERTIES CreateOnly CallsReturn
