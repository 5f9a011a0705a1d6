SPECIFICATION Spec
CONSTANTS
    MaxBudget = 3
INVARIANTS TypeOK LedgerValid OneEffectPerIteration
CHECK_DEADLOCK FALSE
