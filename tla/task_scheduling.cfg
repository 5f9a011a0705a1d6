CONSTANTS
    Worker = {1, 2}
    Task = {1, 2, 3}
    Graph <- MCGraph
    Priority <- MCPriority
    Able <- MCAble
    Prefers <- MCPrefers
    AbleNode = {1}
    PrefersNode = {}
    UnavailableAt = 2
    MaxCalls = 2
    MaxRaises = 1
SPECIFICATION Spec
INVARIANTS InOrder WorkedOnce WorkersReturned
PROPERTY CallsEnd
CHECK_DEADLOCK FALSE
