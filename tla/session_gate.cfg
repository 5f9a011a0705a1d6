SPECIFICATION Spec
CONSTANTS
    Proc = {p1, p2}
    Activation = {a1}
    Policy = {v1, v2}
    Request = {q1}
    Observer = {o1}
    ApprovalId = {i1, i2}
    NoWork = NoWork
    MaxPowerLosses = 1
    NoRecord = NoRecord
SYMMETRY Interchangeable
INVARIANTS TypeOK StartOnce OneSession
PROPERTIES StaysBurned ImplementsProtocol
