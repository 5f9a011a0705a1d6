CONSTANTS
    f1 = f1
    f2 = f2
    f3 = f3
    Fingerprint = {f1, f2, f3}
    SnapshotOf <- MCSnapshotOf
    Class = {"build", "tests"}
    Validations <- MCValidations
    Destination = {d1, d2, d3}
    Supported = {d1, d2}
    AuthId = {i1, i2}
    Terms = {x1, x2}
    IdemKey = {k1, k2}
    DistinctIds = TRUE
    MaxNow = 1
    MaxIssued = 2
    NoRecord = NoRecord
SPECIFICATION Spec
INVARIANTS TypeOK OneTransition ChainIsWhole
SYMMETRY MCSymmetry
PROPERTY NoLateGrant
CHECK_DEADLOCK FALSE
