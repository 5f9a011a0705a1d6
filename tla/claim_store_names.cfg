SPECIFICATION Spec
CONSTANTS
    Proc = {p1, p2}
    Key = {k1}
    Record = {r1}
    NoProc = NoProc
    NoCall = NoCall
    Absent = Absent
    Torn = Torn
    NamesDurable = FALSE
INVARIANTS OneGrant
