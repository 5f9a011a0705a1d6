SPECIFICATION FairSpec
CONSTANTS
    Proc = {p1, p2}
    Key = {k1, k2}
    Record = {r1, r2}
    NoProc = NoProc
    NoCall = NoCall
    Absent = Absent
    Torn = Torn
    NamesDurable = TRUE
INVARIANTS TypeOK OneGrant AnswersCurrent
PROPERTIES NoOverwrite LockReleased ImplementsRegistry
