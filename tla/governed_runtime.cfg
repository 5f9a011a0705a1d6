SPECIFICATION FairSpec
CONSTANTS
    Exec = {e1, e2}
    Request = {q1}
    Content = {c1, c2}
    Missing = Missing
    Nobody = Nobody
    MaxEdits = 2
INVARIANTS TypeOK CompletedIsCharged OwnWriteStands ResultAudited
PROPERTIES FirstRecordStays Terminates
CHECK_DEADLOCK FALSE
