SPECIFICATION Spec
CONSTANTS
    Exec = {e1}
    Request = {q1}
    Content = {c1, c2}
    Missing = Missing
    Nobody = Nobody
    MaxEdits = 2
PROPERTIES WritesApproved
CHECK_DEADLOCK FALSE
