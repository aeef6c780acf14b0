CONSTANTS
    s1 = s1
    e1 = e1
    Existing <- MCExisting
    Subjects = {s1, s2}
    Emails = {e1, e2}
    Requests = {q1, q2, q3}
    Collections = 2
    MaxUsers = 3
    MaxKeys = 2
    None = None
SYMMETRY AccountSymmetry
SPECIFICATION Spec
CHECK_DEADLOCK FALSE
INVARIANTS TypeOK OneAccount LeftoversAreExplained WithdrawnKeyIsRefused
PROPERTY DeletedStaysDeleted
