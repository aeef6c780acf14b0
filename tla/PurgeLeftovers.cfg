CONSTANTS
    s1 = s1
    e1 = e1
    Existing <- MCExisting
    Subjects = {s1}
    Emails = {e1}
    Requests = {q1, q2}
    Collections = 2
    MaxUsers = 1
    MaxKeys = 1
    None = None
SPECIFICATION Spec
CHECK_DEADLOCK FALSE
INVARIANT PurgeIsComplete
