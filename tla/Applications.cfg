CONSTANTS
    f1 = f1
    f2 = f2
    unknown = unknown
    yes = yes
    no = no
    None = None
    Requests = {q0, q1, q2, q3}
    FormFields = {f1, f2}
    Bodies <- MCBodies
    Statuses <- MCStatuses
SYMMETRY RequestSymmetry
SPECIFICATION Spec
CHECK_DEADLOCK FALSE
INVARIANTS TypeOK OneAnswerPerField LatestIsStored SubmittedHasTime RememberedAsSent
