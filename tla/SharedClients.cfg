CONSTANTS
    Requests = {q1, q2}
    Jobs = {j1, j2}
    Workers = {w1, w2}
    Api = api
    Collections = 2
    MaxClients = 4
    MaxFaults = 2
    None = None
SYMMETRY ClientSymmetry
SPECIFICATION Spec
CHECK_DEADLOCK FALSE
INVARIANTS TypeOK UsableInProduction LiveIsReady
