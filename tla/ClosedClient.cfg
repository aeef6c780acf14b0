CONSTANTS
    Requests = {q1}
    Jobs = {j1}
    Workers = {w1}
    Api = api
    Collections = 1
    MaxClients = 2
    MaxFaults = 0
    None = None
SPECIFICATION Spec
CHECK_DEADLOCK FALSE
INVARIANT DirectlyUsable
