SPECIFICATION Spec
CONSTANTS
    w1 = w1
    w2 = w2
    w3 = w3
    c1 = c1
    c2 = c2
    s1 = s1
    s2 = s2
    Workers = {w1, w2, w3}
    Clients = {c1, c2}
    Services = {s1, s2}
    Internal = {}
    Expiry = 2
    Garbage = {0}
    MaxWorkerSockets = 1
    MaxClientSockets = 1
    Serves <- TwoAndOne
    Wants <- WantEach
    Askers = {c2}
    Liveness = 1
    Retries = 1
    MaxCalls = 1
    MaxCrashes = 0
SYMMETRY WorkerSymmetry
INVARIANTS
    ListsAgree
    NobodyWaitsForNothing
    OneRequestAtATime
    
CHECK_DEADLOCK FALSE
