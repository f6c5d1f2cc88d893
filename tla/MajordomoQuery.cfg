SPECIFICATION Spec
CONSTANTS
    w1 = w1
    w2 = w2
    w3 = w3
    c1 = c1
    c2 = c2
    s1 = s1
    s2 = s2
    Workers = {w1}
    Clients = {c1}
    Services = {s1}
    Internal = {}
    Expiry = 1
    Garbage = {0}
    MaxWorkerSockets = 1
    MaxClientSockets = 1
    Serves <- AllServe1
    Wants <- AllWant1
    Askers = {c1}
    Liveness = 1
    Retries = 1
    MaxCalls = 1
    MaxCrashes = 0
INVARIANTS
    QueriesAreAnswered
CHECK_DEADLOCK FALSE
