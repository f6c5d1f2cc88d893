SPECIFICATION FairSpec
CONSTANTS
    w1 = w1
    w2 = w2
    w3 = w3
    c1 = c1
    c2 = c2
    s1 = s1
    s2 = s2
    Workers = {w1}
    Clients = {c1}
    Services = {s1}
    Internal = {}
    Expiry = 1
    Garbage = {0}
    MaxWorkerSockets = 2
    MaxClientSockets = 2
    Serves <- AllServe1
    Wants <- AllWant1
    Askers = {}
    Liveness = 1
    Retries = 2
    MaxCalls = 2
    MaxCrashes = 1
INVARIANTS
    NeverMultiplied
    
    NoWorkerForgotten
PROPERTIES
    ImplementsService
    DeadWorkersExpire
    
CHECK_DEADLOCK FALSE
