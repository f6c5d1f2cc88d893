SPECIFICATION FairSpec
CONSTANTS
    w1 = w1
    w2 = w2
    c1 = c1
    c2 = c2
    Workers = {w1}
    Clients = {c1}
    Anonymous = {c1}
    Names <- PirateNames
    Retries = 2
    MaxCalls = 2
    MaxWorkerSockets = 2
    MaxClientSockets = 2
    MaxCrashes = 1
    Expiry = 1
    Liveness = 1
PROPERTY RepliesPassedOn
CHECK_DEADLOCK FALSE
