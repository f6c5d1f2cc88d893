SPECIFICATION Spec
CONSTANTS
    w1 = w1
    w2 = w2
    c1 = c1
    c2 = c2
    Workers = {w1, w2}
    Clients = {c1}
    Anonymous = {c1}
    Names <- PirateNames
    Retries = 2
    MaxCalls = 2
    MaxWorkerSockets = 2
    MaxClientSockets = 3
    MaxCrashes = 2
    MAX_WORKERS = 2
INVARIANTS
    ListedIffWaiting
    RepliesMatchSequence
    TriesLostToCrashes
    OverflowExplained
PROPERTIES
    RepliesPassedOn
    ImplementsService
CHECK_DEADLOCK FALSE
