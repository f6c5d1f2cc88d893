SPECIFICATION FairSpec
CONSTANTS
    Tester = tester
    Master = master
    Workers = {w1, w2}
    Conns = {c1}
    Garbage = {FALSE}
    MaxTests = 0
    MaxKills = 1
INVARIANTS
    MasterExitExplained
    ReadyMeansAllJoined
    MasterOutlivesWorkers
PROPERTIES
    ImplementsLifecycle
    OrphansEnd
CHECK_DEADLOCK FALSE
