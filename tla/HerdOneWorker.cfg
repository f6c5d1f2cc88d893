SPECIFICATION FairSpec
CONSTANTS
    Tester = tester
    Master = master
    Workers = {w1}
    Conns = {c1, c2}
    Garbage = {TRUE, FALSE}
    MaxTests = 1
    MaxKills = 0
INVARIANTS
    TypeOK
    PollsWhatItHolds
    HoldsLatestConnection
PROPERTIES
    TerminateNotSwallowed
    QuitEndsReadyServer
    StartUpSettles
CHECK_DEADLOCK FALSE
