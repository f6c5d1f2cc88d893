SPECIFICATION FairSpec
CONSTANTS
    Tester = tester
    Master = master
    Workers = {w1}
    Conns = {c1}
    Garbage = {FALSE}
    MaxTests = 0
    MaxKills = 0
PROPERTIES
    TesterWaitEnds
CHECK_DEADLOCK FALSE
