SPECIFICATION Spec
CONSTANTS
    Tester = tester
    Master = master
    Workers = {w1}
    Conns = {c1, c2, c3}
    Garbage = {FALSE}
    MaxTests = 2
    MaxKills = 0
INVARIANTS
    TestCanBeRepeated
CHECK_DEADLOCK FALSE
