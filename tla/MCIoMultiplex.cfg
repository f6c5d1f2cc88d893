SPECIFICATION Spec
CONSTANTS
    f1 = f1
    f2 = f2
    f3 = f3
    Fds = {f1, f2, f3}
    Garbage = {TRUE, FALSE}
    MaxGen = 2
INVARIANTS
    VectorsParallel
    OneEntryPerOpenFd
    BlocksOnlyOnNew
PROPERTIES
    ReadableIsServed
CHECK_DEADLOCK FALSE
