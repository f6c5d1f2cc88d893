SPECIFICATION FairSpec
CONSTANTS
    c1 = c1
    c2 = c2
    Clients = {c1, c2}
    Server = Server
    NoInfo = NoInfo
    Burst = 1
    MaxLines <- FewLines
INVARIANTS
    NoNullDereference
PROPERTIES
    
    QuitObeyed
    
CHECK_DEADLOCK FALSE
