SPECIFICATION FairSpec
CONSTANTS
    C1 = C1
    D1 = D1
    D2 = D2
    M1 = M1
    M2 = M2
    Nil = Nil
    Config <- OneConfig
    Data <- OneData
    Manager <- TwoManagers
    Installed <- InstalledNone
    Faults = {}
    Outside = {"start", "remove"}
    InOrder = TRUE
    MaxRequests = 2
    MaxLaunches = 0
INVARIANTS
    
    ReloadFindsManager
PROPERTIES
    
    DisconnectHonoured
