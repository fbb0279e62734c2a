SPECIFICATION FairSpec
CONSTANTS
    C1 = C1
    D1 = D1
    D2 = D2
    M1 = M1
    M2 = M2
    Nil = Nil
    Config <- OneConfig
    Data <- TwoData
    Manager <- OneManager
    Installed <- InstalledOne
    Faults = {"save", "reload"}
    Outside = {"start"}
    InOrder = TRUE
    MaxRequests = 3
    MaxLaunches = 1
INVARIANTS
    StatusCurrent
PROPERTIES
    FollowsConnection
