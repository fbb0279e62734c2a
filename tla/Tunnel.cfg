SPECIFICATION TunnelFairSpec
CONSTANTS
    N1 = N1
    N2 = N2
    N3 = N3
    C1 = C1
    C2 = C2
    NoWay = NoWay
    None = None
    Network <- MCThreeNetworks
    Conf <- MCTwoConfs
    Faults = {"settings", "port"}
    MaxChanges = 5
INVARIANTS
    TunnelTypeOK
    ProxyServes
    NoCrash
    OneConfiguration
PROPERTIES
    StartAnswered
    StaleConnectionsEnd
