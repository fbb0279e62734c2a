SPECIFICATION EchoFairSpec
CONSTANTS
    C1 = C1
    C2 = C2
    C3 = C3
    NoDatagram = NoDatagram
    Client <- MCClient
    Numbers = 2
    EchoFaults = {"loss", "server"}

    
PROPERTIES
    EveryoneAnswered
