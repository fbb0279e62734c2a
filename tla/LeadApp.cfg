SPECIFICATION Spec
CONSTANTS
    A = A
    B = B
    P1 = P1
    P2 = P2
    Text = Text
    Aes = Aes
    M1 = M1
    Nil = Nil
    Blank = Blank
    Junk = Junk
    DefaultPort = P1
    Id <- MCId
    Server <- MCServer
    Port <- MCPort
    Crypto <- MCCrypto
    Manager <- MCManager
    Installed <- InstalledOne
    Faults = {"load", "save"}
    Outside = {"remove"}
    InOrder = TRUE
    MaxRequests = 1
    MaxLaunches = 1
SYMMETRY IdAndPortSymmetry

    
PROPERTIES
    StartRunsWhatWasAsked
