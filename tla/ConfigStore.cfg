SPECIFICATION Spec
CONSTANTS
    A = A
    B = B
    C = C
    Text = Text
    Aes = Aes
    Nil = Nil
    Blank = Blank
    Junk = Junk
    DefaultPort = 9103
    Id <- MCId
    Server <- MCServer
    Port <- MCPort
    Crypto <- MCCrypto
SYMMETRY IdSymmetry
INVARIANTS
    TypeOK
    OneSelected
    DistinctIds
    Durable
    RelaysCurrent
PROPERTIES
    
    ImplementsConfigList
