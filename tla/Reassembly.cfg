CONSTANTS
    Bytes = 8
    Wnd = 7
    Mss = 2
    SeqSize = 64
    Isn = {0, 26}
    FinBeyond = FALSE
    MayRefuse = TRUE
    ReadsLater = TRUE
SPECIFICATION FairSpec
INVARIANTS
    StreamInOrder
    Accounted
    
PROPERTIES
    EdgeNeverShrinks
    AllArrives
