CONSTANTS
    Pcb = {p1, p2, p3}
    Conn = {c1, c2, c3, c4}
    Stray = FALSE
    Build = "debug"
    MayCall <- Considerate
    MaxSockets = 4
    MaxWrites = 1
    Nil = Nil
SPECIFICATION FullSpec
SYMMETRY Symmetry
INVARIANTS
    Attached
    ToldOnce
    ListsSane
    NoUseAfterFree
    
