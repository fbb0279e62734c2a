CONSTANTS
    Bytes = 2
    MaxWrite = 2
    Mss = 2
    SndBuf = 2
    QueueMax = 2
    U16 = 16
    Wnd = 4
    Edges = {0, 1, 4}
    MaxRtx = 1
    RtxBound = 1
    MayLose = {"data", "acks"}
SPECIFICATION FairSpec
CHECK_DEADLOCK FALSE
INVARIANTS
    QueuesTile
    BufferAccounted
    EdgeRespected

    
