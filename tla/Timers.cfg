CONSTANTS
    Tcp = tcp
    Periodic = {reass}
    OneShot = {other}
    Interval <- MCInterval
    Delays = {1, 3}
    ClockSize = 5
    MaxGap = 3
    MaxTimeouts = 3
    Sleeps = TRUE
    Nil = Nil
SPECIFICATION FairSpec
INVARIANTS OneTcpTimer
PROPERTIES ImplementsAlarms 
