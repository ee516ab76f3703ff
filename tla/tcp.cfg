SPECIFICATION FairSpec
CONSTANTS
    Wnd = 3
    Unit = 2
    numdupacks = 2
    RingSize = 4
    Nothing = Nothing
    MaxSeq = 5
    MaxLosses = 2
    MaxMarks = 1
    MaxEarly = 1
    Writes = {2, 5}
INVARIANT
    AckedHasArrived
    WindowKept
    KarnsRule
    TimerRuns
PROPERTY
    DataArrives
CHECK_DEADLOCK FALSE
