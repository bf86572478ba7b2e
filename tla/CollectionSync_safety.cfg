SPECIFICATION Spec
\* The syncs are bounded: after the last one only the outside may move.
CHECK_DEADLOCK FALSE
CONSTANTS
    None = None
    x = x
    y = y
    bad = bad
    Item = {1, 2}
    Slot = {1, 2}
    Dest <- OwnFile
    Bytes <- TwoGood
    Valid <- BlindToNames
    MaxEdits = 1
    MaxSyncs = 3
    MaxFaults = 1
INVARIANTS
    TypeOK
    AbsenceIsTrue
    
    
    QuietRefreshAgrees
    
    BaselineIsRecorded
SYMMETRY Symmetric
