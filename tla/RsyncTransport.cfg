SPECIFICATION Spec
\* All calls may have been made.
CHECK_DEADLOCK FALSE
CONSTANTS
    f = f
    g = g
    a = a
    b = b
    Whole = Whole
    Gone = Gone
    Garbled = Garbled
    File = {f, g}
    Request = {Whole, a, b}
    Covers <- Under
    Buckets = {a, b}
    Canonical = {a, b}
    Wide = {g}
    MaxAttempts = 2
    PipeSize = 1
    MaxCalls = 2
    MaxEdits = 1
    MaxNotices = 1
INVARIANTS
    TypeOK
    
PROPERTIES
    ReportsEverything
    RunsDown
    UpdateReturns
