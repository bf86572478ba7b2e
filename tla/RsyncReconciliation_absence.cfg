SPECIFICATION Spec
\* The syncs are bounded: after the last one only upstream may move.
CHECK_DEADLOCK FALSE
CONSTANTS
    None = None
    Path = {1}
    Scopes = {{}, {1}}
    Bytes = {x, y}
    NameIn <- Namesakes
    SizeOf <- SameSize
    MaxEdits = 2
    MaxSyncs = 2
    MaxRefusals = 0
    MaxStrays = 0
INVARIANTS
    AbsentIsNoticed
