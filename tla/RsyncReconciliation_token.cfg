SPECIFICATION Spec
\* The syncs are bounded: after the last one only upstream may move.
CHECK_DEADLOCK FALSE
CONSTANTS
    None = None
    Path = {1}
    Scopes = {{}}
    Bytes = {x, y}
    NameIn <- Namesakes
    SizeOf <- SameSize
    MaxEdits = 1
    MaxSyncs = 2
    MaxRefusals = 0
    MaxStrays = 0
INVARIANTS
    FaithfulMirrorIsRecorded
