SPECIFICATION Spec
\* The syncs are bounded: after the last one only upstream may move.
CHECK_DEADLOCK FALSE
CONSTANTS
    None = None
    Path = {1, 2}
    Scopes = {{}, {1}}
    Bytes = {x, y}
    NameIn <- Namesakes
    SizeOf <- SameSize
    MaxEdits = 2
    MaxSyncs = 3
    MaxRefusals = 1
    MaxStrays = 2
INVARIANTS
    TypeOK
    AbsenceIsTrue
    DamageIsLocal
    ListingIsSettled
SYMMETRY Symmetric
