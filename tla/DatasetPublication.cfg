SPECIFICATION Spec
\* Runs, resolutions and exports are bounded: after the last one all may rest.
CHECK_DEADLOCK FALSE
CONSTANTS
    x = x
    y = y
    None = None
    Absent = Absent
    Wrong = Wrong
    Foreign = Foreign
    Key <- TwoKeys
    Content = {x, y}
    Listings <- SomeListings
    Request <- Requests
    Instant = {1, 2}
    MaxRuns = 2
    MaxExports = 2
    MaxDamage = 1
    MaxDeaths = 1
INVARIANTS
    TypeOK
    SnapshotIsTheInventory
    CoherentIsOneInventory
    EveryStateWasHeld
    PublishedIsEvidence
PROPERTIES
    
    ExportIsAtomic
    
