SPECIFICATION PlannedSpec
\* A sync that has returned and been closed has nothing left to do.
CHECK_DEADLOCK FALSE
CONSTANTS
    a = a
    b = b
    x = x
    t = t
    AllSources = AllSources
    Op = {a, b, t}
    Configurations <- SomeConfigurations
    Plan <- Plans
    MaxConcurrency = 2
    MaxLocks = 2
INVARIANTS
    TypeOK
    DependenciesFirst
    StatusTellsTheTruth
    ConcurrencyIsBounded
    
PROPERTIES
    EndedRunsAreHistory
    LifecycleSpec
    
    InputsStayCurrent
    SoundPlansRun
