SPECIFICATION Spec
SYMMETRY Symm
\* A creation that crashes leaves a root that no process can create or open.
CHECK_DEADLOCK FALSE
CONSTANTS
    p1 = p1
    p2 = p2
    p3 = p3
    c1 = c1
    c2 = c2
    Proc = {p1, p2, p3}
    Content = {c1, c2}
    RefTable = {"observations", "validations"}
    NoProc = NoProc
    NoContent = NoContent
    MaxDamage = 1
INVARIANTS
    TypeOK
    OneOwner
    BytesBeforeMetadata
    PlanStaysValid
    AuditAccusesOnlyTheDisk
PROPERTY
    ContractIsKept
