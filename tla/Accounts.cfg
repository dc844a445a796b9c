CONSTANTS
    User = {u1}
    Instance = {i1, i2}
    None = None
    Limit = 1
    MaxSignIns = 1
    MaxErrors = 1
SPECIFICATION FairSpec
INVARIANTS
    TypeOK
    OverlapsExplained
    DeletedWasMailed
PROPERTIES
    DeletedWasIdle
    SecondMailExplained
    StaleIsDeleted
