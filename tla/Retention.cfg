CONSTANTS
    App = {a1, a2}
    User = User
    Staff = Staff
    None = None
    Limit = 1
    MaxEdits = 1
    MaxMoves = 2
    MaxErrors = 1
SPECIFICATION Spec
SYMMETRY AppSymmetry
INVARIANTS
    TypeOK
    NewestKept
    OneNewest
    ClosedExpires
    ClearedHasNoData
    GoneIsCleared
CHECK_DEADLOCK FALSE
