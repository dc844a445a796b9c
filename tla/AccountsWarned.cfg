CONSTANTS
    User = {u1}
    Instance = {i1}
    None = None
    Limit = 1
    MaxSignIns = 1
    MaxErrors = 0
SPECIFICATION Spec
PROPERTIES
    WarnedSinceLogin
