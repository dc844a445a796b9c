CONSTANTS
    Editor = {e1, e2}
    Question = {q1}
    None = None
    MaxUpdates = 2
    MaxErrors = 1
SPECIFICATION Spec
SYMMETRY EditorSymmetry
INVARIANTS
    TypeOK
    DatesSet
    ClosingTakesEffect
    PageCurrent
    PublishedInUse
PROPERTIES
    QuestionMoves
CHECK_DEADLOCK FALSE
