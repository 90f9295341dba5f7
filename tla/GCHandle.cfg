CONSTANTS
    NULL = NULL
    Objects = {o1}
    Kinds = {0, 2}
    WordBits = 2
    HintRange = 4
    MaxWords = 4
SPECIFICATION Spec
CHECK_DEADLOCK FALSE
INVARIANTS
    SearchStaysInside
    NoTargetIsCollected
PROPERTIES
    GrowsOnlyWhenFull
    ImplementsMap
