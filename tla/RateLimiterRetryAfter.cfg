CONSTANTS
    Request = {a, b}
    Limit = 3
    Window = 3
    MaxLag = 1
    MaxTime = 14
    MaxHits = 5
    Production = TRUE
    None = None
SPECIFICATION Spec
SYMMETRY Symmetry
INVARIANT
    RetryAfterIsEnough
