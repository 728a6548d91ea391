CONSTANTS
    Request = {a, b, c}
    Limit = 2
    Window = 3
    MaxLag = 1
    MaxTime = 14
    MaxHits = 5
    Production = TRUE
    None = None
SPECIFICATION Spec
SYMMETRY Symmetry
INVARIANTS
    TypeOK
    CountersCoverAdmissions
    WindowCap
    BurstBound
    LateBurstBound
    ObedientClientIsAdmitted
    RemainingIsHonoured
PROPERTY
    SlidingBound
