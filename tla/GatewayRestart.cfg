CONSTANTS
    Request = {r1, r2}
    User = {alice, bob}
    Production = TRUE
    None = None
SPECIFICATION Spec
SYMMETRY Symmetry
INVARIANT
    UnavailableOnlyWhileDown
