CONSTANTS
    Request = {r1, r2, r3}
    User = {alice, bob}
    Production = TRUE
    None = None
SPECIFICATION Spec
SYMMETRY Symmetry
INVARIANTS
    TypeOK
    RevocationIsImmediate
    KeysAreManagedBySessions
    ServedIsCounted
