CONSTANTS
    Request = {r1, r2, r3, r4}
    User = {alice, bob}
    None = None
    alice = alice
    a1 = a1
    a2 = a2
    a3 = a3
SPECIFICATION Spec
SYMMETRY Symmetry
INVARIANT
    SweptSessionsEnd
