CONSTANTS
    Request = {a1, a2, a3, r1, r2}
    User = {alice, bob}
    None = None
    alice = alice
    a1 = a1
    a2 = a2
    a3 = a3
SPECIFICATION FairWarmOrCold
INVARIANTS
    TypeOK
    ReuseDetectedUnlessConcurrent
    RevocationIsExplained
    SweepCoversEarlierSessions
    OneRegistrationPerAccount
PROPERTIES
    RefinesLedger
    EveryRequestAnswered
