CONSTANTS
    c1 = c1
    c2 = c2
    p1 = p1
    p2 = p2
    q1 = q1
    Run = {r1, r2}
    Company = {c1, c2}
    Posting = {p1, p2, q1}
    CompanyOf <- Placed
    NoUrl = {q1}
    Unreachable = Unreachable
    None = None
SPECIFICATION FairSpecFew
INVARIANT
    TypeOK
PROPERTIES
    ChangesComeFromFeeds
    FeedDecidesUnlessContested
    EveryRunEnds
