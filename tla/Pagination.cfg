CONSTANTS
    Job <- MCJob
    Date <- MCDate
    PageSize <- MCPageSize
    NoDate <- MCNoDate
    Undated = FALSE
SPECIFICATION FairSpec
INVARIANTS
    TypeOK
    StableReturnedOnce
PROPERTIES
    CursorMovesOn
    WalkEnds
