CONSTANTS
    Job <- MCJob
    Date <- MCDate
    PageSize <- MCPageSize
    NoDate <- MCNoDate
    Undated = TRUE
SPECIFICATION Spec
INVARIANT
    StableReturnedOnce
