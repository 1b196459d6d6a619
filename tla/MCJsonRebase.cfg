SPECIFICATION BothSpec
CONSTANTS
    NoValue <- None
    Error <- Failure
    Members <- MCMembers
    Documents <- MCDocuments
    Operations <- MCOperations
    MemberOf <- MCMemberOf
    BadPointer <- MCBadPointer
    BadValue <- MCBadValue
    Effect <- EffectOf
    Fits <- FitsAsObject
    MaxOperations = 4
    Dash = "-"
    Numeral <- Numerals
    Values <- MCValues
    NewValues <- MCNewValues
    Paths <- Pointers
    Places <- MCPlaces
    Clones <- clones
    MaxDepth = 4
    MaxNodes = 9
INVARIANTS
    NoHiddenConflict
    OnlyTheDeltaIsAdded
    ConflictsAreReal
    AppliesExactlyWhenLegal
PROPERTIES
    ChangesOnlyTheTarget
    RebaseImplementsPatch
CHECK_DEADLOCK FALSE
