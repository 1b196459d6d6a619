SPECIFICATION Spec
CONSTANTS
    current = current
    withdrawn = withdrawn
    q1 = q1
    q2 = q2
    Statuses = {current, withdrawn}
    Current = current
    Operations = {q1, q2}
    None = None
    Freshness = 1
    MaxSize = 3
    MaxEpoch = 2
    MaxTime = 1
SYMMETRY MCSymmetry
INVARIANTS
    ViewOnlyGrows
    OnlyForksAreRefused
PROPERTIES
    FreshAtUse
CHECK_DEADLOCK FALSE
