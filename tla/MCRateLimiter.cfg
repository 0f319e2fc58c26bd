\* Two identities, two requests at a time, windows of four half seconds (two
\* seconds) and a lock wait of up to two windows, over four windows.
CONSTANTS
    i1 = i1  i2 = i2  s1 = s1  s2 = s2
    Identities <- MCIdentities
    Slots <- MCSlots
    Limit = 2
    Second = 2
    Window = 4
    Patience = 8
    LastTick = 17
    MaxRequests = 5
    None = None
SYMMETRY MCSymmetry
SPECIFICATION Spec
CHECK_DEADLOCK FALSE
INVARIANTS
    TypeOK
    AdmissionsExact
    RowsAreSwept
    RetryAfterLeavesTheWindow
