CONSTANTS
    a = a
    u = u
    Known <- MCKnown
    Unknown <- MCUnknown
    MaxDepth = 2
SPECIFICATION Spec
INVARIANTS
    PushdownSound
CHECK_DEADLOCK FALSE
