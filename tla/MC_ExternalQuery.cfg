CONSTANTS
    a = a
    u = u
    Known <- MCKnown
    Unknown <- MCUnknown
    MaxDepth = 2
SPECIFICATION Spec
INVARIANTS
    TypeOK
    PushedOnlyKnownColumns
    PushedCompatible
    PushdownExact
CHECK_DEADLOCK FALSE
