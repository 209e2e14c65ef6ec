CONSTANTS
    r1 = r1
    r2 = r2
    k1 = k1
    Rules <- MCRules
    StaleKeys <- MCStaleKeys
    MaxTime = 2
    MaxBlockRows = 2
    MaxBlocks = 2
SPECIFICATION Spec
INVARIANTS
    TypeOK
    TTLBoundsExact
CHECK_DEADLOCK FALSE
