CONSTANTS
    c1 = c1
    c2 = c2
    Columns <- MCColumns
    MaxRows = 2
    BatchSizes = {1, 2}
    Configs <- MCConfigs
SPECIFICATION Spec
INVARIANTS
    TypeOK
    CommittedPartConsistent
    ReleasedHandleSettlesBuffers
PROPERTIES
    SettledStaysSettled
    
    ImplementsFinalizer
CHECK_DEADLOCK FALSE
