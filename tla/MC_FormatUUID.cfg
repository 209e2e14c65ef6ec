CONSTANTS
    ByteValues <- MCByteValues
SPECIFICATION Spec
INVARIANTS
    TypeOK
    UUIDTextCanonical
CHECK_DEADLOCK FALSE
