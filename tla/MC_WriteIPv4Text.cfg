CONSTANTS
    IPs <- MCIPs
SPECIFICATION Spec
INVARIANTS
    TypeOK
    IPv4TextExact
CHECK_DEADLOCK FALSE
