SPECIFICATION FairSessionSpec
CONSTANTS
    Clients = {k1, k2}
    Creators = {k1}
    Breakable = {k1}
    Failures = {"timeout", "auth", "launch", "setup", "env", "resolve", "kill"}
    Nobody = Nobody
INVARIANTS
    ConnectionBound
    KillReported
PROPERTIES
    SessionEnds
    
CHECK_DEADLOCK FALSE
