SPECIFICATION FairSpec
CONSTANTS
    Conns = {c1}
    k1 = k1
    k2 = k2
    Calls <- MCCalls
    Creds = {x1, x2}
    MaxFailures = 2
    Kinds <- MCKinds
    Seeds = {x1}
    Faults = {"nic", "open", "setup"}
    None = None
INVARIANTS
    AuthenticatedByCurrent
    

    
    
CHECK_DEADLOCK FALSE
