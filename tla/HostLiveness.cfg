SPECIFICATION FairSpec
CONSTANTS
    Sandboxes = {s1, s2, s3}
    ForwardPorts = {40100}
    SandboxLimit = 2
    Exposers = {x1}
    MaxEpoch = 0
    Faults = {"launch", "register", "expose"}
    None = None
CHECK_DEADLOCK FALSE
INVARIANTS
    LentOnce
PROPERTIES
    CreatesEnd
    
