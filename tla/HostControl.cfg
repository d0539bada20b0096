SPECIFICATION Spec
CONSTANTS
    Sandboxes = {s1, s2}
    ForwardPorts = {40100, 40101}
    SandboxLimit = 2
    Exposers = {x1, x2}
    MaxEpoch = 2
    Faults = {"launch", "register", "timeout", "kill", "expose", "revoke", "restart"}
    None = None
SYMMETRY Symmetry
CHECK_DEADLOCK FALSE
INVARIANTS
    Accounted
    RevocationHolds
