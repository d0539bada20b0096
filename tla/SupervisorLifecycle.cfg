SPECIFICATION FairSpec
CONSTANTS
    Sandboxes = {s1, s2}
    Slots = {0, 1}
    Ports = {}
    Killers = {k1}
    Callers = {}
    Faults = {"plan", "boot", "stop", "hook", "sweep", "exit", "crash"}
    None = None
INVARIANTS
    TypeOK
    
    CleanSlotReuse
    ReadyHasNetwork

    
