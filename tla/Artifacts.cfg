SPECIFICATION Spec
CONSTANTS
    Sets = {h1}
    Execs = {e1, e2}
    Killers = {k1}
    Faults = {"plan", "journal", "boot", "stop", "hook", "corrupt", "crash"}
    None = None
INVARIANTS
    HeldSetsPresent
    
    
CHECK_DEADLOCK FALSE
