SPECIFICATION Spec
CONSTANTS
    Sandboxes = {s1}
    Slots = {0}
    Ports = {p1, p2}
    Killers = {k1, k2}
    Callers = {x1, x2}
    Faults = {"plan", "unwind", "boot", "dial", "stop", "hook", "sweep", "forward", "exit", "crash"}
    None = None
SYMMETRY Symmetry
INVARIANTS
    VmmAccounted
    BridgesHaveMachine
    
PROPERTIES
    LivesAsPromised
    SweepsSettle
