SPECIFICATION FairSpec
CONSTANTS
    Sandboxes = {s1}
    Slots = {0}
    Ports = {}
    Killers = {k1}
    Callers = {}
    Faults = {"crash"}
    None = None
PROPERTIES
    NextStartConverges
