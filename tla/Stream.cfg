SPECIFICATION FairSpec
CONSTANTS
    Flows = {"upload", "file", "stdin", "output"}
    Writers = {w1, w2}
    N = 3
    Window = 2
    Faults = {"timeout", "disk", "pipe", "source", "drop"}
    None = None
    Torn = Torn
INVARIANTS
    UploadsWhole
    AckedWriteInPlace
    

    
CHECK_DEADLOCK FALSE
