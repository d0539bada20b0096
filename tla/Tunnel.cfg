SPECIFICATION FairSpec
CONSTANTS
    Sandboxes = {s1}
    Calls = {c1, c2}
    Conns = {d1, d2}
    MaxTickets = 1
    Faults = {"bind", "rpc", "kill", "dial"}
    None = None
INVARIANTS
    TicketGuardsGuest
PROPERTIES
    NoSecondLife
    CutTunnelsClose
    
CHECK_DEADLOCK FALSE
