SPECIFICATION FairSpec
CONSTANTS
    a = a
    b = b
    Ids = {a, b}
    Writers = {create, owned, sweep, bind}
    create = create
    owned = owned
    sweep = sweep
    bind = bind
    drop = drop
    Kind <- MCKind
    Targets <- MCTargets
    MaxAttempts = 2
    Faults = {"write", "crash"}
CHECK_DEADLOCK FALSE
INVARIANTS
    WriterContract
PROPERTIES
    UpdatesAreAtomic
    EveryCallAnswers
