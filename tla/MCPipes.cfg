SPECIFICATION Spec
CHECK_DEADLOCK FALSE
CONSTANTS
    Threads = {t1, t2}
    Init1 = t1
    Nobody = nobody
    Limit = 2
    MaxPipes = 1
    PipeBuf = 2
    Capacity = 2
    Sizes = {2, 3}
    Places = {p1}
    Nowhere = nowhere
    Counts = {2, 3}
    MaxChanges = 2
INVARIANTS
    TypeOK
    NoneWaitsInVain
    HonestWrites
    SmallWritesWhole
