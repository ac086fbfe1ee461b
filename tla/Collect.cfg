SPECIFICATION MCSpec
CONSTANTS
    SpanLimit = 3
    SpanSize = 2
    small = small
    Small = {small}
    LargeSizes = {2}
    Reg = {r1, r2}
    Nil = Nil
    Unassigned = Unassigned
    Large = Large
    LargeMid = LargeMid
    GrayCap = 1
    MarkLimit = 1
    MaxOps = 3
    MaxCollections = 1
    MaxLoads = 1
SYMMETRY Registers
INVARIANTS
    TypeOK
    NothingLiveLost
    FreeBlocksFree
    MarksClear
    GarbageGoes
PROPERTY ImplementsHeap
CHECK_DEADLOCK FALSE
