\* Writers, a reader walking old versions, purge freeing and reusing undo pages.
CONSTANTS
    t1 = t1
    t2 = t2
    Trx <- MC_Trx
    Val = {1, 2}
    KeyByte = 7
    TableId = 300
    RsegId = 1
    PageNo <- MC_PageNo
    UndoPageSize = 128
    SecIndexOnC = TRUE
    InitTrxId = 10
    MaxOps = 2
    MaxViews = 1
    NONE = NONE
    SQL_NULL = SQL_NULL
    ABSENT = ABSENT
SYMMETRY MC_Symmetry
SPECIFICATION Spec
INVARIANTS
    TypeOK
    ConsistentRead
    UndoPageReplay
    UndoPagesOwnedOnce
