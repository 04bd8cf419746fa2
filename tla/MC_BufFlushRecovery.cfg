CONSTANTS
    u1 = u1
    m = m
    NONE = NONE
    Master = m
    Page <- MC_Page
    User <- MC_User
    MaxLsn <- MC_MaxLsn
    DwBlockSize <- MC_DwBlockSize
    FreeBlockMargin <- MC_FreeBlockMargin
    ExtraMargin <- MC_ExtraMargin
    MaxLatches <- MC_MaxLatches
    MaxRestarts <- MC_MaxRestarts
INIT InitR
NEXT NextR
INVARIANTS
    TornPagesRestored
    CheckpointLsnSafe
    WALRule
    TypeOK
    CleanPagesWritten
    DwSlotsDistinctUnderIo
