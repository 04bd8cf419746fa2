CONSTANTS
    u1 = u1
    u2 = u2
    m = m
    NONE = NONE
    Master = m
    Page <- MC_Page
    User <- MC_User
    MaxLsn <- MC_MaxLsn2
    DwBlockSize <- MC_DwBlockSize
    FreeBlockMargin <- MC_FreeBlockMargin
    ExtraMargin <- MC_ExtraMargin
    MaxLatches <- MC_MaxLatches1
INIT Init
NEXT Next
INVARIANTS
    WALRule
    NoLostWakeup
SYMMETRY MC_Symmetry
