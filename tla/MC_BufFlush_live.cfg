CONSTANTS
    u1 = u1
    u2 = u2
    m = m
    NONE = NONE
    Master = m
    Page <- MC_Page
    User <- MC_User1
    MaxLsn <- MC_MaxLsn2
    DwBlockSize <- MC_DwBlockSize
    FreeBlockMargin <- MC_FreeBlockMargin
    ExtraMargin <- MC_ExtraMargin
    MaxLatches <- MC_MaxLatches
SPECIFICATION Spec
PROPERTIES
    AllCallsReturn
CHECK_DEADLOCK FALSE
