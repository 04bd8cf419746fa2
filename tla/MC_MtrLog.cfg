\* Redo log writes, commits, crashes at every log length and recovery.
CONSTANTS
    pd = pd
    pa = pa
    pb = pb
    po = po
    Page <- MC_Page
    IndexPage <- MC_IndexPage
    PageNo <- MC_PageNo
    SpaceId = 300
    Write <- MC_Write
    DynDataSize = 32
    MaxRecs = 2
    NONE = NONE
SPECIFICATION Spec
INVARIANTS
    TypeOK
    RedoReplaysWrites
    DynBlocksBounded
PROPERTY
    RecordRoundTrip
