\* Callers that use release_leaf; ut_error halts the server, so a halted
\* cursor thread may leave nothing enabled.
CONSTANTS
    b1 = b1
    b2 = b2
    b3 = b3
    Block <- MC_Block
    Key <- MC_Key
    PageCap = 2
    MaxClock = 2
    LeafRelease = TRUE
    NONE = NONE
SPECIFICATION Spec
INVARIANT RestoreTrueExact
CHECK_DEADLOCK FALSE
SYMMETRY MC_Symmetry
