\* Refinement of PcurAbstract by the cursor, without release_leaf.
CONSTANTS
    b1 = b1
    b2 = b2
    b3 = b3
    Block <- MC_Block
    Key <- MC_Key
    PageCap = 2
    MaxClock = 2
    LeafRelease = FALSE
    NONE = NONE
SPECIFICATION Spec
INVARIANT TypeOK
PROPERTY PcurRefinement
