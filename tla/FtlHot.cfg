SPECIFICATION Spec
CONSTANTS
    NumDies = 1
    NumBlocks = 3
    NumPages = 2
    Lsas = {l1, l2, l3}
    Data = {d1}
    NoData = NoData
    LsaNone = LsaNone
    VsaNone = VsaNone
    HotBlocks = TRUE
SYMMETRY LsaSymmetry
CHECK_DEADLOCK FALSE
INVARIANT CurrentPageManaged
