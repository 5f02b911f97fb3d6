SPECIFICATION Spec
CONSTANTS
    NumDies = 1
    NumBlocks = 3
    NumPages = 3
    Lsas = {l1, l2, l3, l4}
    Data = {d1, d2}
    NoData = NoData
    LsaNone = LsaNone
    VsaNone = VsaNone
    HotBlocks = FALSE
SYMMETRY StoreSymmetry
INVARIANTS
    TypeOK
    FreeBlocksErased
    VictimsListed
    InvalidCounted
    GcFindsRoom
PROPERTY ImplementsStore
