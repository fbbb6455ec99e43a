SPECIFICATION Spec
CONSTANTS
    Writer = {w1, w2}
    Block = {b1, b2}
    Depth = {2}
    HashOf <- OneDirectory
    MaxLosses = 1
    BlockSize = 2
    MaxInlined = 1
    MaxSize = 5
    Keys <- KeySet
    GroupOf <- Groups
    PrefixRanges <- PrefixSet
    Everything = Everything
    ZeroKey = 3
    Sizes <- PageSizes
    ScanPage = 2
    MaxChanges = 2
    Script <- Scripts
    InlineMax = 3
    DefaultName = "default"
    Names = {"a"}
    Protected = {"a"}
SYMMETRY Symmetry
CHECK_DEADLOCK FALSE
INVARIANTS
    NoTornBlock
    LostOnlyWithADirectory
    CutsAreCanonical
    WindowServed
    CheckIsRight
    ListedOnce
    ServedInOrder
    OversizedCaught
    
