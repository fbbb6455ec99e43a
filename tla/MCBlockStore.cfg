SPECIFICATION Spec
CONSTANTS
    b1 = b1
    b2 = b2
    Proc = {p1, p2}
    Key = {k1, k2}
    Block = {b1}
    Depth = {1, 2}
    StripeOf <- CrossedStripes
    MaxBlocksPerCommit = 1
    MaxChunks = 2
    MaxFaults = 1
    NoProc = NoProc
    NoKey = NoKey
SYMMETRY Symmetry
INVARIANTS NeverUndercounts ExactUntilFault NoLoss Inductive
PROPERTIES DegradedNeverGains ImplementsContentStore
