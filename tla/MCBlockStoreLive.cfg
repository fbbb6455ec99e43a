SPECIFICATION FairSpec
CONSTANTS
    b1 = b1
    b2 = b2
    Proc = {p1, p2}
    Key = {k1}
    Block = {b1, b2}
    Depth = {1}
    StripeOf <- CrossedStripes
    MaxBlocksPerCommit = 2
    MaxChunks = 2
    MaxFaults = 0
    NoProc = NoProc
    NoKey = NoKey
PROPERTIES BatchesClose
