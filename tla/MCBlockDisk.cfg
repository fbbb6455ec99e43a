SPECIFICATION Spec
CONSTANTS
    Writer = {w1}
    Block = {b1}
    Depth = {1}
    HashOf <- OneHash
    MaxLosses = 1
INVARIANT RecordedBlockSurvives
