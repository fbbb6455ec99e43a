SPECIFICATION Spec
CONSTANTS
    live = live
    stranded = stranded
    left = left
    raw = raw
    orphan = orphan
    part = part
    Parts = Parts
    Uploads = Uploads
    Block = {b1}
    Depth = {1, 2}
    Tree = {live, stranded}
    Holder = {left, raw, orphan, part}
    Home <- HomeOf
    BucketRow = {live}
    Owned = {part}
    Unnamable = {raw}
    MaxRefs = 1
    MaxLeaks = 1
    MaxFaults = 0
INVARIANTS DeletedCopiesAreUnwanted
