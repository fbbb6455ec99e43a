SPECIFICATION Spec
CONSTANTS
    Proc = {p1, p2, p3}
    Bucket = {b}
    Key <- Keys
    Size <- Sizes
    MaxInlined = 1
    MaxJobs = 4
    MaxCrashes = 1
SYMMETRY Interchangeable
CHECK_DEADLOCK FALSE
INVARIANTS
    UsageExact
    NothingLeaks
    ListedIffThere
