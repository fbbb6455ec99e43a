SPECIFICATION Spec
CONSTANTS
    d1 = d1
    d2 = d2
    d3 = d3
    r1 = r1
    r2 = r2
    p1 = p1
    p2 = p2
    Proc = {p1, p2}
    Db = {d1, d2, d3}
    Root = {r1, r2}
    Invocations <- Crosswise
    Damaged = {r2}
    Missing = {r1}
    Stores <- NewAndOld
    MaxOpens = 3
    MaxCrashes = 1
    NoProc = NoProc
    Legacy = Legacy
    Absent = Absent
    Bare = Bare
    NoId = NoId
    Junk = Junk
    NoRoot = NoRoot
    Residue = Residue
SYMMETRY Symmetry
INVARIANTS RefusalsAreDeserved OneServicePerRoot
PROPERTIES IdentityKept
CHECK_DEADLOCK FALSE
