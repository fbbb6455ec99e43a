SPECIFICATION FairSpec
CONSTANTS
    k1 = k1
    Client = {c1, c2}
    GC = gc
    Upload = {u1}
    Key = {k1}
    KeyOf <- OneKey
    Block = {b1}
    MaxPart = 2
    Ttl = 1
    MaxClock = 2
    MaxStores = 3
    MaxFaults = 1
    NoUpload = NoUpload
    NoPart = NoPart
INVARIANTS OnlyReuploadsLeak
PROPERTIES LiveUploadsKeepTheirParts UploadsEnd
