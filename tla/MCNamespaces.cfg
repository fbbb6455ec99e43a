SPECIFICATION Spec
CONSTANTS
    Conn = {c1, c2}
    NS = {"default", "n"}
    Default = "default"
    Key = {"small", "large", "other"}
    Value = {"small", "large"}
    Address <- Addresses
    Size <- Sizes
    Limit = 2
    Stored <- Kinds
    Settable = {"mode"}
    Inst <- Instances
    MaxFlushes = 1
    MaxCommands = 4
    MaxCrashes = 1
    NoRow = NoRow
    NoUsage = NoUsage
    NoValue = NoValue
    NoInst = NoInst
    NoLimit = NoLimit
SYMMETRY Symmetry
CHECK_DEADLOCK FALSE
INVARIANTS
    HeaderRaisedFirst
    LedgerExact
    QuotaBounded
    OnlyFlushSticks
PROPERTIES
    WormSettles
    CasKeysAreAddresses
