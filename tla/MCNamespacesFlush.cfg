SPECIFICATION Spec
CONSTANTS
    Conn = {c1, c2}
    NS = {"default", "n"}
    Default = "default"
    Key = {"small"}
    Value = {"small"}
    Address <- Addresses
    Size <- Sizes
    Limit = 2
    Stored <- OnlyGuarded
    Settable = {}
    Inst <- Instances
    MaxFlushes = 1
    MaxCommands = 5
    MaxCrashes = 0
    NoRow = NoRow
    NoUsage = NoUsage
    NoValue = NoValue
    NoInst = NoInst
    NoLimit = NoLimit
CHECK_DEADLOCK FALSE
INVARIANT NoAccessDuringFlush
