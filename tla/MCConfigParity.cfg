SPECIFICATION AbandonSpec
CONSTANTS
    StyleIds = {s1}
    Defs = {a, b}
    NoDef = NoDef
    DocHandlers = {}
    AssetHandlers = {}
    NoEntry = NoEntry
    MaxLearnedStyles = 1
    MaxPushes = 2
    MaxBoots = 0
    MaxWrites = 0
    Absent = Absent
    Refused = Refused
    Local = Local
    MaxTemplatesPerSource = 2
    MaxZoom = 5
    HostNames = {"tiles", "maps"}
    Unset = Unset
    MaxUrlBytes = 3
    MaxAllowedHosts = 2
    MaxCoverageBoxes = 1
INVARIANT OddMeansReplacing
CHECK_DEADLOCK FALSE
