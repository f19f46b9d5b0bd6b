SPECIFICATION StylesFairSpec
CONSTANTS
    StyleIds = {s1}
    Defs = {a, b}
    NoDef = NoDef
    DocHandlers = {d1}
    AssetHandlers = {a1}
    NoEntry = NoEntry
    MaxLearnedStyles = 1
    MaxPushes = 2
    MaxBoots = 1
    MaxWrites = 1
    Absent = Absent
    Refused = Refused
    Local = Local
    MaxTemplatesPerSource = 2
    MaxZoom = 5
    HostNames = {"tiles", "maps"}
    Unset = Unset
    MaxUrlBytes = 3
    MaxAllowedHosts = 2
    MaxCoverageBoxes = 1
INVARIANT LearnedIsCurrent
INVARIANT DurableIsHonest
INVARIANT ServedWasInForce
INVARIANT NoBleedInOneLife
INVARIANT DocumentsAgree
INVARIANT SourcesAgree
PROPERTY RequestsEnd
PROPERTY ImplementsCatalog
CHECK_DEADLOCK FALSE
