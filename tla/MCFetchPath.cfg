SPECIFICATION FetchSpec
CONSTANTS
    Keys = {k1}
    StyleKeys = {s1}
    Fills = {f1, f2}
    Warms = {w1}
    Styles = {y1}
    Handlers = {h1}
    Locks = {l1, l2, l3, l4}
    NoLock = NoLock
    Dead = Dead
    NoRow = NoRow
    NoTask = NoTask
    NoRead = NoRead
    Never = Never
    MaxInflightKeys = 1
    FreshSecs = 1
    MaxStaleSecs = 2
    NegativeTtlSecs = 1
    TtlSecs = 1
    RecoverySecs = 1
    MaxTime = 2
    ExitBy = 0
    MaxVersion = 1
INVARIANTS
    SingleFlight
    HonestFreshness
    NoLostWakeup
PROPERTIES
    RefusedOnlyWhenFull
    
CHECK_DEADLOCK FALSE
SYMMETRY FillSymmetry
