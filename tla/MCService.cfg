SPECIFICATION FairSpec
CONSTANTS
    NoDir = NoDir
    EmptyDir = EmptyDir
    MaxFaults = 3
    MaxServiceFaults = 1
    Tiles = {t1}
    Geocodes = {g1, g2}
    Pushes = {p1}
    Probes = {h1, h2}
    KeyOf <- MCKeyOf
    MaxActive = 2
    MaxHealth = 1
    MaxEgress = 1
    CacheLimit = 1
    Interval = 1
INVARIANT AdmissionExact
INVARIANT ServesWhole
INVARIANT SavedKept
PROPERTY ProviderSpaced
PROPERTY StartsInTheEnd
PROPERTY EveryoneIsAnswered
PROPERTY SweeperWakes
CHECK_DEADLOCK FALSE
