SPECIFICATION RoutesSpec
CONSTANTS
    RegionIds = {r1}
    Handlers = {h1, h2}
    Loop = Loop
    Boot = Boot
    NoRegion = NoRegion
    NoJob = NoJob
    NoRecord = NoRecord
    MaxSavedRegions = 1
    Operations = {"create", "delete", "redownload"}
    MaxJobs = 2
    MaxFaults = 0
    MaxLate = 0
    MaxStops = 0
    WriteOutcomes = {TRUE, FALSE}
INVARIANT ReadyWasDownloaded
PROPERTY DeletedStaysDeleted
CHECK_DEADLOCK FALSE
SYMMETRY HandlerSymmetry
