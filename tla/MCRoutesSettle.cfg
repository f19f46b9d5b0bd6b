SPECIFICATION RoutesSpec
CONSTANTS
    RegionIds = {r1}
    Handlers = {h1}
    Loop = Loop
    Boot = Boot
    NoRegion = NoRegion
    NoJob = NoJob
    NoRecord = NoRecord
    MaxSavedRegions = 1
    Operations = {"create", "delete", "status"}
    MaxJobs = 1
    MaxFaults = 1
    MaxLate = 1
    MaxStops = 1
    WriteOutcomes = {TRUE}
INVARIANT TrackedIsWatched
PROPERTY NeverStuck
CHECK_DEADLOCK FALSE
