SPECIFICATION RoutesSpec
CONSTANTS
    RegionIds = {r1}
    Handlers = {h1}
    Loop = Loop
    Boot = Boot
    NoRegion = NoRegion
    NoJob = NoJob
    NoRecord = NoRecord
    MaxSavedRegions = 1
    Operations = {"create", "redownload"}
    MaxJobs = 2
    MaxFaults = 1
    MaxLate = 0
    MaxStops = 0
    WriteOutcomes = {TRUE}
PROPERTY NeverStuck
