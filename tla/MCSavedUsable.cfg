SPECIFICATION HistorySpec
CONSTANTS
    Negatives = {404}
    k1 = k1
    g1 = g1
    g2 = g2
    r1 = r1
    r2 = r2
    assets = assets
    pw = pw
    light = light
    dark = dark
    Keys = {k1}
    Tiles <- MCTiles
    NoTile = NoTile
    RealRegions = {r1, assets}
    BasemapAssets = assets
    PositionWarm = pw
    RealStaging <- MCRealStaging
    PositionStaging <- MCPositionStaging
    NoRegion = NoRegion
    Dirty = Dirty
    MaxTileBytes = 2
    Times = {0}
    Batches <- NoBatches
    DeleteChunk = 1
    Cap = 0
    RealBudget = 0
    PositionBudget = 0
    Jobs = {j1}
    NoJob = NoJob
    Targets = {r1}
    Requests <- OneKey
    Styles = {}
    AssetKeys <- MCAssetKeys
    StyleRequests <- NoStyles
    GoodTiles <- MCGoodTiles
    WarmBatch = 1
    WarmConcurrency = 2
    MaxActiveJobs = 2
    Configs <- OnlyRoomy
    BootConfig <- Roomy
    MaxGeneration = 0
    LiveKeys = {}
    DeletedRegions = {}
INVARIANTS
    UsablePinsPreserved
