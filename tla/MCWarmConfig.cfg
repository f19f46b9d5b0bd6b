SPECIFICATION WarmSpec
CONSTANTS
    World = 4
    EffectiveZoom = 24
    NoBoxes = NoBoxes
    k1 = k1
    k2 = k2
    g1 = g1
    g2 = g2
    r1 = r1
    r2 = r2
    assets = assets
    pw = pw
    light = light
    dark = dark
    Sizes = {1}
    Negatives = {}
    Keys = {k1, k2}
    Tiles <- MCTiles
    NoTile = NoTile
    RealRegions = {r1, assets}
    BasemapAssets = assets
    PositionWarm = pw
    RealStaging <- MCRealStaging
    PositionStaging <- MCPositionStaging
    NoRegion = NoRegion
    Dirty = Dirty
    MaxTileBytes = 2
    Times = {0}
    Batches <- NoBatches
    DeleteChunk = 1
    Cap = 0
    RealBudget = 0
    PositionBudget = 0
    Jobs = {j1, j2}
    NoJob = NoJob
    Targets = {r1}
    Requests <- BothKeys
    Styles = {}
    AssetKeys <- MCAssetKeys
    StyleRequests <- NoStyles
    GoodTiles <- MCGoodTiles
    WarmBatch = 1
    WarmConcurrency = 2
    MaxActiveJobs = 2
    Configs <- ShrinkTo1
    BootConfig <- TwoBytes
    MaxGeneration = 2
    LiveKeys = {}
    DeletedRegions = {r1}
INVARIANTS
    AllOrNothing
    RegionExclusive
    DeleteWaitsForDriver
    DownloadIsExact
PROPERTIES
    NoPromotionAcrossConfig
    SavedRegionKept
    ImplementsDownloads
SYMMETRY JobAndKeySymmetry
