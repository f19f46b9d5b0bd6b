SPECIFICATION Spec
CONSTANTS
    Keys = {k1, k2}
    Tiles <- MCTiles
    NoTile = NoTile
    RealRegions = {assets}
    BasemapAssets = assets
    PositionWarm = pw
    RealStaging = {s1}
    PositionStaging = {sPos}
    NoRegion = NoRegion
    Dirty = Dirty
    MaxTileBytes = 2
    Times = {0, 1}
    Batches <- MCBatches
    DeleteChunk = 1
    Cap = 3
    RealBudget = 2
    PositionBudget = 2
    MaxBatch = 2
    Sizes = {1, 2}
SYMMETRY KeySymmetry
INVARIANTS
    JoinedIsPinned
    AccountingExact
PROPERTIES
    SavedTilesSurvive
    CategoryGrowthGated
    PinGrowthGated
    WarmMakesRoom
