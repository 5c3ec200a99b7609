SPECIFICATION Spec
CONSTANTS
    TotalPhysBlocks = 8
    UsedMax = 2
    E = 69
    U = 85
    Regions = {69, 85}
    HitLists <- MCHitLists
    CardMaps <- MCCardMaps
PROPERTIES
    WrappedBlocksUnmarked
