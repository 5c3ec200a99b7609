SPECIFICATION FairSpec
CONSTANTS
    TotalPhysBlocks = 9
    UsedMax = 2
    E = 69
    U = 85
    Regions = {69, 85}
    HitLists <- MCHitLists
    CardMaps <- MCCardMaps
INVARIANTS
    TypeOK
    ChainComplete
    FreeBlocksTakenOnce
    ClaimsDisjoint
    NaiveOnlyWhenFull
    StartsAscending
    RegionHonoured
PROPERTIES
    ImplementsSearch
    SearchTerminates
