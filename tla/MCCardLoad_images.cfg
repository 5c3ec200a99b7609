SPECIFICATION Spec
CONSTANTS
    Images <- MCImages
    BlockUnits = 2
    GcnMin = 8
    GcnMax = 16
    FatSize = 12
    VmuBlocks = 8
    VmuDirLen = 2
INVARIANTS
    SelectedTablesWereRead
    OfferedCardsAreWhole
    
