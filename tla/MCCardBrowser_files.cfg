SPECIFICATION Spec
CONSTANTS
    Images <- MCImages
    Objects <- MCObjects
    TotalPhys = 9
    FatSize = 10
    MaxCount = 2
    MaxLost = 2
INVARIANTS
    TypeOK
    UsedBlocksCounted
    ListFollowsTables
    OpenedWithBestTables
    RowsInStep
    HelpersMatchFiles
    NoDanglingFile
    AnimationFollowsPause
