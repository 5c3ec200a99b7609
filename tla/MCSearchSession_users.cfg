SPECIFICATION FairSpec
CONSTANTS
    Cards = {c1, c2, c3}
    NoCard = NoCard
    MaxBlocks = 1
    MaxFiles = 2
INVARIANTS
    QuietBetweenSearches
    UiBusyMatchesSearch
    JobCardAlive
    BarFollowsScan
    NothingDangles
    LostFilesAreOwn
    NoSharedReads
PROPERTIES
    SearchEnds
    UiComesBack
    BarGoesAway
