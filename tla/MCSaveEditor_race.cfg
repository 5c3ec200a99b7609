SPECIFICATION Spec
CONSTANTS
    f1 = f1
    f2 = f2
    f3 = f3
    e1 = e1
    Files = {f1, f2, f3}
    LostFiles = {f3}
    Image <- MCImage
    Chain <- MCChain
    BlockSize = 5
    Editors = {e1}
    Values = {1, 2}
    NoFile = NoFile
    Patient = FALSE
    MaxSaves = 1
PROPERTIES
    ListedFilesIntact
