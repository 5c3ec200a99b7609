SPECIFICATION Spec
CONSTANTS
    MaxMessages = 3
    InstalledLanguages = {"de"}
    FileLanguages = {"", "de", "xx"}
    Supported <- MCSupported
    ByteBits = 2
    NumBytes = 3
    PageSize = 4
    MaxIcons = 4
    Delays = {1, 2}
PROPERTY UnknownLanguageFallsBack
