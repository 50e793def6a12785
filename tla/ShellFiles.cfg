CONSTANTS
    Key <- MCKeys
    Ascii <- MCAscii
    Return = "return"
    BUFFER_SIZE = 3
    MaxAhead = 4
    COMMAND_BUFFER_SIZE = 3
    SECTOR = 2
    ENTRIES = 2
    INDEX = 8
    CLUST = 16
    BODY = 2
    NAME = 3
    MaxRead = 4
    Volumes <- MCVolumes
    Paths <- MCPaths
SPECIFICATION MCSpec
INVARIANTS
    RingHoldsUnread
    ExecutesTheLine
    StaysInVolume
    ReadsTheFile
    OpensTheNamedFile
PROPERTIES
    ReturnIsAnswered
    FatCallsReturn
