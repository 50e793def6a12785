CONSTANTS
    IdleTries = 1
    InitTries = 1
    BlockSizeTries = 1
    TokenTries = 0
    BLOCK_SIZE = 2
    Block = {0, 1, 2}
    Garbage = Garbage
    NoPartition = NoPartition
    Contents <- MCContents
SPECIFICATION MountSpec
INVARIANTS
    ReadsTheBlock
    BusIsTheTerminals
    ErrorCodeIsOfThisCall
    MountAnswersTruly
PROPERTIES
    MountReturns
