CONSTANTS
    ready = ready
    waiting = waiting
    e1 = e1
    e2 = e2
    e3 = e3
    NULL = NULL
    QueueHead <- MCHeads
    Element <- MCElements
    Data = {d1, d2}
    NULL_DATA = NULL_DATA
    Size = {0, 1, 2, 3, 4}
    INT_MAX = 127
    INT_DIGITS = 3
    MaxChar = 3
    MaxString = 3
    Minus = Minus
    End = End
    Unset = Unset
    urgent = urgent
    even = even
    other = other
    UART_FIFO_SIZE = 2
    Sender = {urgent, even, other}
    Priority <- MCPriority
    MaxLength = 5
    MaxTexts = 2
    PERIOD = 3
    MaxCount = 6
    COLS = 4
    ROWS = 3
    STRIDE = 5
    DEPTH = 5
    Space = Space
    Nul = Nul
    Printable = {Space, a}
    Other = {bell}
    Key = {21, 29, 36, 45, 44, 53, 60, 67, 68, 77, 28, 27, 35, 43,
           52, 51, 59, 66, 75, 76, 26, 34, 33, 42, 50, 49, 90, 18, 131}
    EdgesBefore = 1
    MaxFaults = 2
SPECIFICATION Spec
CHECK_DEADLOCK FALSE
INVARIANTS
    AnswersAreRight
    NothingIsLost
    CountsTurnsOnceOrAgain
    BufferIsPictureMovedUp
    InPhaseFramesDecode
PROPERTIES
    ImplementsLists
    ImplementsBoundedFifo
    ShowsTheLastLines
