SPECIFICATION Spec
CONSTANTS
    LockThreads = {a, b, c}
    ZTL_RWLOCK_WLOCK = 4
    MpThreads = {a, b}
    nInitCount = 1
    MaxBlocks = 2
    MpWord = 8
    Keys = {1, 2, 3}
    Vals = {1}
    Hash <- KeyHash
    InitialSize = 2
    EmptyVisits = 2
    ForceRatio = 1
    Word = 8
    TableVals = {1}
    MaxNodes = 3
    InitSize = 2
    ForceResize = 1
    MapKeys = {1, 2, 3, 4}
    MapVals = {0}
    Copies = 2
    MapReserve = 1
    TimerNodes = {1, 2, 3}
    Delays = {0, 2}
    TimerStart = 62
    MaxTick = 3
    MaxAdd = 3
    TimerWord = 64
    DbSizes = {7, 9}
    EntryLens = {1, 2, 4}
    Payloads = {1, 2}
    DbStarts = {1, 2}
    LinkNodes = {1, 2, 3, 4}
    RingValues = {1, 2}
    DlValues = {1, 2}
    DlReserve = 2
    HeapElems = {1, 2, 3, 4, 5, 6}
    HeapHeight = 1
    PoolSize = 14
    PoolHead = 6
    DataHead = 4
    LargeNode = 2
    PoolAlign = 2
    TiredAt = 0
    LargeScan = 1
    MaxPoolBlocks = 3
    MaxLarge = 1
    ArrayHead = 2
    AllocSizes = {3, 9}
    EltSize = 2
    ArrayNum = 1
    ArrayValues = {1}
    MaxElts = 3
    MaxPieces = 2
    BufBytes = {1, 2}
    MaxBuf = 6
    BufWord = 8
    FixedSize = 3
    SepLens = {0, 1, 2, 3}
    NumWidths = {1, 3}
    NumReserve = 4
    FirstDate = 20190601
    DayCount = 800
    RangeSize = 9
    MaxDs = 5
    DsPerAlloc = 6
    PrintfBuf = 3
    MaxArgs = 2
    TextChars = {" ", "/", "a"}
    MaxText = 6
    MaxDigits = 3
    SizeMax = 5000
    MaxSorted = 5
    ZTL_CONFIG_DEFAULT_ITEMS = 2
    ZTL_BIT_UNIT = 4
    BitNums = {3, 8}
    MaxBit = 8
    FileNames = {"f"}
    PlainNames = {"p"}
    SegNames = {"s", "t"}
    Objects = {1, 2}
    ShmHandles <- TwoProcesses
    Uses <- LockOrMap
    PlainBytes = {0, 77, 131, 255}
    MaxPlain = 4
CONSTRAINT Keep
INVARIANTS
    LockExclusion
    PoolExact
    DictIsMap
    TraversalComplete
    TableIsMapUnspoiled
    MapSound
    TimersExact
    DbRecoversUnharmed
    ShmSound
    ContainersExact
    TextsExact
CHECK_DEADLOCK FALSE
