CONSTANTS
    N = 3
    Values = {1, 2, 3}
    MAX_ALIGN = 1
    OVERFLOW_PAGE_HEADER_SIZE = 1
    ORIGINAL_SIZE = 4
    STRIDE = 64
    RequestSizes = {0, 1, 4}
    RequestAlignments = {1, 2}
    MAX_PAGES = 1
    MAX_HELD = 2
    MAX_MARKS = 1
    Blocks = {b1, b2, b3, b4, b5}
    BlockSizes = {0, 1, 2}
    RECORD_SIZE = 1
    Keys = {"a", "b", "c"}
    Payloads = {1, 2}
    KeyHash <- Hashes
    MIN_SIZE = 4
    LOAD_FACTOR_PERCENT = 70
    Reservations = {1, 3}
    MAX_ENTRIES = 3
    Elements = {"p", "q"}
    FIRST_CAPACITY = 2
    BOUNDED_SIZE = 2
    MAX_ELEMENTS = 3
    HEADER_SIZE = 4
    BlockAddresses = {4, 8}
    ArrayCounts = {0, 3}
    ArrayAlignments = {2, 8}
    Chars = {"c", "nul"}
    NUL = "nul"
    INITIAL_DATA_SIZE = 2
    BufferSizes = {1, 2}
    MAX_TEXT = 3
    MAX_BUFFERS = 2
    MAX_CHARS = 4
    BYTE_BITS = 3
    WORD_BITS = 5
    LEB_MAX_BYTES = 3
    SourceBytes = {0, 1, 3, 4, 7}
    MAX_SOURCE = 4
    ReadWidths = {1, 2, 4}
    Translations <- Shifts
    Scales <- Factors
    Rotations <- Quaternions
    Points <- SomePoints
    Views <- Volumes
    Looks <- SomeLooks
    MAX_OPERATIONS = 3
    OtherForms = {"EXPRLOC", "STRING", "BLOCK1", "BLOCK4", "INDIRECT", "DATA16", "UDATA", "FLAG_PRESENT", "STRX3", "DATA8", "REF2", "LINE_STRP"}
    MAX_UNITS = 2
    MAX_DIES = 2
    ADDRESS_SIZE = 8
    MAX_ADDRESS = 2
    MAX_LINE = 2
    MAX_ROWS = 3
    MAX_OPCODE = 18
    OPCODE_BASE = 13
    LINE_BASE <- LineBase
    LINE_RANGE = 3
    Tables <- SomeTables
    MAX_FRAMES = 2
    SKIP_FRAME_COUNT = 1
    MAX_DEPTH = 3
    TlsCpus = {0, 1}
    TlsBlocks = {"i", "t", "u"}
    MAX_DESTRUCTORS = 2
    MAX_USES = 4
SPECIFICATION LibrarySpec
CHECK_DEADLOCK FALSE
INVARIANTS
    ArenasSound
    RecordsSound
    TableSound
    ArraysSound
    TextSound
    ReaderSound
    TransformsSound
    DwarfSound
    TlsSound
PROPERTIES
    ImplementsFifo
