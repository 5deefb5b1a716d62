CONSTANTS
    Keys = {A}
    Buttons = {}
    UNKNOWN = UNKNOWN
    Axes = {motion}
    Deltas = {1}
    EVENT_QUEUE_CAPACITY = 2
    MAX_TRAVEL = 2
    MAX_DROPPED = 1
    KeyCodes <- TwoKeys
    UnknownCodes = {97}
    Motions <- SomeMotions
    MAX_BYTES = 2
    MAX_PACKETS = 2
    MAX_LOST = 1
    LAST_CPU = 1
    MAX_TICKS = 2
    MAX_AP_TICKS = 1
    CALIBRATION_TICKS = 1
    MAX_IRQS = 2
    PAGE = 4
    MAX_ORDER = 3
    INT_LIMIT = 1000
    Regions <- Ragged
    Sizes = {1, 5}
    Alignments = {1, 4}
    Realigns = FALSE
    MAX_LIVE = 3
    PAGE_SIZE = 2
    LOW_MEMORY = 1
    MAX_MEMORY_REGIONS = 3
    KERNEL <- KernelImage
    MBI = 16
    UsableMaps <- SomeUsableMaps
    TextRanges <- SomeTexts
    ModuleRanges <- SomeModules
    TAG_ALIGN = 2
    TagSizes = {1}
    MAX_TAGS = 3
    ROWS = 2
    COLS = 1
    LAYERS = 5
    available_bodies <- TwoBodies
    OrbitAngles <- TwoAngles
    MAX_KEYS = 1
    WIDTH = 6
    HEIGHT = 4
    GLYPH_WIDTH = 2
    GLYPH_HEIGHT = 1
    AA_RES = 4
    FIXED_POINT_ONE = 256
    NEWLINE = "nl"
    Texts <- Lines2D
    Textures <- TwoTextures
    Splits <- SomeSplits
    Margins = {0, 1}
    Positions = {0, 1, 5, 6}
    Extents = {0, 1, 2, 3, 7}
    Corners <- SomeCorners
    ClipPoints <- SomeClipPoints
    Attributes <- SomeAttributes
    TEXTURE_SIZE = 4
    CHANNEL_BITS = 4
    Channels = {0, 7, 15}
    Formats <- RgbAndBgr
    Pixels = {1}
    FRAME_OVERLAP = 2
    FRAME_NUMBERS = 2
    DEPTH_FAR = 9
    DEPTH_3D_MAX = 4
    Requests <- SomeRequests
    MAX_REQUESTS = 3
    MAX_FRAMES = 3
    MAX_CPUS = 2
    MAX_IOAPICS = 1
    MAX_INTERRUPT_OVERRIDES = 2
    RootPointers <- SomePlaces
    MadtEntries <- SomeEntries
    MAX_MADT_ENTRIES <- EntriesAt
    BSP_APIC_ID = 0
    AP_APIC_ID = 1
    KEYBOARD_IRQ = 1
    MOUSE_IRQ = 2
    MAX_REDIRECTION_ENTRY = 3
SPECIFICATION KernelSpec
CHECK_DEADLOCK FALSE
INVARIANTS
    EdgesExplainHeld
    HeldIsPhysical
    TravelConserved
    QueueTellsHeld
    Ps2Sound
    DispatchSound
    HeapSound
    MapSound
    GameSound
    ShapesSound
    FramesSound
    MachineSound
PROPERTIES
    TowerStands
