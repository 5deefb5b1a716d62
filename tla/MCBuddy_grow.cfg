CONSTANTS
    PAGE = 4
    MAX_ORDER = 3
    INT_LIMIT = 1000
    Regions <- FourPages
    Sizes = {1, 3, 6}
    Alignments = {1, 4}
    Realigns = FALSE
    MAX_LIVE = 3
SPECIFICATION BuddySpec
CHECK_DEADLOCK FALSE
INVARIANTS
    NoFalseDoubleFree
