CONSTANTS
    APS = 2
    MAX_PANICS = 2
SPECIFICATION Spec
CHECK_DEADLOCK FALSE
INVARIANTS
    BootSound
    StopIsExpected
PROPERTIES
    BootEnds
    StopStopsAll
    LonePanicPrints
