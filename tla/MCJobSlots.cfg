CONSTANTS
    Limit = 2
    MaxLeases = 4
SPECIFICATION SlotsSpec
INVARIANTS
    KernelWorkBounded
    LiveRequestKnown
PROPERTIES
    NoOvertaking
    ImplementsSlotService
CHECK_DEADLOCK FALSE
