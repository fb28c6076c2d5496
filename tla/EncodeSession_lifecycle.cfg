CONSTANTS
    s1 = s1
    s2 = s2
    Sessions = {s1, s2}
    SlotCount <- MCSlotCount
    MaxFrames = 2
    MaxLeases = 2
    OutputBatch = 2
    ReleaseBatch = 2
    Faults = {"encode", "drop", "reorder", "read", "drain"}
SPECIFICATION FairSpec
INVARIANTS
    RefsBalanced
    InFlightSlotsKept
    OutputsPaired
    CompleteMeansDelivered
    NothingLeftBehind
PROPERTIES
    CompleteReturns
CHECK_DEADLOCK FALSE
