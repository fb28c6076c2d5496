SPECIFICATION SurfaceSpec
CONSTANTS
    STRIDE_ALIGNMENT = 64
    PAGE_SIZE = 16384
    PoolShapes <- SomeShapes
    SlotCounts <- FewSlots
INVARIANTS
    SlotsFit
CHECK_DEADLOCK FALSE
