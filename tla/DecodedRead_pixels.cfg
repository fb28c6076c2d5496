SPECIFICATION FairSpec
CONSTANTS
    STRIDE_ALIGNMENT = 4
    PAGE_SIZE = 16
    Streams <- SomeStreams
    MAX_PARAMETER_SETS = 4
    MAX_PARAMETER_SET_BYTES = 6
    RowPaddings <- SomePaddings
    MAX_DECODED_FRAME_BYTES = 17
    WRITE_BUFFER_CHUNK_BYTES = 7
INVARIANTS
    ParameterSetsArrive
    PixelsDelivered
    CopiesInBounds
PROPERTIES
    FrameArrives
CHECK_DEADLOCK FALSE
