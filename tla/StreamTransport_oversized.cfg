SPECIFICATION Spec
CONSTANTS
    Threads = {t1}
    Sizes = {3000000}
    VTF_TRANSPORT_STORAGE_CAPACITY = 2097152
    MAX_ENCODED_FRAME_BYTES = 4194304
    TimeoutsEnabled = TRUE
    MaxHandles = 1
    MaxConnections = 2
    IdWindow = 2
PROPERTIES
    InlineFramesAccepted
