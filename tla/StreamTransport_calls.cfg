SPECIFICATION FairSpec
CONSTANTS
    Threads = {t1, t2}
    Sizes = {1, 3}
    VTF_TRANSPORT_STORAGE_CAPACITY = 2
    MAX_ENCODED_FRAME_BYTES = 2
    TimeoutsEnabled = TRUE
    MaxHandles = 2
    MaxConnections = 2
    IdWindow = 3
INVARIANTS
    RepliesMatch
    HandlesOfThisBackend
PROPERTIES
    CallsReturn
    DeadWorkerNoticed
