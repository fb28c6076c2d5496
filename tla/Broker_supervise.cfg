SPECIFICATION FairSpec
CONSTANTS
    Guests = {g1, g2}
    Faults = {"accept", "clone", "poll", "signal"}
INVARIANTS
    NothingLeftRunning
    TornDownInOrder
PROPERTIES
    WorkerDeathEndsBroker
    EndsPropagate
CHECK_DEADLOCK FALSE
