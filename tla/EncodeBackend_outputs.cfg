SPECIFICATION Spec
CONSTANTS
  Entries <- OneEntry
  Shapes <- OneShape
  ShapeOf <- OneShapeEach
  SlotCount <- OneSlot
  Wrappable <- OneShape
  MAX_POOL_SLOTS = 2
  MAX_OUTPUT_BATCH = 2
  Faults = {"lock", "wrap", "encode", "drop", "copy"}
  MaxHostId = 4
  MaxGeneration = 3
  MaxOutputs = 3
INVARIANTS OutputReachable DeliveredFreesSource InflightPinned
PROPERTIES FreedByOwner ImplementsEncoder
CHECK_DEADLOCK FALSE
