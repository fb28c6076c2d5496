SPECIFICATION Spec
CONSTANTS
  Entries <- TwoEntries
  Shapes <- OneShape
  ShapeOf <- OneShapeEach
  SlotCount <- OneSlot
  Wrappable <- OneShape
  MAX_POOL_SLOTS = 2
  MAX_OUTPUT_BATCH = 2
  Faults = {"wrap"}
  MaxHostId = 6
  MaxGeneration = 1
  MaxOutputs = 1
INVARIANTS ReleasedOnDrop
CHECK_DEADLOCK FALSE
