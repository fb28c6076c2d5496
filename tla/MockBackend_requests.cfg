SPECIFICATION Spec
CONSTANTS
  MAX_SESSIONS = 2
  MAX_POOLS = 1
  MAX_BUFFERS = 2
  MAX_OUTPUTS = 2
  DEFAULT_POOL_BUFFERS = 2
  MAX_OUTPUT_BATCH = 2
  SAMPLE_SIZE = 28
  EnvLimits <- Limits
  Pixels = {"image"}
  MaxHostId = 4
  MaxGeneration = 2
  MaxOutputs = 3
INVARIANTS PixelsOfTheLease OutputBudget
PROPERTIES ImplementsEncoder
CHECK_DEADLOCK FALSE
