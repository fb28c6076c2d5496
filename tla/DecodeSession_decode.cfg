SPECIFICATION FairSpec
CONSTANTS
  MAX_ENCODED_FRAME_BYTES = 1
  MAX_CHUNKED_ENCODED_FRAME_BYTES = 3
  Faults = {"create", "decode", "callback", "wait", "read", "connection"}
  Modes <- MCModes
INVARIANTS  ReadableUntilReleased CalledInOrder WaitMeansAll OutputsReturned
PROPERTIES  FramesAnswered DecodeReturns
CHECK_DEADLOCK FALSE
