SPECIFICATION MirrorSpec
CONSTANTS
  Keys = {"YCbCrMatrix", "DataRateLimits", "PixelAspectRatio", "Unknown"}
  Objects <- ValueObjects
  Content <- Values
  SLOTS = 2
  MaxOwned = 1
INVARIANTS  ReferencesBalanced
CHECK_DEADLOCK FALSE
