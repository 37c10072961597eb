CONSTANTS
  HeaderLen = 2
  MaxBody = 1
  Magic = 2
  Streams <- MCStreams
SPECIFICATION Spec
CHECK_DEADLOCK FALSE
INVARIANT SplitInvariant
