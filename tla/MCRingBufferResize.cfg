CONSTANTS
  Bytes = {0, 1}
  Sizes = {2, 3}
  MaxBlock = 4
  ResizeFull = TRUE
SPECIFICATION RingSpec
PROPERTY ImplementsQueue
CHECK_DEADLOCK FALSE
