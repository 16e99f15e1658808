CONSTANTS
  Subjects = {"tree"}
  Bytes = {0, 1}
  Sizes = {2, 3}
  MaxBlock = 3
  ResizeFull = FALSE
  Tables = {"registry"}
  ByEntry = {}
  Collide = TRUE
  HashesOf <- MCHashesOf
  Chunk = 2
  MaxNodes = 4
  Owners = {o1, o2}
  Lengths = {9}
  COUNT_ITEM = 2
  MIN_SIZE_ITEM = 15
  Header = 1
  Word = 4
  BufChunk = 2
  MaxChunks = 2
  MaxItems = 2
  Width = 64
  Samples = 3
  Starts = {53, 62}
  Late = FALSE
  MaxSent = 7
SPECIFICATION Spec
INVARIANT EntriesFound
CHECK_DEADLOCK FALSE
