SPECIFICATION Spec
CONSTANTS
  Files <- MCFiles
  Starts <- MCStarts
  MaxFdn = 1
  MaxLen = 4
  Pages = 3
  Buffers = 3
  Slots = 2
  DirtyMax = 2
  CloneThreshold = 1
  Blocks = 4
  MinErased = 2
  MaxWrites = 6
  MaxRestarts = 2
  None = None
PROPERTIES MountCounts
CHECK_DEADLOCK FALSE
