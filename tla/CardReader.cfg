SPECIFICATION ReaderSpec
CONSTANTS
  Hash = 35
  End = 10
  Kind = 7
  IdLen = 2
  Size = 7
  Ids <- MCIds
  Noise <- MCNoise
INVARIANTS ReaderTypeOK OnlyPresented
PROPERTIES FrameIsRead
