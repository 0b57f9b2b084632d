SPECIFICATION Spec
CONSTANTS
  MaxCuts = 1
  Count = 2
  Keys = {"key1", "cs", "file"}
  Vals = {"abcd", "12345"}
  None = None
  TestKey = "key1"
  Extending <- MCExtending
  TestVals <- MCTestVals
INVARIANTS TypeOK OneSlotPerKey NoHoles ReadsBack
PROPERTIES ReplacesInPlace FirstCutSparesSettledKeys
