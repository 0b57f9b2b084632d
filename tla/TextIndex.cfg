SPECIFICATION TextSpec
CONSTANTS
  Chars <- MCChars
  NL = NL
  Texts <- MCTexts
  Keys <- MCKeys
  PtrSize = 2
  Missing = Missing
INVARIANTS SearchFinds OldLinesAreFound
