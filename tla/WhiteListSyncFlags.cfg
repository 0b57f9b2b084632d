SPECIFICATION SyncSpec
CONSTANTS
  Torn = Torn
  Missing = Missing
  Lists <- MCLists
  Sum <- MCSum
  Cards <- MCCards
  NextList <- MCNext
  First = "a"
  Windows = TRUE
  MaxChanges = 1
  MaxBoots = 0
PROPERTIES SkipMeansFlags
