SPECIFICATION FairSyncSpec
CONSTANTS
  Torn = Torn
  Missing = Missing
  Lists <- MCLists
  Sum <- MCSum
  Cards <- MCCards
  NextList <- MCNext
  First = "a"
  Windows = TRUE
  MaxChanges = 2
  MaxBoots = 1
PROPERTIES SkipMeansCards Settles
