SPECIFICATION FairSpec
CONSTANTS
  Beat = Beat
  MaxRecords = 3
  MaxConns = 2
  MaxWaiting = 2
INVARIANTS SavedOnceInOrder
PROPERTIES SentIsSaved TerminalIsKnown
