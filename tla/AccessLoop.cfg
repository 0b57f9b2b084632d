SPECIFICATION FairSpec
CONSTANTS
  Count = 3
  MaxCards = 4
  Verdicts <- MCVerdicts
INVARIANTS TypeOK JudgedInOrder RingIsTail SentFlagHonest TicksWhatItRead
PROPERTIES IsJournal CardIsServed ReconnectIsTried
