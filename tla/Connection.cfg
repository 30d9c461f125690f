SPECIFICATION FairSpec
CONSTANTS
  MaxStreams = 3
  MaxUnread = 1
INVARIANT TypeOK
INVARIANT StatusIsTrue
INVARIANT StatusHasReader
INVARIANT DestroyedInUse
PROPERTY NewestIsServed
PROPERTY EndIsNoticed
PROPERTY StopEnds
