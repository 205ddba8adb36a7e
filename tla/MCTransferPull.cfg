\* One pull of either kind, with or without overwriting, of a source of two
\* parts; two changes of the source, two setbacks; fair.
SPECIFICATION FairPullSpec
CONSTANTS
  Pull = {p1}
  Parts = 2
  MaxEdits = 2
  MaxSetbacks = 2
INVARIANT SnapshotTaken
INVARIANT DestinationKept
PROPERTY PullsDrain
\* The system rests when every identifier is used.
CHECK_DEADLOCK FALSE
