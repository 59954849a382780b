SPECIFICATION SourceSpec
CONSTANTS
  Chunk = 1
  Anchored <- MCAnchored
  Trees <- MCTrees
  Contents <- MCContents
  Attributes <- MCAttributes
  Spare <- MCSpare
  MaxChanges = 2
INVARIANTS QuietExact OnceAsRecorded
CHECK_DEADLOCK FALSE
