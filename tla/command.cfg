SPECIFICATION Spec
CONSTANTS
  InputLength = 2
  MaxOutput = 3
  PipeRoom = 1
  Deadline = 3
  Grace = 1
  MaxProduced = 4
INVARIANTS OkIsWhole GroupGone NoOrphan
PROPERTIES RunEnds
CHECK_DEADLOCK FALSE
