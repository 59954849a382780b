SPECIFICATION MCSpec
CONSTANTS
  Ids <- MCIds
  Works <- MCWorks
  Requests <- AllRequests
  Procs = {p1, p2}
  Policies <- Rotation
  FirstPolicy <- Policy1
  Parts = {1}
  NoTail = NoTail
  MaxRecords = 9
  MaxBoots = 2
  MaxTime = 1
  MaxFaults = 2
SYMMETRY ProcSymmetry
INVARIANTS IntentBeforeEffect JournalReplays OneWork RoomKept
PROPERTIES AdmittedOnce TailPreserved KeepsPromise EffectsInOrder
CHECK_DEADLOCK FALSE
