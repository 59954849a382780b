SPECIFICATION ReaderSpec
CONSTANTS
  Ids <- MCIds
  Works <- MCWorks
  Requests <- MCRequests
  Serials = {1, 2}
  MaxLength = 6
INVARIANTS LastRecordTellsAll BegunOnce
CHECK_DEADLOCK FALSE
