SPECIFICATION Spec
CONSTANTS
  Ids <- MCIds
  Works <- MCWorks
  Requests <- CasRequests
  Procs = {p1}
  Policies <- OnePolicy
  FirstPolicy <- Policy1
  Parts = {1}
  NoTail = NoTail
  MaxRecords = 11
  MaxBoots = 1
  MaxTime = 0
  MaxFaults = 2
PROPERTIES TailDurable
CHECK_DEADLOCK FALSE
