SPECIFICATION Spec
CONSTANTS
  Chunk = 2
  Manifests <- MCManifests
  Requests <- MCRequests
  Unreadable = Unreadable
INVARIANTS AcceptedByQuorum GoodIsAccepted
CHECK_DEADLOCK FALSE
