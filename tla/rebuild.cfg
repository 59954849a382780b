SPECIFICATION Spec
CONSTANTS
  Chunk = 2
  Runs = {r1, r2}
  Manifests <- MCManifests
  Replicas = 2
  Media <- MCMedia
  Unreadable = Unreadable
  EvidenceLimit = 2
  Torn = Torn
INVARIANTS ReadyMeansRebuilt EvidenceBeforeReady OneWriter
PROPERTIES ReadyIsFinal Rebuilds
CHECK_DEADLOCK FALSE
