SPECIFICATION Spec
CONSTANTS
  Ids <- MCIds
  Signers <- MCSigners
  Duty <- MCDuty
  Domain <- MCDomain
  TightenThreshold = 1
  ResumeThreshold = 2
  Procs = {p1, p2}
  Offers <- MCOffers
  Bundles <- MCBundles
  MaxProposals = 3
  MaxBoots = 2
  MaxTime = 1
  MaxFaults = 2
SYMMETRY ProcSymmetry
INVARIANTS ChangesAccountedFor ToldIsKept
PROPERTIES OnlyThisBoot KeepsHistory
CHECK_DEADLOCK FALSE
