SPECIFICATION RunSpec
CONSTANTS
  Repos <- MCRepos
  Sources <- MCSources
  Tests <- MCTests
  Contents = {c1, c2}
  Absent = Absent
  SourceChecks = 1
  MaxEdits = 2
INVARIANTS PassMeansTheseSources ClaimsAreEarned
CHECK_DEADLOCK FALSE
SYMMETRY Symmetry
