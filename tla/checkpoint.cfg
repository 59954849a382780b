SPECIFICATION Spec
CONSTANTS
  p1 = p1
  p2 = p2
  Procs = {p1, p2}
  Content <- MCContent
  Zero = Zero
  MaxCalls = 5
  MaxFaults = 1
  MaxLosses = 1
  MaxRestores = 1
SYMMETRY Symmetry
INVARIANTS AnchoredIsThere NoRollback
PROPERTIES AnchorOnlyForward
