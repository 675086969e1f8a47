SPECIFICATION Spec
CONSTANTS
  drv = drv
  old = old
  runOld = runOld
  reasoner = reasoner
  NoFrag = NoFrag
  Procs = {reasoner}
  Frags = {drv}
  Derived = {}
  RunOf <- MCRunOf
  Kept = {}
  Named = {}
  Allowed <- RebuildAndLoad
  MaxRuns = 0
  MaxCrashes = 0
INVARIANT LoadNewLoadsAll
