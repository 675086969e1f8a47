SPECIFICATION Spec
CONSTANTS
  drv = drv
  old = old
  runOld = runOld
  reasoner = reasoner
  NoFrag = NoFrag
  Procs = {reasoner}
  Frags = {old, runOld}
  Derived = {old}
  RunOf <- MCRunOf
  Kept = {}
  Named = {}
  Allowed <- ReasonAndCollect
  MaxRuns = 2
  MaxCrashes = 0
INVARIANT LoadNewLoadsAll
