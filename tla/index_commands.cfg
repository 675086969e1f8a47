SPECIFICATION CommandsSpec
CONSTANTS
  kept = kept
  runKept = runKept
  old = old
  runOld = runOld
  loader = loader
  reasoner = reasoner
  server = server
  NoFrag = NoFrag
  Procs = {loader, reasoner, server}
  Frags = {kept, runKept, old, runOld}
  Derived = {kept, old}
  RunOf <- MCRunOf
  Kept = {kept, runKept}
  Named = {kept}
  Allowed <- LoadAndReason
  MaxRuns = 2
  MaxCrashes = 1
INVARIANTS TypeOK MarkedIsIndexed ReasonLeavesItLoaded
PROPERTY RebuildRestores
