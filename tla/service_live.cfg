SPECIFICATION ServiceSpec
CONSTANTS
  drv = drv
  pin = pin
  derived = derived
  run = run
  server = server
  timer = timer
  user = user
  NoFrag = NoFrag
  Procs = {server, timer, user}
  Frags = {drv, pin, derived, run}
  Derived = {derived}
  RunOf <- MCRunOf
  Kept = {derived, run}
  Named = {}
  Allowed <- MCAllowed
  MaxRuns = 1
  MaxCrashes = 2
  Snapshots = {pin}
  Settings = {TRUE, FALSE}
INVARIANT RestartServesAll
PROPERTY WrittenIsServed
