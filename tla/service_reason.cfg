SPECIFICATION ServiceSpec
CONSTANTS
  drv = drv
  pin = pin
  derived = derived
  run = run
  server = server
  timer = timer
  user = user
  NoFrag = NoFrag
  Procs = {server, timer, user}
  Frags = {pin, derived, run}
  Derived = {derived}
  RunOf <- MCRunOf
  Kept = {derived, run}
  Named = {}
  Allowed <- MCAllowed
  MaxRuns = 0
  MaxCrashes = 0
  Snapshots = {pin}
  Settings = {TRUE}
PROPERTY TimersGetItServed
