SPECIFICATION FairSpec
CONSTANTS
  k8s = k8s
  gen = gen
  image = image
  drv = drv
  out = out
  src = src
  derived = derived
  derived0 = derived0
  NoFrag = NoFrag
  Frags = {k8s, gen, image, drv, out, src, derived, derived0}
  Entities <- MCEntities
  Objects <- MCObjects
  FragmentFor <- MCFragmentFor
  OutOf <- MCOutOf
  Snapshots = {k8s, gen, image}
  EmptyFrags = {derived0}
  Sorted <- MCSorted
  Selections <- MCSelections
  InitialStores <- MCInitialStores
  Written = {gen, image, out}
  Removable = {derived, derived0}
INVARIANTS TypeOK NothingMissed NothingExtra SelectsTheClosure FailsOnlyForCause
PROPERTIES Terminates WalkGetsCloser
CHECK_DEADLOCK FALSE
