SPECIFICATION Spec
CONSTANTS
  w1 = w1
  w2 = w2
  derived = derived
  run = run
  drv = drv
  triples = triples
  ranAt1 = ranAt1
  ranAt2 = ranAt2
  recipe = recipe
  Procs = {w1, w2}
  Readers = {reader}
  Ids = {run, drv}
  Inodes = {n1, n2, n3, n4}
  Contents = {triples, ranAt1, ranAt2, recipe}
  ContentsOf <- MCContentsOf
  Mutable = {run}
  Collectable = {run}
  Job <- ExclusiveJob
  MaxFaults = 1
  NoInode = NoInode
  NoReq = NoReq
  NoFd = NoFd
  NoRead = NoRead
  Empty = Empty
  Torn = Torn
SYMMETRY InodeSymmetry
INVARIANTS TypeOK ReaderNeverSeesPartial RenameNeverLost
PROPERTY ImplementsAtomicStore
