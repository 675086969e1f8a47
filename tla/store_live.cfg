SPECIFICATION LiveSpec
CONSTANTS
  w1 = w1
  w2 = w2
  frag = frag
  triples = triples
  Procs = {w1, w2}
  Readers = {}
  Ids = {frag}
  Inodes = {n1, n2, n3, n4}
  Contents = {triples}
  ContentsOf <- OneContent
  Mutable = {}
  Collectable = {frag}
  Job <- MeetingJob
  MaxFaults = 2
  NoInode = NoInode
  NoReq = NoReq
  NoFd = NoFd
  NoRead = NoRead
  Empty = Empty
  Torn = Torn
PROPERTIES JobsGetDone
