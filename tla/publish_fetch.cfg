SPECIFICATION FairSpec
CONSTANTS
  drv = drv
  run = run
  outside = outside
  bytes = bytes
  otherBytes = otherBytes
  s1 = s1
  s2 = s2
  Absent = Absent
  Torn = Torn
  Sites = {s1, s2}
  Mirrors = {mirror}
  Urls <- TwoUrls
  Paths = {drv, run, outside}
  ContentsOf <- OneOrTwo
  Rejected = {outside}
  Mutable = {run}
  Collectable = {run}
  MaxChanges = 2
  MaxCrashes = 1
INVARIANTS TypeOK OnlyVouchedFor FetchIsComplete SiteIsTrue
PROPERTY MirrorsCatchUp
