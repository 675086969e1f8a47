SPECIFICATION PartsSpec
CONSTANTS
  None = None
  NoPack = None
  BadLine = None
  Dirs <- PackDirs
  Selections <- PackSelections
  Standard <- StandardPrefixes
  Parts = {"extraction"}
  Procs = {p1, p2}
  Runs = {p1, p2}
  ChosenPacks = {"pack"}
  MaxEdits = 1
  MaxUpgrades = 1
  MaxCrashes = 1
  Commands <- ExtractionCommands
  DrvInfo <- DrvInfos
  NarHash <- NarHashes
  References <- PathReferences
  Deriver <- Derivers
  Valid <- ValidPaths
  Shown <- ShownDrvs
  MaxDeaths = 1
  Locks <- FlakeLocks
  Missing = None
  Hashes <- IriHashes
  Names <- IriNames
  Groups <- IriGroups
  Nars <- IriNars
  NoFragment = None
  Absent = None
  Nulls = {n1, n2, n3}
  Iris = {i, j}
  Preds = {"p"}
  Blank = None
  MaxTriples = 4
  Nothing = None
  Clusters <- K8sClusters
  Arrivals <- Arriving
  Manifests <- K8sManifests
  Listed <- K8sKinds
  MayFail = {"ReplicaSet", "CronJob"}
  OwnerKeys <- K8sOwnerKeys
  ZoneKeys <- K8sZoneKeys
  MaxChanges = 2
SYMMETRY Symmetry
INVARIANT IdentityImpliesContent
