------------------------------- MODULE MCParts -------------------------------
(* One specification of the components whose processes do not meet: part   *)
(* says which of them a behaviour is about, and the variables of the       *)
(* others hold None or nothing.  The properties of the components that are *)
(* extended are asked by their own names, which are true where nothing has *)
(* happened; a property of another component is asked of its part.         *)
EXTENDS Packs, RuleRun, NullCanon, Extraction, K8sSnapshot, IriScheme, LockGraph,
        MCPartsData

CONSTANTS
  Parts   \* the parts to check

\* What K8sSnapshot's theorems ask of the objects holds of those given here.
ASSUME PartsAssumption == KeysOnce /\ AllAdmitted /\ ControllersOwn

VARIABLE part

PackSelections == (SUBSET PackNames) \ {{}}
StandardPrefixes == {<<"nix", "core">>, <<"rdf", "rdf">>}


PacksVars == vars
RuleRunVars == <<source, engine, dirs, copies, derived, told, run, mixed, cut, edited, edits,
                 upgrades, crashes>>

-----------------------------------------------------------------------------
\* The variables of a part the behaviour is not about.
PacksRest ==
  /\ selected = {} /\ all = <<>> /\ stack = <<>> /\ done = {} /\ visiting = {}
  /\ order = <<>> /\ lines = <<>> /\ prefixes = {} /\ outcome = "resolve"
RuleRunRest ==
  /\ source = None /\ engine = None /\ run = None /\ edits = None /\ upgrades = None
  /\ crashes = None
  /\ dirs = {} /\ copies = {} /\ mixed = {} /\ cut = {} /\ edited = {}
  /\ derived = <<>> /\ told = <<>>
LockGraphRest ==
  /\ lock = None /\ left = None
  /\ extra = {} /\ locks = {} /\ pinned = {} /\ follows = {}
NullCanonRest ==
  /\ triples = {} /\ canon = {}
K8sSnapshotRest ==
  /\ cluster = Nothing /\ changes = Nothing /\ ever = Nothing /\ lasting = Nothing
  /\ todo = Nothing /\ objects = Nothing /\ pods = Nothing /\ failed = Nothing /\ snap = Nothing

PartsInit ==
  /\ part \in Parts
  /\ IF part = "packs" THEN Init ELSE PacksRest
  /\ IF part = "rule run" THEN RunInit ELSE RuleRunRest
  /\ ExtractInit
  /\ IF part = "lock" THEN LockInit ELSE LockGraphRest
  /\ IF part = "nulls" THEN NullInit ELSE NullCanonRest
  /\ IriInit
  /\ IF part = "kubernetes" THEN K8sInit ELSE K8sSnapshotRest

\* A component that has finished stays as it is.
PartFinished ==
  \/ part = "packs" /\ Finished
  \/ part = "rule run" /\ RunsFinished
  \/ part = "extraction" /\ ExtractionsFinished
  \/ part = "lock" /\ LockDescribed
  \/ part = "nulls" /\ NullsNamed
  \/ part = "iri" /\ LookedUp
  \/ part = "kubernetes" /\ SnapshotBuilt

partsVars ==
  <<part, PacksVars, RuleRunVars, extractVars, lockVars,
    nullVars, iriVars, k8sVars>>

PartsNext ==
  \/ /\ UNCHANGED part
     /\ IF part = "packs" THEN Next ELSE UNCHANGED PacksVars
     /\ IF part = "rule run" THEN RunNext ELSE UNCHANGED RuleRunVars
     /\ IF part = "extraction" THEN ExtractNext ELSE UNCHANGED extractVars
     /\ IF part = "lock" THEN LockNext ELSE UNCHANGED lockVars
     /\ IF part = "nulls" THEN NullNext ELSE UNCHANGED nullVars
     /\ IF part = "iri" THEN IriNext ELSE UNCHANGED iriVars
     /\ IF part = "kubernetes" THEN K8sNext ELSE UNCHANGED k8sVars
  \/ PartFinished /\ UNCHANGED partsVars

PartsSpec == PartsInit /\ [][PartsNext]_partsVars

Symmetry == Permutations(Procs)
=============================================================================
