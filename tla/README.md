# A TLA+ model of nix2rdf

nix2rdf turns Nix artefacts (flakes, derivations, NixOS generations, images,
the nixpkgs index) and Kubernetes clusters into RDF *fragments*, compressed
N-Quads files that are canonical; it keeps an Oxigraph index over them, runs
Datalog *packs* over selections of them with Nemo, and serves the index over
SPARQL.  Every command is a process of its own; systemd timers, a user's shell
and the server share one directory with no lock but the one RocksDB takes on
the index.  That is where the program is hard to test, and what these modules
are about.

## The system

Paths are relative to `src/crates/nix2rdf-core/src/` unless they begin with
`main.rs` (`src/crates/nix2rdf/src/main.rs`) or `nix/` (`src/nix/`).

| Component | State it keeps | Operations | Hard to test | What makes it correct |
|---|---|---|---|---|
| Fragment files (`store.rs`, `fragment.rs`, `publish.rs`) | one file per identity, temporary files beside them | `write` (skips what exists), `overwrite`, `fetch`, `gc_derived`'s unlink, reads | two writers of one identity, crashes and full disks between create, fill and rename, readers at any moment | a reader gets a whole fragment; a published one does not change (but for run, commit and observed kinds); a crash is got over |
| Input selection (`reason.rs`) | a stack, the seen paths, the result | `select_inputs`, `read_input` | the walk is not a snapshot of the store; repeated and circular references; order of the stack | nothing missed, nothing extra, order does not matter, it ends |
| The index (`graph.rs`, `main.rs`, `reason.rs`) | the quads, `oxigraph/.loaded`, RocksDB's lock | `load`, `load --new`, `load --all`, `rebuild`, `serve`, `query`, `check`, `reason`'s `persist`, `gc-derived` | commands that overlap or die; decisions made before the lock is taken; the marker beside the data it speaks of | the marker names nothing the index lacks; what is in the store gets into the index; a rebuild gives the files |
| Rule runs (`reason.rs`, `nemo_engine.rs`) | the derived and the run fragment | `run`, `run_fragment`, `canonicalize_nulls`, `input_hash` | determinism; nulls that look alike | same packs and inputs, same graph; only equal nulls are merged |
| Packs (`packs.rs`) | the packs found, copies under `packs/` | `discover`, `resolve`, `ruleset_hash`, `collect_prefixes`, `copy_to_store` | cycles, diamonds, order of selection, an interrupted copy | dependencies first, each pack once, order independent of how packs are named |
| Publishing (`publish.rs`) | a published directory with a manifest | `publish`, `fetch` | a publish during a fetch; an interrupted fetch | nothing is put in place that no manifest names with that hash; a fetch that ends well is complete; a retry resumes |
| Extraction (`extract/`, `nix/`) | none but the fragments it returns | `extract_flake`, `lock_graph`, `extract_from_drvs`, `extract_nixos`, ..., `write_all` | follows paths, shared derivations, the order of the writes, a crash between them | closures complete, one fragment per identity, snapshots whose members exist |
| Kubernetes (`k8s/`) | none but its fragments | `snapshot`, `manifests` | listing is not atomic, kinds that fail, owner chains, policies | references within a snapshot resolve; equal clusters have equal hashes |
| IRIs (`iri.rs`, `fragment.rs`, `reason.rs`) | none | `relative_path`, `graph`, `fragment_for_iri` | two identities with one path; an IRI mapped to a wrong fragment | injective, and inverse of each other |
| The server (`main.rs`) | the open index | `serve` | request parsing, result formats | one answer per request, of the type it says |
| systemd units (`nix/module.nix`, `nix/node-annotator.nix`) | timers, the server's unit | load then serve; extract, reason, restart | a timer's `reason` against the server's lock | what a timer wrote is served in the end |

The components meet in the store directory.  Extractors, `fetch` and `reason`
put files there by rename; `select_inputs`, `load`, `rebuild` and `publish` list
and read it without a lock; `gc-derived` unlinks under them.  `load`, `rebuild`,
`reason` and `serve` meet in the index, where the lock admits one process that
opened it for writing, and in the marker, which no lock covers once `rebuild`
has deleted the directory under a process that has it open.

## The modules

**AtomicStore** is what the fragment store promises: a fragment is absent or
holds one complete content of its identity, an immutable one does not change
while it is present, a read returns what was published at one instant.

**FragmentStore** is the store at the grain of system calls.  Files are inodes:
`file` and `tmp` map names to inodes, `data` inodes to content, and a process
keeps the inode it opened (`fd`) whoever renames its name.  `Begin`,
`SkipExisting` are the test for the path in `Store::write` and `fetch`
(`overwrite` makes none); `Create`, `Fill`, `Rename` are the calls of
`Fragment::write_to` and of the end of `fetch`; `RenameLost` is the rename that
finds no file; `FillFails` and `Crash` are the faults; `Unlink` is `gc_derived`;
`ReadOpen`, `ReadBytes` are `read_nquads_zst`.  The temporary name is a function
of the path (`Extension`), one for `write_to`, another for `fetch`.  Content is
a model value; what a truncated or overwritten file holds is `Empty` or `Torn`,
either of which fails to decode.

**SelectInputs** is `reason::select_inputs` with each system call a step: the
listing (`List`), the pop and the existence test (`PopSeen`, `PopMissing`,
`PopFound`), the read (`Read`, `ReadFails`), the test and the push of each
reference (`PushRef`), the insertion.  `Publish` and `Unlink` change the store
in between.  What is in a fragment's text and which fragment an IRI maps to are
constant functions; the order in which paths are pushed is a constant too
(`Sorted`), of which nothing is assumed but that it lists the set.  A reference
that would be pushed twice in a row of pushes is pushed once: `seen_paths` makes
the second pop a no-op.  The extractors' own references are acyclic, but a text may
come from elsewhere (`fetch`), so the instance has a circle of references.

**IndexSync** is the index, its marker and the files, with commands as
processes.  Writing and reading one file are atomic here, as AtomicStore
promises.  A process begins a command (`Begin`, `BeginReason`), opens the index
(`Open`, `OpenFails`, `OpenIsOptional`; `WipeSome` and `WipeRest` before that,
for `rebuild`), and goes on in the order of the code: `load` reads the marker,
lists, reads the files, commits, empties and fills the marker; `rebuild` lists a
second time for the marker; `reason` writes the derived fragment, overwrites the
run fragment, decides, and loads both or neither; `gc-derived` lists, drops the
graph if it has the index, unlinks.  A process may die before any step.  An
entry `<<f, v>>` of `index` says that the quads of version `v` of fragment `f`
are there: run fragments have a version per run (`ranAt`), others have one.
`handle` says whether a process has the directory that is there now ("open") or
one that a `rebuild` deleted under it ("detached").

**PublishFetch** is `publish` into a directory and `fetch` out of it.  A publisher
lists its store (`Publish`), reads a fragment (`ReadSource`), writes the copy in
place (`EmptyCopy`, `FillCopy`), and the manifest last (`EmptyManifest`,
`FillManifest`); a fragment that was collected in between (`ReadSourceFails`) or a
crash leaves the directory as it is.  A mirror is the NixOS unit: per url it
reads the manifest, passes over what it has or refuses, gets and verifies the
rest and puts it in place, and the first failure ends the unit until its timer
starts it again at the first url.  A hash is the content it is of; a file that
is being written reads as `Torn`, which has no listed hash.  Entries are gone
through in any order, of which the code's, by path, is one.  `vouched` and
`listed` are history: the entries of every complete manifest, and of the one
the mirror is working from.

**Service** is the NixOS module's units over IndexSync: nix2rdf-serve with its
`ExecStartPre` (`StartPre`: `load --new`), its `ExecStart` (`StartMain`) and
`Restart=on-failure` (`ServerEnds`, `ServerDies`), and the script that the index
and the fetch unit share: `Elapses`, `Writes`, `HasWritten`, with `reason.packs`
set `BeginsReason`, `ReasonRuns`, `ReasonEnds`, and `TryRestart`.  The steps of
load, serve and reason are IndexSync's own (`Continue`).  `Snapshots` are the
fragments `--all-snapshots` selects: without one the timer's `reason` fails.  systemd is external
and stated at the head of the module: a oneshot unit's `ExecStartPost` runs only
if its script succeeded, `try-restart` does nothing to a unit that is still in
`ExecStartPre`.  `reasons` is the machine's setting, `due` history.

**Packs** is `discover`, `resolve` with the call stack of `visit` as a variable
(`VisitDone`, `Cycle`, `Unknown`, `Enter`, `Leave`), `collect_prefixes` line by
line and the prefixes of `build_program`.  The promise it is compared with is
the least set closed under `depends_on`, cycles and unknown names aside.

**RuleRun** is one run from `Pack::load` to `persist`, each file read a step, with
the hashes, the test for the derived fragment, `copy_to_store` file by file, and
`Store::write` dropping what exists; packs are edited, the tool is upgraded and
runs die in between.  A hash is what was hashed, and what Nemo derives is named
by the rules, the vocabulary and the engine it was derived with, which is that of
the process as it was started.  A death may tear the copy it interrupts, also one
that was whole; `copies` are the whole ones.  `mixed`, `cut` and `edited` are
history.

**Extraction** is what `flake`, `nixos`, `image`, `drv`, `attach-outputs`,
`nixpkgs-eval` and `k8s snapshot` write: each command is the sequence of its
`write_all` batches (`FlakeBatches`, `GraphBatches`, ...), a batch a set of
fragments, a fragment an identity with facts.  A command reads before it writes:
`Walk` is a round of `extract_runtime_closure`, `Extracted` the point at which its
fragments are known, and with them what it warns of and goes on without (the
options, the runtime closure).  `Write` is one `Store::write` out of the first
batch that has something left, with the skip (`StoreWith`); processes overlap and
die.

**LockGraph** is `lock_graph` and `resolve_follows`, compared with the search Nix
itself makes for a follows path.  Both are functions of the paths of a lock, defined
by recursion: `Cursor` is the node `resolve_follows` has come to after the names of a
path, `Find` the node Nix comes to.  `LockAssumption` is what Nix's own check of a lock
leaves: inputs lead to nodes, follows paths to a node, and none through itself.
**NullCanon** is `canonicalize_nulls`, over all
small graphs, each under all labellings.  **IriScheme** is every constructor of
`iri.rs`, the graph and the path of every fragment kind, and `fragment_for_iri`;
a text is the sequence of its pieces between slashes.  **K8sSnapshot** is
`list_live`, kind by kind while objects come and go (or the reading of
manifests), and `build_snapshot`: owner chains, placement, selectors, network
policies, roles and bindings, compared with what Kubernetes says they mean.

`MCFragmentStore`, `MCFragmentStoreLive`, `MCSelectInputs`, `MCIndexCommands`,
`MCIndexSync`, `MCService`, `MCPublishFetch` and `MCParts` (with its data in
`MCPartsData`) hold the instances; `FragmentStoreProofs`, `SelectInputsProofs`,
`ServiceProofs` (IndexSync and Service), `PublishFetchProofs`, `RuleRunProofs` (RuleRun,
NullCanon and Packs), `ExtractionProofs` (Extraction and K8sSnapshot),
`LockGraphProofs` and `IriSchemeProofs` the theorems.  `MCIndexCommands` checks two
instances of one module.  `MCParts` checks the seven modules last named beside each
other: it extends them, so that the definition TLC checks is the one that is proved; a
variable that does not change says which of them a behaviour is about.
A definition named as the mutant of another one is the same operation with a
plausible mistake; each property is shown to fail under one of them.

## The runs

| Run | Question | Instance and bounds |
|---|---|---|
| `store_exclusive` | Is the store atomic when no two processes share a temporary name? | an extractor and a fetch over a derivation and a run fragment with two contents, one reader, one fault; four inodes, as many as can be in use with one to spare |
| `store_live` | Do writers get over what crashes leave behind, and over what two of one temporary name do to each other? | one fragment: two extractions that meet in it, one of which fetches it too; two faults (one per temporary name) and collections at any time when the two are not in one temporary file |
| `store_partial_read` | Does `write_to` keep its comment's promise for two extractions that meet in one derivation? | the least instance: it does not|
| `select_concurrent` | Is the selection a closure in spite of concurrent changes? | eight fragments with a circle among their references, every initial store that has the cluster snapshot, four selections (roots with one that maps to nothing, all snapshots with closure, all snapshots alone, everything), three fragments written and two removed meanwhile |
| `index_commands` | Do overlapping commands keep marker, index and rule runs in step, and does a rebuild give the files whatever goes on beside it? | three processes (loads and collections; rule runs and collections; the server), a kept and a collected derived fragment with their run fragments; or a rebuilder, a loader and the server over collected and overwritten fragments; two rule runs, one crash |
| `service_live` | Does a restart serve all that was there, and is what is written served again and again? | the server's unit, a timer's, a user who reasons, with `reason.packs` and without; a pin and a drv fragment, of which `--all-snapshots` selects the first, and a derived fragment with its run fragment; two deaths or failures |
| `service_reason` | Is it served with `reason.packs` set? | no user and no crash: it is not |
| `parts` | Do the components whose processes do not meet keep what they promise? | packs: every dependency relation of at most four pairs over three packs and an unknown name, with a directory that shadows one, every selection; rule runs: two, with one edit, one upgrade and one death; extraction: two processes with any two of nine commands over four derivations, one death; locks: every lock of a root and two nodes with two inputs each and paths of up to two names that Nix accepts, the empty path (the root itself) included; nulls: every graph of up to four triples over three nulls and two IRIs; IRIs: every constructor over names and API groups with slashes and words of the scheme; clusters: a rollout and a Job with two changes during the listing, two namespaces of one content, a policy of one peer of every form (`ipBlock` included); roles and bindings without `resourceNames`, groups that stand for accounts and aggregation |
| `extraction_identity` | Does identity imply content, as `Store::write` assumes? | the extraction part of `parts`: it does not |
| `index_gc_marker` | Does `load --new` load what is not in the index? | one process, commands in sequence: it does not after `gc-derived` |
| `publish_fetch` | Does a mirror get what was published, and nothing else? | two sites, a mirror that fetches both in turn; a derivation, a run fragment with two contents that is collected too, and a path outside the store; two changes, one crash of either side |
| `index_rebuild_race` | The same after a `rebuild` | one process beside an extractor: it does not |

The bounds let the interesting cases happen: two writers suffice to share a
name, two contents to tell an old run fragment from a new one, two rule runs to
skip the second, to overwrite and to derive again, a crash at each place in
turn to leave each kind of remnant.  A second crash matters for the store, where
each of two writers can leave a temporary file, and for the units, where the
timer's and the server's failures can meet.  Three packs make a diamond and a
cycle beside a pack that is neither, three nulls a chain and a loop that look
alike at each end, two nodes below the root a follows path through an input that
follows.

*Fairness.*  `store_live` assumes that a process that can take a step of its
own takes one, and starts its job again: the commands are run by timers and by
users who see the error.  A crash is never obliged.  It also assumes that nobody
dies, and nothing is collected, while two writers are in one temporary file: the
first leaves a torn file for good (the finding of `store_partial_read`), and a
collection at every such moment undoes every rename.  `select_concurrent` assumes
only that the process runs on.  `service_live` assumes that what runs runs on, that
systemd starts the unit it is to start, and that the timer elapses again; that
the timers' period, an hour or a day, is long beside the five seconds of
`RestartSec`, so that the one does not meet every start of the other, is strong
fairness of a start while the timer rests and of the opening of the index.
Nothing stops the server but the timer's `try-restart` and a crash.
`publish_fetch` assumes that what runs runs on, that
the fetch timer starts the unit again, and that a publisher publishes what
changed and repeats a publish that failed: `publish` has no timer, so this is an
assumption on whoever runs it; without it a half-written set stays, and every
fetch of it fails.  Deadlock is checked in every run but
`select_concurrent`, where the process returns; in `parts` a component that has
finished steps to itself, so that one that stops before is a deadlock.

## What the runs found

Five statements of the repository do not hold of the code and have a run whose
counterexample TLC prints.

* *A reader never sees a partial file* (`fragment.rs:263`).  The temporary
  name is the target's with another extension, so two processes writing one
  identity (two flakes that share a derivation) use one temporary file.  The
  second truncates what the first is about to rename.  A crash of the second at
  that moment leaves a published file that never decodes, which `write` and
  `fetch` skip because it exists and at which every `load --all` and `rebuild`
  fails.
* *Any fragment not yet in the index is loaded* (`nix/module.nix:136`).
  `gc-derived` does not take the paths it removes out of `.loaded`; after a
  `reason --no-load` that derives the graph again, `load --new` passes over it.
* *Only fragments not loaded before are passed over* (`main.rs:188`).
  `rebuild` writes the marker from a second listing.
* *Timers write fragments and restart the server, which bulk-loads new fragments
  on start* (`nix/module.nix:11-12`).  With `reason.packs` set the script runs
  `reason` without `--no-load`: while the server is up the index is locked,
  `Graph::open` fails before anything is persisted, the script ends, and the
  `ExecStartPost` that would restart the server does not run.  Nothing changes at
  the next time.  Without `reason.packs`, the default, `WrittenIsServed` holds.
* *Identity implies content for every kind but run, commit and observed ones*
  (`store.rs:59`).  A pin that is an input of another flake has no roots and no
  closure, an outputs fragment holds the outputs one closure happened to reach, an
  observed cluster may change within the second that names it; the fragment that
  is there first stays.

Three more statements do not hold, and have no run of their own:

* *Same packs -> same hash* (`packs.rs:217`).  The ruleset hash depends on the order
  packs are loaded in, which depends on what was selected: `{owl-rl-subset, prov}`
  and `{core, owl-rl-subset, prov}` load the same packs in another order.
  `LoadOrder` asks only that dependencies come first.
* *Two nulls with identical neighbourhoods [...] are indistinguishable anyway*
  (`reason.rs:305-306`).  The neighbourhood is read with every null blotted out, so
  nulls that differ only in what the nulls beside them say are merged.
  `MergesOnlyTheSame` says how much two merged nulls can differ: in which null is at
  the other end of a triple, and in nothing else.
* *Policy allows ingress to the workloads it selects from this workload or namespace*
  (`ontology/k8s.ttl:111`).  A peer that is an `ipBlock` has no selectors, and
  `snapshot.rs:712-750` takes it for the policy's own namespace: the fact says that
  this namespace is let in, which the policy does not say.
  `PolicyFactsMeanTheRules` lets the facts say too much in this case alone.

Seen while modelling and stated by no document:
`resolve_follows` gives up on an intermediate
input that follows a path through an input that follows (the second half of
`LeadsToItsPin` leaves such locks out); `reason --force` with a new engine describes,
in the run fragment, a result that `Store::write` dropped (`ToldAsDerived` speaks of
the engine only while there is no upgrade); a vocabulary that is edited between the two
reads of `Pack::load` is not the one the identity hashes (`DerivedOfItsId` speaks of
the rules in any case, of the vocabulary where this did not happen); a copy of a pack
that a death cut short is taken for whole ever after (`PacksAreKept` has nothing
missing only where nobody died); lock
nodes without a `narHash` are passed over; pods of a ReplicaSet created between
the listing of ReplicaSets and that of Pods are placed nowhere, and the snapshot
is not marked partial; a policy in a manifest without `policyTypes` is read as
one for ingress alone even with egress rules; an empty selector of a
PodDisruptionBudget selects nothing.

Known and not checked, since the properties of a way out are: `gc-derived`
beside a running server removes the files and leaves the graphs in the index
(`main.rs:827`); every rule run overwrites its run fragment while the index keeps
each `ranAt` it has loaded, or, for a skipped run, does not get the new one
(`reason.rs:526-529`).  A `rebuild` mends both, which `RebuildRestores` states.
A mirror never replaces a
fragment it has, run fragments included (`publish.rs:96`), so `MirrorsCatchUp`
asks for the presence of what a manifest lists and not for its newest content;
two sites that publish one run fragment leave the mirror with the first one's.

## What is proved

For every value of the constants that satisfies the modules' assumptions:

* **FragmentStoreProofs.**  `TypeCorrect`.  `NoPartialReads`, `RenamesSucceed` and
  `Refinement` under `ExclusiveJobs`: no two processes have jobs with one
  temporary name.  The inductive invariant says that a process in `fill` or
  `rename` is the only one that has the inode under its temporary name open,
  that such an inode is no published file's and in no reader's hands, and that
  every inode that is published or being read is complete; without the first
  part the rename could publish another process's half.  `Refinement` also
  assumes `IdentityImpliesContent`, which `store.rs:59` claims: a `write` that
  tested the path before another one's rename replaces the file, which is a
  stutter of AtomicStore only if the contents are equal.
* **SelectInputsProofs.**  `SelectTypeCorrect`, `SelectMissesNothing`,
  `SelectTakesNothingExtra`, `SelectFailsForCause`, `SelectionIsTheClosure`,
  `SelectGetsCloser`.  The
  invariant has a lower half (a fragment that was there all along and was asked
  for, or is referred to by an expanded one, is selected, current, on the stack
  or among the references still to look up) and an upper half (stack, references
  and result lie in every closed set that holds what was asked for).  At the
  end the stack is empty and the halves meet when the store did not change.
  `SelectGetsCloser` is the argument for `Terminates`, whatever the references: a step
  of the walk has one more path in `seen_paths`, or is at a later stage of the fragment
  in hand, or has less of it or of the stack left, and nobody else's step changes any of
  that.  Paths are finitely many, so there is no infinite walk; that the walk does go on
  is fairness, and TLC's.
* **ServiceProofs, IndexSync.**  `IndexTypeCorrect`; `ReasonLoads` from mutual exclusion and
  "a reason that reads has its graph still to read or in its batch", with
  rebuilds that detach the holder included; `MarkerIsSound` where no rebuild runs,
  from "what a load means to write into the marker is in the index or on the way
  there" and "only garbage is dropped".  With a rebuild the last is false
  (`index_rebuild_race`).  `RebuildGivesTheFiles` states `RebuildRestores` under the
  two hypotheses without which it is false: one process rebuilds at a time
  (`OneRebuild`), and the files stay as they are from when it has deleted the
  directory until it ends (`FilesUnchanged`).  Loads, servers and crashes beside it
  are allowed: the rebuild holds the lock on the directory it made, and a process
  that had the old one open writes into what is gone.
* **ServiceProofs, Service.**  `RestartIsServed` states `RestartServesAll`: once a server that
  was restarted is up, what was in the store at the restart and is there still is
  in the index.  The steps of load, serve and reason are IndexSync's, and so is the
  lower half of the invariant, with no rebuild and no garbage collection among the
  commands of the machine: what is in the marker is in the index, and the index and
  the store only grow.  The rest says where the unit is (`UnitInv`, `DueInv`): what
  was `due` is in the list of the load of `ExecStartPre` once that has read the
  directory, and in the index when the server has started.
* **PublishFetchProofs.**  `PublishTypeCorrect`;
  `MirrorsHoldWhatWasVouchedFor`, from "what a mirror has still to look at and
  what it has read are entries of complete manifests"; `SitesAreTrue`, from "what
  the next manifest lists is written and will not be written again in this
  run"; `FetchesAreComplete`, from "what is listed is in the store, to be looked
  at, or in hand".  None needs an assumption on how publishers and mirrors
  overlap.
* **RuleRunProofs, Packs.**  `PacksTypeCorrect`, `DependenciesFirst` and `TheClosureIsLoaded`,
  for every set of packs, dependency relation and selection.  The invariant says
  that what the frames of `visit` hold open is `visiting`, each frame having been
  entered for the next name of the one below it; that `order` holds the packs of
  `done`, once each; and that a pack in `done` has its dependencies before it.
  That `done` lies in the closure, and is closed when the stack is empty, gives
  the closure.  For the failures: a stack on which a name comes back is a cycle
  that the selection reaches.
* **RuleRunProofs, RuleRun and NullCanon.**  `RulesAreOfTheId`, `PacksStay` and
  `RunFragmentIsTrue`, for any
  packs, edits, upgrades, overlapping runs and deaths.  The invariant follows one
  run through its steps: what is in the store under a derived identity was made of
  the rules that identity names (`StoreInv`), the result a run has in hand is of its
  own identity (`HandInv`), it has made a directory for every pack it has gone past
  (`CopyInv`), and in a directory that met no edit each whole file is the one the name
  hashes, and one that is missing is a run's still to copy, or a run died there
  (`DirsInv`).  What holds without exception: the rules of a derived fragment and of the
  run fragment beside it are the identity's, the directories of its packs exist, and
  whole copies are the hashed files, unless a file was edited between its hash and its
  copy.  What has one: the vocabulary is the identity's unless it was edited between the
  two reads of a load, the engines of the two fragments agree unless there was an
  upgrade, and a directory is complete unless a run died copying into it.
  `TheSameAreMerged` and `NamesAreDeterministic` are about `canonicalize_nulls`, over
  every graph, nulls linked to nulls included, and every renaming: a line holds all of a
  triple but which nulls are in it, and what a null is named by is invariant under the
  renaming, step by step.
* **ExtractionProofs, Extraction.**  `NamedIsThere` and `ClosuresAreLeft`, for every
  derivation graph, set of commands and number of processes, each of which may
  die between any two writes.  For each command a lemma says that its batches are
  a plan: a fragment names only what an earlier batch has, and together they hold
  the whole build closure.  `WriterInv` keeps what is left of a plan one over the
  store: what a fragment names is on disk or in an earlier batch that is not
  written yet.  `Store::write` may drop the fragment for one of the same identity
  with other facts (the finding of `extraction_identity`); the invariant holds all
  the same because it speaks of identities, and `StoreIsWhole` of every fragment on
  disk whoever wrote it.  `WalkInv` says that the runtime walk has seen only
  members of the least closed set and that what its members refer to is seen or in
  the frontier.
* **ExtractionProofs, K8sSnapshot.**  `NothingIsMissed`: what was there during the
  whole listing is in the snapshot or its kind is reported as failed, from "it has
  been read, or is there and its kind is still to list, or its kind failed".
  `OneStateOneSnapshot`: a cluster nothing happened to has one snapshot whatever
  order the server lists in.  It goes from the facts up: the index is a function of
  the set of what was read when no two objects share a key, and a count over
  positions of the pods is one over the set of pods.

  `PoliciesMeanTheirRules` and `PermissionsAreTrue` say what the facts mean: a
  workload that the rules of a policy let in is let in by the facts about it, and one
  that the facts let in is let in by the rules or is of the policy's own namespace,
  where a peer is an `ipBlock` (`LetInByBlock`); and an account is permitted by the facts just what the roles bound to it
  permit, as Kubernetes reads both.  The list of what every kind of fact can say
  (`ObjectsSay`, `SnapshotSays`) reduces a statement about the snapshot to one about
  the object at its key.  They ask what the API server guarantees and a directory of
  manifests need not: that of each object there is one manifest (`KeysOnce`), since
  of two only the last is filed; and for the permissions that bindings and rules are
  admissible (`AllAdmitted`), since a cluster-wide binding to an account without a
  namespace, or a rule of resources without groups, is read otherwise.
  `PlacementIsTrue` states `PlacementIsOfPods` for any changes and failures during the
  listing.  `PlacedInv` says that what there has been is what the listing began with
  and what arrived since; two lemmas follow `pod_owner` up and down the chain of
  owners, and a third reduces what a snapshot says to a count over the set of pods.
  It asks that chains are those of Kubernetes' own controllers (`ControllersOwn`):
  no pod owned by a pod, ReplicaSets owned by neither ReplicaSets nor Jobs, Jobs by
  no other workload than a CronJob, and that the CronJob of a Job is there when the
  listing begins.  `pod_owner` looks no further: while the garbage collector still
  removes the Jobs of a CronJob that is gone, their pods are placed nowhere.  TLC
  evaluates all three hypotheses for the objects of `parts` (`PartsAssumption`).
* **LockGraphProofs.**  `LocksLeadToTheirPins` states `LeadsToItsPin` for every lock
  that satisfies `LockAssumption`.  The paths that `resolve_follows` goes along are a
  least fixed point (`Reached`).  The function that agrees with `Find` on them and gives
  up on the others does the steps of `Cursor`; by `LockAssumption`'s order of the paths
  no other function does, so this is what `resolve_follows` computes (`CursorIs`): it
  comes to Nix's node or gives up, and never to another node.  When every hop of a
  follows path is `Shallow` it does not give up.  `LockInv` says that each edge of the
  graph is one the lock says, and that a node that has been described has all of its own.
  Both halves of the property go along the edges: the inputs that mean the same node
  are closed under follows, and an input that led to no pin would begin a chain of
  follows that does not end.
* **IriSchemeProofs.**  `NamesAreUnambiguous` and `LookUpIsSound`, for any names, hashes,
  NAR hashes and API groups.  `SchemeAssumption` asks that hashes have no slash, that a
  NAR hash is base64 or one word that is not `url`'s form, and that no API group is named
  `core`, which is the segment of the group without a name.  Three functions read back
  what an IRI, a path or a graph was made from (`EntityOf`, `KindOfPath`, `KindOfGraph`),
  and a lemma for each, by cases on the constructor, that they do; so two things with one
  name are the same.  `fragment_for_iri` is compared with the graphs in the same way
  (`GraphLeadsBack`), and with the IRIs of entities that are no graphs (`EntityLeads`):
  a cluster or a node named by a word of the scheme leads nowhere.

Two conventions of the proofs.  The library's induction theorems take an operator
as a parameter, which no installed prover can instantiate; where a proof goes by
induction it takes the least counterexample of a set of naturals instead
(`WFMin` with `NatLessThanWellFounded`).  A UNION of a set filter is parenthesised,
because the proof system's parser and TLC's read it differently otherwise.

Only model-checked: the liveness properties (`JobsGetDone`, `Terminates`, `WrittenIsServed`,
`MirrorsCatchUp`), which the proof system cannot reach.
Every other property of a passing run is stated by a theorem.

## Not modelled

* The text of what the extractors produce (names, environments, licences, option
  values, resource amounts, probes): copied from Nix's or the API's answer into
  one triple each, with no state and no order.
* `nixpkgs_index.rs`: one fragment of one file, named by the file's hash.
* The calls of the `nix` command and their decoding, the recorded answers: input
  and output; the walk over derivations that uses them is in Extraction.
* SPARQL requests: `serve` takes one after the other and changes nothing; query
  evaluation is Oxigraph's.  `query` and `check` only read.
* Ontology and vocabulary tables, rule packs' Datalog, Nemo and the other
  vendored code: data and third-party code.  What a rule derives is tested by the
  packs' own cases.
* Loss of the page cache at a power failure (there is no fsync before the
  rename): the models let processes die, not the machine.
* The node annotator: a script that repeats one call.

What would say more is a model of a power failure for FragmentStore, and of the index
beside `gc-derived`: the code promises nothing about either yet.
