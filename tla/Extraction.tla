----------------------------- MODULE Extraction -----------------------------
(* The extraction commands flake, nixos, image, drv, attach-outputs,       *)
(* nixpkgs-eval and k8s snapshot (main.rs, extract/*.rs): what fragments   *)
(* each makes of a derivation graph or a cluster, in which order write_all *)
(* publishes them, and what Store::write leaves out because a fragment of  *)
(* that identity is there.  Commands run at once over one store and may    *)
(* die between two writes.  A fragment is its identity and the set of its  *)
(* facts; a fact is a predicate and an object, and the text facts that     *)
(* depend on nothing but the derivation are left out.                      *)
EXTENDS Naturals, Sequences, FiniteSets

CONSTANTS
  Procs,      \* the processes
  Commands,   \* the commands one may be given, as records
  DrvInfo,    \* derivation -> [drvs, srcs, outs]: its inputs and output paths
  NarHash,    \* source path -> its NAR hash, or Absent
  References, \* output path -> the output paths it refers to
  Deriver,    \* output path -> the derivation Nix has for it, or Absent
  Valid,      \* output paths of the local store
  Shown,      \* derivations `nix derivation show` has
  MaxDeaths,  \* bound: deaths of a process
  Absent

\* What a command extracts is what Nix has the derivations of; a cluster has none.
ASSUME ExtractionAssumption ==
  \A c \in Commands :
    /\ c.name \in {"flake", "nixos", "image", "drv", "attach-outputs", "nixpkgs-eval", "k8s"}
    /\ c.roots \subseteq DOMAIN DrvInfo
    /\ c.name = "k8s" => c.roots = {}

VARIABLES
  store,   \* the fragments on disk: identity -> facts
  cmd,     \* the command of each process, Absent before it has one
  frontier, walked, \* of each process: extract_runtime_closure's frontier and seen
  batches, \* fragments still to write: a sequence of sets
  wrote,   \* of each process: the fragments it has gone through
  pc,      \* "idle", "extract", "write", "done" or "failed"
  deaths

extractVars == <<store, cmd, frontier, walked, batches, wrote, pc, deaths>>

-----------------------------------------------------------------------------
Drvs == DOMAIN DrvInfo
Fragment(kind, key, facts) == [id |-> <<kind, key>>, facts |-> facts]

\* derivation_show --recursive: the derivations reached through input_drvs.
Graph(roots) ==
  LET Closed(S) == roots \subseteq S /\ \A d \in S : DrvInfo[d].drvs \subseteq S
  IN {d \in Drvs : \A S \in SUBSET Drvs : Closed(S) => d \in S}

Sources(ds) == UNION {DrvInfo[d].srcs : d \in ds}
HashesKnown(ds) == \A s \in Sources(ds) : NarHash[s] # Absent

SourceFragment(s) == Fragment("src", NarHash[s], {<<"storePath", s>>})

\* Every output that is known before the build, every input; each source by
\* its hash.
DerivationFragment(d) ==
  Fragment("drv", d,
    {<<"inputDrv", i>> : i \in DrvInfo[d].drvs}
      \cup {<<"inputSrc", NarHash[s]>> : s \in DrvInfo[d].srcs})

EnvFragment(d) == Fragment("env", d, {<<"envVar", d>>})

\* Mutant of GraphBatches: only the sources of the roots are looked up.
GraphOfRootSources(c) ==
  LET ds == Graph(c.roots)
  IN <<{SourceFragment(s) : s \in Sources(c.roots)},
       {DerivationFragment(d) : d \in ds}
         \cup {EnvFragment(d) : d \in IF c.env THEN ds ELSE {}}>>

\* extract_from_drvs: the sources, then the derivations by path.
GraphBatches(c) ==
  LET ds == Graph(c.roots)
  IN <<{SourceFragment(s) : s \in Sources(ds)},
       {DerivationFragment(d) : d \in ds}
         \cup {EnvFragment(d) : d \in IF c.env THEN ds ELSE {}}>>

-----------------------------------------------------------------------------
\* Outputs are named after the derivation when it can be shown and knows
\* their paths, and after the store path otherwise.
OutputsFragment(d, named, outs) ==
  Fragment("out", d,
    {<<"hasOutput", o, IF named THEN "attribute" ELSE "path">> : o \in outs}
      \cup UNION {{<<"references", o, r>> : r \in References[o] \ {o}}
                    : o \in outs \cap Valid})

\* The paths of a runtime closure, by their derivers.
RuntimeFragments(paths) ==
  LET Of(d) == {o \in paths : Deriver[o] = d}
      Known(d) == IF d \in Shown THEN DrvInfo[d].outs \cap Of(d) ELSE {}
  IN {OutputsFragment(d, Known(d) # {}, IF Known(d) # {} THEN Known(d) ELSE Of(d))
        : d \in {Deriver[o] : o \in paths} \ {Absent}}

-----------------------------------------------------------------------------
ClosureOf(c) == {<<"closureContains", d>> : d \in Graph(c.roots)}
RootsOf(ds) == {<<"hasRoot", d>> : d \in ds}

\* commit_fragment, when the command is told of a commit.
CommitBatch(c, snapshot) ==
  IF c.commit = Absent THEN <<>>
  ELSE <<{Fragment("commit", c.commit, {<<"snapshot", snapshot>>})}>>

\* Mutant of FlakeBatches: the pin of the flake is written with the pins of
\* its lock.
FlakeRootFirst(c) ==
  {LET root == Fragment("pin", c.pin, RootsOf(c.roots) \cup ClosureOf(c))
   IN <<{Fragment("pin", i, {}) : i \in c.inputs} \cup {root}>>
        \o GraphBatches(c) \o CommitBatch(c, root.id)}

\* extract_flake: the pins of the lock, the graph, the pin of the flake.  An
\* attribute whose derivation cannot be shown alone has no root, unless none has.
FlakeBatches(c) ==
  {LET root == Fragment("pin", c.pin, RootsOf(shown) \cup ClosureOf(c))
   IN <<{Fragment("pin", i, {}) : i \in c.inputs}>>
        \o GraphBatches(c) \o <<{root}>> \o CommitBatch(c, root.id)
     : shown \in IF Cardinality(c.roots) = 1 THEN {c.roots}
                 ELSE (SUBSET c.roots) \ {{}}}

\* The generation is named after the output of the toplevel, or after its
\* derivation when the output is not known before the build.
Toplevel(c) == CHOOSE d \in c.roots : TRUE
Generation(c) ==
  LET outs == DrvInfo[Toplevel(c)].outs
  IN IF outs = {} THEN Toplevel(c) ELSE CHOOSE o \in outs : TRUE

\* extract_nixos: values beside the graph when the options evaluate, outputs
\* when the runtime closure is asked for and known, the generation last.
NixosBatches(c, paths) ==
  {LET gen == Fragment("gen", Generation(c),
                RootsOf(c.roots) \cup ClosureOf(c)
                  \cup {<<"valueHash", v>> : v \in known.values})
       outs == IF known.closure THEN RuntimeFragments(paths) ELSE {}
   IN GraphBatches(c) \o <<{Fragment("value", v, {}) : v \in known.values}, outs, {gen}>>
        \o CommitBatch(c, gen.id)
     : known \in [values : {{}, c.values}, closure : {FALSE, c.closure}]}

\* extract_image: the image before the outputs of its layers.
ImageBatches(c, paths) ==
  {LET image == Fragment("image", c.digest,
                  RootsOf(c.roots) \cup ClosureOf(c)
                    \cup {<<"layerContains", o>> : o \in c.layers})
       outs == IF known THEN RuntimeFragments(paths) ELSE {}
   IN GraphBatches(c) \o <<{image}, outs>> \o CommitBatch(c, image.id)
     : known \in BOOLEAN}

AttachBatches(c) ==
  <<{OutputsFragment(d, TRUE, {o \in Valid : Deriver[o] = d}) : d \in c.roots}>>

\* extract_nixpkgs: the tree evaluates to every derivation of the graph of the
\* attributes that do not fail.
NixpkgsBatches(c) ==
  GraphBatches(c)
    \o <<{Fragment("nixpkgs", c.rev, {<<"evaluatesTo", d>> : d \in Graph(c.roots)})}>>

\* k8s snapshot: what K8sSnapshot builds, named by its hash; nodes apart, and
\* when which snapshot was observed beside which nodes.
K8sBatches(c) ==
  LET snapshot == Fragment("k8s snapshot", c.state, {})
      nodes == Fragment("k8s nodes", c.nodes, {})
      observed == Fragment("k8s observed", <<c.state, c.at>>,
                    {<<"observedAt", snapshot.id>>, <<"hasFragment", nodes.id>>})
  IN <<{snapshot}, {nodes}, {observed}>> \o CommitBatch(c, snapshot.id)

Batches(c, paths) ==
  CASE c.name = "flake"          -> FlakeBatches(c)
    [] c.name = "nixos"          -> NixosBatches(c, paths)
    [] c.name = "image"          -> ImageBatches(c, paths)
    [] c.name = "drv"            -> {GraphBatches(c)}
    [] c.name = "attach-outputs" -> {AttachBatches(c)}
    [] c.name = "nixpkgs-eval"   -> {NixpkgsBatches(c)}
    [] c.name = "k8s"            -> {K8sBatches(c)}

-----------------------------------------------------------------------------
ExtractInit ==
  /\ store = <<>>
  /\ cmd = [p \in Procs |-> Absent]
  /\ frontier = [p \in Procs |-> {}] /\ walked = [p \in Procs |-> {}]
  /\ batches = [p \in Procs |-> <<>>]
  /\ wrote = [p \in Procs |-> {}]
  /\ pc = [p \in Procs |-> "idle"]
  /\ deaths = 0

\* What the runtime closure sets out from: the layers of an image, the
\* toplevel of a generation when its closure is asked for.
SetsOutFrom(c) ==
  CASE c.name = "image" -> c.layers
    [] c.name = "nixos" -> IF c.closure THEN DrvInfo[Toplevel(c)].outs ELSE {}
    [] OTHER            -> {}

\* Everything is extracted before anything is written.
Extract(p, c) ==
  /\ pc[p] = "idle"
  /\ c.name = "attach-outputs" \/ HashesKnown(Graph(c.roots))
  /\ cmd' = [cmd EXCEPT ![p] = c]
  /\ frontier' = [frontier EXCEPT ![p] = SetsOutFrom(c)]
  /\ pc' = [pc EXCEPT ![p] = "extract"]
  /\ UNCHANGED <<store, walked, batches, wrote, deaths>>

\* A source without a NAR hash: the command fails before it writes.
ExtractFails(p, c) ==
  /\ pc[p] = "idle"
  /\ c.name # "attach-outputs" /\ ~ HashesKnown(Graph(c.roots))
  /\ cmd' = [cmd EXCEPT ![p] = c]
  /\ pc' = [pc EXCEPT ![p] = "failed"]
  /\ UNCHANGED <<store, frontier, walked, batches, wrote, deaths>>

\* A round of extract_runtime_closure: the paths found, then what they refer to.
Walk(p) ==
  /\ pc[p] = "extract" /\ frontier[p] # {}
  /\ LET paths == frontier[p] \cap Valid
         next == UNION {References[o] : o \in paths}
     IN /\ walked' = [walked EXCEPT ![p] = @ \cup paths]
        /\ frontier' = [frontier EXCEPT ![p] = next \ (walked[p] \cup paths)]
  /\ UNCHANGED <<store, cmd, batches, wrote, pc, deaths>>

Extracted(p) ==
  /\ pc[p] = "extract" /\ frontier[p] = {}
  /\ \E b \in Batches(cmd[p], walked[p]) : batches' = [batches EXCEPT ![p] = b]
  /\ pc' = [pc EXCEPT ![p] = "write"]
  /\ UNCHANGED <<store, cmd, frontier, walked, wrote, deaths>>

\* Store::write: a fragment is left out when one of its identity is there.
StoreWith(f) ==
  [id \in DOMAIN store \cup {f.id} |-> IF id \in DOMAIN store THEN store[id] ELSE f.facts]

\* write_all of the next fragment.  A batch is in the order of its identities:
\* some order, the same for every command.
Write(p) ==
  /\ pc[p] = "write"
  /\ \E i \in DOMAIN batches[p] :
       /\ batches[p][i] # {} /\ \A j \in 1 .. (i - 1) : batches[p][j] = {}
       /\ LET f == CHOOSE f \in batches[p][i] : TRUE
          IN /\ store' = StoreWith(f)
             /\ batches' = [batches EXCEPT ![p][i] = @ \ {f}]
             /\ wrote' = [wrote EXCEPT ![p] = @ \cup {f}]
  /\ UNCHANGED <<cmd, frontier, walked, pc, deaths>>

Done(p) ==
  /\ pc[p] = "write" /\ \A i \in DOMAIN batches[p] : batches[p][i] = {}
  /\ pc' = [pc EXCEPT ![p] = "done"]
  /\ UNCHANGED <<store, cmd, frontier, walked, batches, wrote, deaths>>

\* The process dies, or a write fails; the command may be given again.
Dies(p) ==
  /\ pc[p] \in {"extract", "write"} /\ deaths < MaxDeaths
  /\ deaths' = deaths + 1
  /\ cmd' = [cmd EXCEPT ![p] = Absent]
  /\ frontier' = [frontier EXCEPT ![p] = {}]
  /\ walked' = [walked EXCEPT ![p] = {}]
  /\ batches' = [batches EXCEPT ![p] = <<>>]
  /\ wrote' = [wrote EXCEPT ![p] = {}]
  /\ pc' = [pc EXCEPT ![p] = "idle"]
  /\ UNCHANGED store

ExtractNext ==
  \E p \in Procs :
    \/ \E c \in Commands : Extract(p, c) \/ ExtractFails(p, c)
    \/ Walk(p) \/ Extracted(p) \/ Write(p) \/ Done(p) \/ Dies(p)

ExtractSpec == ExtractInit /\ [][ExtractNext]_extractVars

ExtractionsFinished == \A p \in Procs : pc[p] \in {"done", "failed"}

-----------------------------------------------------------------------------
\* The derivations, sources and values a fragment names, the snapshot of a
\* commit and the nodes beside an observed snapshot are on disk before the
\* fragment that names them, wherever the extractions are interrupted and
\* however they overlap.  Outputs fragments are no part of this: select_inputs
\* asks for that of every derivation, and those of an image come after it.
KindNamed(fact) ==
  CASE fact[1] \in {"closureContains", "hasRoot", "evaluatesTo"} -> "drv"
    [] fact[1] = "inputSrc" -> "src"
    [] fact[1] = "valueHash" -> "value"
    [] OTHER -> Absent
NamedIsWritten ==
  \A id \in DOMAIN store : \A fact \in store[id] :
    /\ KindNamed(fact) # Absent => <<KindNamed(fact), fact[2]>> \in DOMAIN store
    /\ fact[1] \in {"snapshot", "observedAt", "hasFragment"} => fact[2] \in DOMAIN store

\* A command that ended well leaves a fragment on disk for every identity its
\* closure has, whatever another command did meanwhile and whatever an
\* earlier one that died had left; and the runtime closure it recorded is the
\* least set of valid paths that holds what it set out from and what its
\* members refer to.
BuildClosure(ds) ==
  {<<"drv", d>> : d \in ds} \cup {<<"src", NarHash[x]>> : x \in Sources(ds)}
RuntimeClosure(roots) ==
  LET Closed(S) == roots \cap Valid \subseteq S
                     /\ \A o \in S : References[o] \cap Valid \subseteq S
  IN {o \in Valid : \A S \in SUBSET Valid : Closed(S) => o \in S}
LeavesTheClosure ==
  \A p \in Procs : pc[p] = "done" =>
    LET outs == {f \in wrote[p] : f.id[1] = "out"}
    IN /\ cmd[p].name # "attach-outputs" =>
            BuildClosure(Graph(cmd[p].roots)) \subseteq DOMAIN store
       /\ cmd[p].name \in {"nixos", "image"} /\ outs # {} =>
            {f.id[2] : f \in outs}
              = {Deriver[o] : o \in RuntimeClosure(SetsOutFrom(cmd[p]))} \ {Absent}

\* What a command extracted is what the store has under its identity (write:
\* "Identity implies content for every kind except `Commit`/`Run`/
\* `K8sObserved`").
IdentityImpliesContent ==
  \A p \in Procs : \A f \in wrote[p] :
    f.id[1] \notin {"commit", "k8s observed"} => store[f.id] = f.facts
=============================================================================
