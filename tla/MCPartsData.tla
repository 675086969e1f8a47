----------------------------- MODULE MCPartsData -----------------------------
(* What MCParts gives the components to work on.                           *)
EXTENDS Naturals, Sequences, FiniteSetsExt, TLC

CONSTANTS None

-----------------------------------------------------------------------------
\* Packs: three names and an unknown one, every dependency relation between
\* them of at most four pairs, a directory that shadows pack 2, and prefix
\* lines that agree, clash and do not parse.
PackNames == 1 .. 3
Dependencies ==
  {r \in SUBSET (PackNames \X (1 .. 4)) : Cardinality(r) <= 4}
Pack(n, deps, lines) == [name |-> n, deps |-> deps, prefixes |-> lines]
Shadow == Pack(2, {}, <<None>>)
Base(r) ==
  [n \in PackNames |->
     Pack(n, {d \in 1 .. 4 : <<n, d>> \in r},
          CASE n = 1 -> <<<<"ex", "a">>, <<"nix", "mine">>>>
            [] n = 2 -> <<<<"ex", "a">>, <<"p", "a">>>>
            [] n = 3 -> <<<<"p", "b">>>>)]
PackDirs ==
  {<<[self |-> s, subs |-> <<>>], [self |-> None, subs |-> Base(r)]>>
     : s \in {None, Shadow}, r \in Dependencies}

-----------------------------------------------------------------------------
\* Extraction: a toplevel that needs two derivations, one of them content-
\* addressed and one with two outputs of which an image holds one; three source
\* paths, two of one content; a derivation whose source is gone; and a cluster
\* whose nodes change within the second of an observation.
DrvInfos ==
  "top" :> [drvs |-> {"lib"}, srcs |-> {"s1"}, outs |-> {"top-out"}]
    @@ "lib" :> [drvs |-> {"tool"}, srcs |-> {"s2"}, outs |-> {"lib-out", "lib-dev"}]
    @@ "tool" :> [drvs |-> {}, srcs |-> {"s3"}, outs |-> {}]
    @@ "broken" :> [drvs |-> {}, srcs |-> {"lost"}, outs |-> {}]
NarHashes == "s1" :> "h1" @@ "s2" :> "h2" @@ "s3" :> "h1" @@ "lost" :> None
ShownDrvs == {"top", "lib", "tool"}
ValidPaths == {"top-out", "lib-out", "lib-dev", "tool-out"}
PathReferences ==
  "top-out" :> {"lib-out", "top-out"} @@ "lib-out" :> {"tool-out"}
    @@ "lib-dev" :> {"lib-out"} @@ "tool-out" :> {}
Derivers ==
  "top-out" :> "top" @@ "lib-out" :> "lib" @@ "lib-dev" :> "lib" @@ "tool-out" :> "tool"

Flake == [name |-> "flake", roots |-> {"top"}, env |-> FALSE, commit |-> None,
          pin |-> "p1", inputs |-> {"p2"}]
FlakeOfInput == [name |-> "flake", roots |-> {"lib", "tool"}, env |-> TRUE, commit |-> "c",
                 pin |-> "p2", inputs |-> {}]
Nixos == [name |-> "nixos", roots |-> {"top"}, env |-> FALSE, commit |-> "c",
          values |-> {"v"}, closure |-> TRUE]
Image == [name |-> "image", roots |-> {"lib"}, env |-> FALSE, commit |-> None,
          digest |-> "i", layers |-> {"lib-dev"}]
Broken == [name |-> "drv", roots |-> {"broken"}, env |-> FALSE]
Attach == [name |-> "attach-outputs", roots |-> {"lib", "tool"}]
Nixpkgs == [name |-> "nixpkgs-eval", roots |-> {"lib"}, env |-> FALSE, rev |-> "r"]
Cluster(nodes) == [name |-> "k8s", roots |-> {}, state |-> "st", nodes |-> nodes, at |-> "t",
                   commit |-> IF nodes = "n1" THEN None ELSE "c"]
ExtractionCommands ==
  {Flake, FlakeOfInput, Nixos, Image, Broken, Attach, Nixpkgs, Cluster("n1"), Cluster("n2")}

-----------------------------------------------------------------------------
\* LockGraph: a root and two nodes with inputs x and y that lead anywhere or
\* follow paths of up to two names, among them the locks Nix accepts: those in
\* which every path leads to a node.
Targets ==
  {[node |-> "a"], [node |-> "b"]}
    \cup {[path |-> p] : p \in {<<"x">>, <<"y">>, <<"x", "y">>, <<"y", "x">>}}
InputSets == UNION {[d -> Targets] : d \in SUBSET {"x", "y"}}
RootInputs ==
  {[x |-> [node |-> "a"]]}
    \cup {[x |-> [node |-> "a"], y |-> t] :
            t \in {[node |-> "b"], [path |-> <<"x", "y">>], [path |-> <<>>]}}
LockOf(r, i, j, h) ==
  [root |-> "root",
   nodes |-> [root |-> [nar |-> None, inputs |-> r],
              a |-> [nar |-> "h1", inputs |-> i],
              b |-> [nar |-> h, inputs |-> j]]]
RECURSIVE FindIn(_, _, _)
FindIn(l, path, fuel) ==
  LET RECURSIVE Go(_, _)
      Go(cur, names) ==
        IF names = <<>> \/ cur = None THEN cur
        ELSE IF Head(names) \notin DOMAIN l.nodes[cur].inputs THEN None
        ELSE LET target == l.nodes[cur].inputs[Head(names)]
             IN Go(IF "path" \notin DOMAIN target THEN target.node
                   ELSE IF fuel = 0 THEN None ELSE FindIn(l, target.path, fuel - 1),
                   Tail(names))
  IN Go(l.root, path)
Accepted(l) ==
  \A id \in DOMAIN l.nodes : \A n \in DOMAIN l.nodes[id].inputs :
    LET t == l.nodes[id].inputs[n] IN "path" \in DOMAIN t => FindIn(l, t.path, 4) # None
FlakeLocks ==
  {l \in {LockOf(r, i, j, h) : r \in RootInputs, i \in InputSets, j \in InputSets,
                               h \in {None, "h1", "h2"}} : Accepted(l)}

-----------------------------------------------------------------------------
\* IriScheme: names with a slash, and names that are words of the scheme.
IriHashes == {<<"h">>, <<"snapshot">>}
IriNames == {<<"a">>, <<"a", "b">>, <<"b">>, <<"snapshot">>}
IriGroups == {<<>>, <<"a">>, <<"a", "b">>, <<"snapshot">>}
IriNars == {<<"sri", "a">>, <<"sri", "b">>, <<"a">>}

-----------------------------------------------------------------------------
\* K8sSnapshot: a Deployment that is rolled out and a Job of a CronJob, with
\* pods on two nodes; two namespaces with workloads of one name; a policy of
\* one peer, of every form Kubernetes has, an IP block included; roles and
\* bindings without resourceNames, groups that stand for accounts and aggregation.
Meta(kind, ns, name) ==
  [kind |-> kind, ns |-> ns, name |-> name, labels |-> {}, annotations |-> {}, owner |-> None]
Namespace(name, labels_) == [Meta("Namespace", None, name) EXCEPT !.labels = labels_]
Workload(kind, ns, name, podLabels) ==
  Meta(kind, ns, name) @@
    [podLabels |-> podLabels, account |-> "sa", mounts |-> {<<"Secret", "s">>},
     classes |-> {}, containers |-> {[name |-> "c", digest |-> None]}]
OwnedBy(o, kind, name) == [o EXCEPT !.owner = <<kind, name>>]
Pod(name, node, kind, owner) ==
  OwnedBy(Meta("Pod", "a", name), kind, owner)
    @@ [node |-> node, pulled |-> {<<"c", "digest">>}]
Node(name) == Meta("Node", None, name) @@ [generation |-> {"g"}]
Rollout ==
  {Namespace("a", {<<"team", "t">>}), Node("n1"), Node("n2"),
   Workload("Deployment", "a", "d", {<<"app", "d">>}),
   OwnedBy(Meta("ReplicaSet", "a", "r1"), "Deployment", "d"),
   Workload("CronJob", "a", "cron", {}),
   OwnedBy(Workload("Job", "a", "j", {}), "CronJob", "cron"),
   Pod("p1", "n1", "ReplicaSet", "r1"), Pod("p2", "n1", "ReplicaSet", "r1"),
   Pod("p3", "n2", "Job", "j")}
Arriving ==
  {OwnedBy(Meta("ReplicaSet", "a", "r2"), "Deployment", "d"),
   Pod("p4", "n2", "ReplicaSet", "r2"), Node("n3")}
Namespaces == {"a", "b"}
Twins == {Node("n1")} \cup {Namespace(n, {<<"team", n>>}) : n \in Namespaces}
           \cup {[Workload("Deployment", n, "d", {<<"app", n>>})
                    EXCEPT !.annotations = {<<"owner", n>>}] : n \in Namespaces}
Selector(labels_, expressions) == [labels |-> labels_, expressions |-> expressions]
Expression(key, operator, values) == [key |-> key, operator |-> operator, values |-> values]
Selectors(key) ==
  {None, Selector({}, {}), Selector({<<key, "a">>}, {}),
   Selector({}, {Expression(key, "NotIn", {"a"})})}
\* The one without selectors is an ipBlock.
Peers == [namespaces : Selectors("team"), pods : Selectors("app")]
Policy(types, rules) ==
  Meta("NetworkPolicy", "a", "np") @@
    [pods |-> Selector({}, {}), types |-> types, ingress |-> rules, egress |-> {{}}]
Policies ==
  {Policy({"Ingress", "Egress"}, {peers}) : peers \in {{}} \cup {{p, q} : p, q \in Peers}}
  \cup {Policy({"Ingress"}, {}), Policy({}, {{}})}
Role(kind, ns, group) ==
  Meta(kind, ns, "r") @@
    [aggregates |-> {Selector({<<"team", "a">>}, {})},
     rules |-> {[groups |-> {group}, resources |-> {"pods"}, verbs |-> {"get"}]}]
Binding(kind, ns, role, sub) ==
  Meta(kind, ns, "b") @@ [role |-> <<role, "r">>, subjects |-> {sub}]
Subject(kind, ns) == [kind |-> kind, ns |-> ns, name |-> "sa"]
Accounts ==
  {Meta("ServiceAccount", n, "sa") : n \in Namespaces}
    \cup {Role("Role", "a", "apps"), Role("Role", "b", ""), Role("ClusterRole", None, "apps")}
Bindings ==
  {Binding("RoleBinding", n, role, Subject(k, m)) :
      n \in Namespaces, role \in {"Role", "ClusterRole"}, k \in {"ServiceAccount", "User"},
      m \in Namespaces \cup {None}}
  \cup {Binding("ClusterRoleBinding", None, "ClusterRole", Subject("ServiceAccount", n)) :
      n \in Namespaces}
Others ==
  {Meta("Service", "a", "svc") @@ [selector |-> {<<"app", "a">>}],
   Meta("Ingress", "a", "in") @@ [services |-> {"svc"}],
   Meta("PodDisruptionBudget", "a", "pdb") @@ [selector |-> Selector({<<"app", "a">>}, {})],
   Meta("PersistentVolumeClaim", "a", "pvc") @@
     [classes |-> {"sc"}, volumes |-> {"pv"}, nodes |-> {}]}
InSeq(S) == FoldSet(LAMBDA x, seq : Append(seq, x), <<>>, S)
K8sManifests ==
  {InSeq(Twins \cup Others \cup {p}) : p \in Policies}
    \cup {InSeq(Accounts \cup {b}) : b \in Bindings}
K8sClusters == {Rollout, Twins}
K8sKinds == <<"Namespace", "Node", "Deployment", "ReplicaSet", "Job", "CronJob", "Pod">>
K8sOwnerKeys == <<"owner", "team">>
K8sZoneKeys == <<"zone">>
=============================================================================
