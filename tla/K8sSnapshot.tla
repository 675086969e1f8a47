----------------------------- MODULE K8sSnapshot -----------------------------
(* Snapshots of a Kubernetes cluster (k8s/): the listing of a live cluster *)
(* kind by kind while the cluster changes, or the reading of manifests,    *)
(* and the fragments build_snapshot makes of what was read.  An object is  *)
(* a record with its kind, namespace (Nothing when it has none), name and  *)
(* the part of its contents that the facts below come from.  A fact is     *)
(* <<subject, predicate, object>>.  A hash is what it hashes.              *)
EXTENDS Naturals, Sequences, FiniteSetsExt, SequencesExt

CONSTANTS
  Clusters,   \* the sets of objects a cluster may begin with
  Arrivals,   \* objects that may be created meanwhile
  Manifests,  \* the sequences of objects a directory may hold
  Listed,     \* the kinds of resources(), then Secret, then Pod
  MayFail,    \* kinds whose list call may fail
  OwnerKeys,  \* label keys that name an owner, in order
  ZoneKeys,   \* label keys that name a zone, in order
  MaxChanges, \* bound: objects created or deleted during a listing
  Nothing

WorkloadKinds == {"Deployment", "StatefulSet", "DaemonSet", "Job", "CronJob"}
ClusterKinds ==
  {"Node", "Namespace", "PersistentVolume", "StorageClass", "ClusterRole",
   "ClusterRoleBinding"}

\* A cluster is what of it the tool asks for (resources), kind by kind, each
\* once.  The API server has one object of a kind, namespace and name, and knows
\* which kinds have a namespace.  An object without a kind is not read from a
\* manifest (push_object).
ASSUME K8sAssumption ==
  /\ Listed \in Seq(Range(Listed)) /\ "" \notin Range(Listed)
  /\ \A i, j \in DOMAIN Listed : Listed[i] = Listed[j] => i = j
  /\ \A o \in Arrivals \cup UNION Clusters : o.kind \in ClusterKinds <=> o.ns = Nothing
  /\ \A objs \in Clusters :
       /\ IsFiniteSet(objs)
       /\ \A o \in objs : o.kind \in Range(Listed)
       /\ \A a, b \in objs :
            <<a.kind, a.ns, a.name>> = <<b.kind, b.ns, b.name>> => a = b
  /\ \A seq \in Manifests : seq \in Seq(Range(seq)) /\ \A o \in Range(seq) : o.kind # ""

VARIABLES
  cluster, \* the objects of the API server
  changes,
  ever,    \* every object there has been since the listing began
  lasting, \* those that have been there all the time
  todo,    \* kinds still to list
  objects, \* objects read, in order
  pods,    \* pods read
  failed,  \* failed_kinds
  snap     \* the fragments, Nothing before they are built

k8sVars == <<cluster, changes, ever, lasting, todo, objects, pods, failed, snap>>

-----------------------------------------------------------------------------
\* Mutant of Key: the namespace is no part of the key.
KeyWithoutNamespace(o) == <<o.kind, Nothing, o.name>>

\* What the index files an object under.
Key(o) ==
  <<o.kind,
    IF o.kind \in ClusterKinds THEN Nothing ELSE IF o.ns = Nothing THEN "default" ELSE o.ns,
    o.name>>

\* The last object of a key; pods and objects without a kind are not filed.
Index(seq) ==
  LET At(key) == {i \in DOMAIN seq : seq[i].kind \notin {"", "Pod"} /\ Key(seq[i]) = key}
      keys == {Key(seq[i]) : i \in {j \in DOMAIN seq : seq[j].kind \notin {"", "Pod"}}}
  IN [key \in keys |-> seq[Max(At(key))]]

OfKind(index, kind) == {key \in DOMAIN index : key[1] = kind}
WorkloadsIn(index, ns) == {key \in DOMAIN index : key[1] \in WorkloadKinds /\ key[2] = ns}

\* selector_matches.  A label is <<key, value>>; a selector is the labels it
\* asks for and its expressions.
ExpressionHolds(e, labels) ==
  LET have == {l[2] : l \in {x \in labels : x[1] = e.key}}
  IN CASE e.operator = "In"           -> have \cap e.values # {}
       [] e.operator = "NotIn"        -> have \cap e.values = {}
       [] e.operator = "Exists"       -> have # {}
       [] e.operator = "DoesNotExist" -> have = {}
SelectorMatches(sel, labels, emptyMatchesAll) ==
  IF sel = Nothing THEN emptyMatchesAll
  ELSE IF sel.labels = {} /\ sel.expressions = {} THEN emptyMatchesAll
  ELSE /\ sel.labels \subseteq labels
       /\ \A e \in sel.expressions : ExpressionHolds(e, labels)

\* first_key: the first of the keys among the labels.
FirstKey(keys, labels) ==
  LET at == {i \in DOMAIN keys : \E l \in labels : l[1] = keys[i]}
  IN IF at = {} THEN {} ELSE {l[2] : l \in {x \in labels : x[1] = keys[Min(at)]}}

\* owner: labels, then annotations, then those of the namespace.
OwnerOf(index, o, ns) ==
  LET own == FirstKey(OwnerKeys, o.labels)
      note == FirstKey(OwnerKeys, o.annotations)
      space == <<"Namespace", Nothing, ns>>
      spaceOwn == FirstKey(OwnerKeys, index[space].labels)
      spaceNote == FirstKey(OwnerKeys, index[space].annotations)
  IN CASE own # {} -> own
       [] own = {} /\ note # {} -> note
       [] OTHER -> IF space \notin DOMAIN index THEN {}
                   ELSE IF spaceOwn # {} THEN spaceOwn ELSE spaceNote
OwnerFacts(index, key) ==
  LET owners == OwnerOf(index, index[key], key[2])
  IN IF owners = {} THEN {<<key, "ownerUnknown", <<"true">>>>}
     ELSE {<<key, "ownedBy", <<"owner", ow>>>> : ow \in owners}

-----------------------------------------------------------------------------
\* Mutant of Through: a ReplicaSet is not looked up.
NotThrough(index, ns, ref) == ref

\* One turn of pod_owner's loop: past a ReplicaSet to what owns it.
Through(index, ns, ref) ==
  IF ref = Nothing THEN Nothing
  ELSE IF ref[1] # "ReplicaSet" THEN ref
  ELSE LET rs == <<"ReplicaSet", ns, ref[2]>>
       IN IF rs \in DOMAIN index THEN index[rs].owner ELSE Nothing

\* pod_owner: the workload a pod is attributed to; a Job of a CronJob is
\* attributed to the CronJob.
PodOwner(index, pod) ==
  LET ns == IF pod.ns = Nothing THEN "default" ELSE pod.ns
      ref == Through(index, ns, Through(index, ns, pod.owner))
      job == <<"Job", ns, ref[2]>>
  IN IF ref = Nothing THEN Nothing
     ELSE IF ref[1] \notin WorkloadKinds THEN Nothing
     ELSE IF ref[1] = "Job" /\ job \in DOMAIN index
          THEN IF index[job].owner # Nothing /\ index[job].owner[1] = "CronJob"
               THEN <<"CronJob", ns, index[job].owner[2]>> ELSE job
          ELSE <<ref[1], ns, ref[2]>>

\* Where the pods of a workload run, and how many of them.
PlacementFacts(index, seq, key) ==
  LET mine == {i \in DOMAIN seq : PodOwner(index, seq[i]) = key /\ seq[i].node # Nothing}
      On(n) == {i \in mine : seq[i].node = n}
  IN UNION {{<<key, "scheduledOn", <<"Node", Nothing, seq[i].node>>>>,
             <<key, "replicasOnNode", <<seq[i].node, Cardinality(On(seq[i].node))>>>>}
              : i \in mine}

\* container_specs: the digest in the image reference and those the pods
\* pulled; what the pod template mounts and the account it runs as.
Digests(index, seq, key, c) ==
  LET mine == {i \in DOMAIN seq : PodOwner(index, seq[i]) = key}
  IN (IF c.digest = Nothing THEN {} ELSE {c.digest})
       \cup UNION {{d[2] : d \in {x \in seq[i].pulled : x[1] = c.name}} : i \in mine}
ImageFacts(key, c, digests) ==
  LET Of == <<"container", key, c.name>>
  IN {<<key, "hasContainer", Of>>}
       \cup {<<Of, "runsImage", <<d>>>> : d \in digests}
       \cup (IF digests = {} THEN {<<Of, "unresolvedImage", <<c.name>>>>} ELSE {})
TemplateFacts(w, key) ==
  {<<key, "mounts", <<m[1], key[2], m[2]>>>> : m \in w.mounts}
    \cup {<<key, "usesStorageClass", <<"StorageClass", Nothing, sc>>>> : sc \in w.classes}
    \cup {<<key, "usesServiceAccount", <<"ServiceAccount", key[2], w.account>>>>}
ContainerFacts(index, seq, key) ==
  (UNION {ImageFacts(key, c, Digests(index, seq, key, c)) : c \in index[key].containers})
    \cup TemplateFacts(index[key], key)

WorkloadFacts(index, seq, key) ==
  PlacementFacts(index, seq, key) \cup ContainerFacts(index, seq, key)
    \cup OwnerFacts(index, key)
    \cup {<<key, "hasPDB", p>> :
            p \in {q \in OfKind(index, "PodDisruptionBudget") :
                     q[2] = key[2]
                       /\ SelectorMatches(index[q].selector, index[key].podLabels, FALSE)}}

-----------------------------------------------------------------------------
\* Service and Ingress.
ServiceFacts(index, key) ==
  {<<key, "selects", w>> :
     w \in {v \in WorkloadsIn(index, key[2]) :
              index[key].selector # {} /\ index[key].selector \subseteq index[v].podLabels}}
IngressFacts(index, key) ==
  {<<key, "routesTo", <<"Service", key[2], sv>>>> : sv \in index[key].services}

\* Mutant of PeerNamespaces: a peer without a namespaceSelector is of every namespace.
PeerNamespacesAll(index, peer, ns) ==
  {n[3] : n \in OfKind(index, "Namespace")}

\* NetworkPolicy: the namespaces a peer of a rule covers, and what it stands for.
\* Only the selectors are looked at: a peer that is an ipBlock has neither, and
\* comes out as the policy's own namespace.
PeerNamespaces(index, peer, ns) ==
  IF peer.namespaces = Nothing THEN {ns}
  ELSE {n[3] : n \in {m \in OfKind(index, "Namespace") :
                        SelectorMatches(peer.namespaces, index[m].labels, TRUE)}}
PeerEnds(index, peer, ns) ==
  UNION {IF peer.pods = Nothing THEN {<<"Namespace", Nothing, n>>}
         ELSE {w \in WorkloadsIn(index, n) :
                 SelectorMatches(peer.pods, index[w].podLabels, TRUE)}
           : n \in PeerNamespaces(index, peer, ns)}
RuleFacts(index, key, rules, some, every) ==
  UNION {IF peers = {} THEN {<<key, every, <<"true">>>>}
         ELSE {<<key, some, e>> : e \in UNION {PeerEnds(index, p, key[2]) : p \in peers}}
           : peers \in rules}
PolicyFacts(index, key) ==
  LET np == index[key]
      types == IF np.types = {} THEN {"Ingress"} ELSE np.types
  IN {<<key, "policyType", <<t>>>> : t \in types}
       \cup {<<key, "appliesTo", w>> :
               w \in {v \in WorkloadsIn(index, key[2]) :
                        SelectorMatches(np.pods, index[v].podLabels, TRUE)}}
       \cup (IF "Ingress" \notin types THEN {} ELSE
               RuleFacts(index, key, np.ingress, "allowsIngressFrom", "allowsAllIngress"))
       \cup (IF "Egress" \notin types THEN {} ELSE
               RuleFacts(index, key, np.egress, "allowsEgressTo", "allowsAllEgress"))

\* Roles: a permission is <<group, resource, verb>>; no group is the core group.
GroupsOf(rule) == IF rule.groups = {} THEN {""} ELSE rule.groups
PermissionFacts(key, rule) ==
  {<<key, "permits", perm>> : perm \in GroupsOf(rule) \X rule.resources \X rule.verbs}
RoleFacts(index, key) ==
  (UNION {PermissionFacts(key, rule) : rule \in index[key].rules})
    \cup {<<key, "aggregates", other>> :
            other \in {c \in OfKind(index, "ClusterRole") \ {key} :
                         key[1] = "ClusterRole" /\ \E sel \in index[key].aggregates :
                           SelectorMatches(sel, index[c].labels, FALSE)}}

\* Mutant of SubjectOf: the namespace of the account is that of the binding.
SubjectOfBinding(sub, ns) ==
  CASE sub.kind = "ServiceAccount" -> <<"ServiceAccount", ns, sub.name>>
    [] sub.kind = "User" -> <<"user", Nothing, sub.name>>
    [] OTHER -> <<"group", Nothing, sub.name>>

\* The subject of a binding in ns.
SubjectOf(sub, ns) ==
  CASE sub.kind = "ServiceAccount" ->
         <<"ServiceAccount",
           IF sub.ns # Nothing THEN sub.ns ELSE IF ns # Nothing THEN ns ELSE "default", sub.name>>
    [] sub.kind = "User" -> <<"user", Nothing, sub.name>>
    [] OTHER -> <<"group", Nothing, sub.name>>
BindingFacts(index, key) ==
  LET ref == index[key].role
      role == IF ref[1] = "ClusterRole" THEN <<"ClusterRole", Nothing, ref[2]>>
              ELSE <<"Role", key[2], ref[2]>>
  IN {<<key, "grants", role>>}
       \cup {<<key, "subjectOf", SubjectOf(sub, key[2])>> : sub \in index[key].subjects}

StorageFacts(index, key) ==
  {<<key, "usesStorageClass", <<"StorageClass", Nothing, sc>>>> : sc \in index[key].classes}
    \cup {<<key, "boundTo", <<"PersistentVolume", Nothing, pv>>>> : pv \in index[key].volumes}
    \cup {<<key, "pinnedToNode", <<"Node", Nothing, n>>>> : n \in index[key].nodes}

ObjectFacts(index, seq, key) ==
  LET kind == key[1]
  IN {<<key, "kind", <<kind>>>>}
       \cup (IF key[2] = Nothing THEN {}
             ELSE {<<key, "inNamespace", <<"Namespace", Nothing, key[2]>>>>})
       \cup CASE kind = "Namespace" -> OwnerFacts(index, key)
              [] kind \in WorkloadKinds -> WorkloadFacts(index, seq, key)
              [] kind = "Service" -> ServiceFacts(index, key)
              [] kind = "Ingress" -> IngressFacts(index, key)
              [] kind = "NetworkPolicy" -> PolicyFacts(index, key)
              [] kind \in {"Role", "ClusterRole"} -> RoleFacts(index, key)
              [] kind \in {"RoleBinding", "ClusterRoleBinding"} -> BindingFacts(index, key)
              [] kind \in {"PersistentVolumeClaim", "PersistentVolume"} ->
                   StorageFacts(index, key)
              [] OTHER -> {}

\* nodes_fragment: what is said of the nodes is a fragment of its own.
NodeFacts(index) ==
  UNION {{<<key, "inFailureDomain", <<"zone", z>>>> : z \in FirstKey(ZoneKeys, index[key].labels)}
           \cup {<<key, "hostGeneration", <<g>>>> : g \in index[key].generation}
           : key \in OfKind(index, "Node")}

Snap == <<"snapshot">>

\* build_snapshot.
SnapshotOf(seq, podSeq, failedKinds) ==
  LET index == Index(seq)
      shown == {key \in DOMAIN index : key[1] # "ReplicaSet"}
  IN [nodes |-> NodeFacts(index),
      snapshot |->
        {<<Snap, "contains", key>> : key \in shown}
          \cup (IF failedKinds = {} THEN {} ELSE {<<Snap, "partial", <<"true">>>>})
          \cup {<<Snap, "failedKind", <<kind>>>> : kind \in failedKinds}
          \cup UNION {ObjectFacts(index, podSeq, key) : key \in shown}]

-----------------------------------------------------------------------------
K8sInit ==
  /\ cluster \in Clusters \cup {{}}
  /\ changes = 0 /\ ever = cluster /\ lasting = cluster
  /\ todo = Listed /\ objects = <<>> /\ pods = <<>> /\ failed = {} /\ snap = Nothing

\* An object is created, or deleted, while the kinds are listed.  A pod that
\* moves and a roll-out are such changes.
Appears(o) ==
  /\ changes < MaxChanges /\ todo # <<>> /\ cluster # {}
  /\ \A x \in cluster : <<x.kind, x.ns, x.name>> # <<o.kind, o.ns, o.name>>
  /\ cluster' = cluster \cup {o}
  /\ ever' = ever \cup {o}
  /\ changes' = changes + 1
  /\ UNCHANGED <<lasting, todo, objects, pods, failed, snap>>

Disappears(o) ==
  /\ changes < MaxChanges /\ todo # <<>>
  /\ cluster' = cluster \ {o}
  /\ lasting' = lasting \ {o}
  /\ changes' = changes + 1
  /\ UNCHANGED <<ever, todo, objects, pods, failed, snap>>

\* list_live: one list call.  The server's order is its own.
Orders(S) == {seq \in [1 .. Cardinality(S) -> S] : Range(seq) = S}
List ==
  /\ todo # <<>> /\ cluster # {}
  /\ \E seq \in Orders({o \in cluster : o.kind = Head(todo)}) :
       IF Head(todo) = "Pod"
       THEN pods' = seq /\ UNCHANGED objects
       ELSE objects' = objects \o seq /\ UNCHANGED pods
  /\ todo' = Tail(todo)
  /\ UNCHANGED <<cluster, changes, ever, lasting, failed, snap>>

\* Mutant of ListFails: the snapshot does not know.
ListFailsSilently ==
  /\ todo # <<>> /\ cluster # {}
  /\ Head(todo) \in MayFail
  /\ todo' = Tail(todo)
  /\ UNCHANGED <<cluster, changes, ever, lasting, objects, pods, failed, snap>>

ListFails ==
  /\ todo # <<>> /\ cluster # {}
  /\ Head(todo) \in MayFail
  /\ failed' = failed \cup {Head(todo)}
  /\ todo' = Tail(todo)
  /\ UNCHANGED <<cluster, changes, ever, lasting, objects, pods, snap>>

\* manifests::read_dir, instead of a cluster.
ReadManifests ==
  /\ todo # <<>> /\ cluster = {} /\ changes = 0
  /\ \E seq \in Manifests : objects' = seq /\ lasting' = Range(seq) /\ ever' = Range(seq)
  /\ todo' = <<>>
  /\ UNCHANGED <<cluster, changes, pods, failed, snap>>

BuildSnapshot ==
  /\ todo = <<>> /\ snap = Nothing
  /\ snap' = SnapshotOf(objects, pods, failed)
  /\ UNCHANGED <<cluster, changes, ever, lasting, todo, objects, pods, failed>>

K8sNext ==
  \/ \E o \in Arrivals : Appears(o)
  \/ \E o \in cluster : Disappears(o)
  \/ List \/ ListFails \/ ReadManifests \/ BuildSnapshot

K8sSpec == K8sInit /\ [][K8sNext]_k8sVars

SnapshotBuilt == snap # Nothing

-----------------------------------------------------------------------------
\* Every object that was there during the whole listing is in the snapshot,
\* unless its kind could not be listed, which the snapshot then says (api.rs:
\* "the snapshot becomes `k8s:partial`"); and nothing is that never was there.
NothingMissed ==
  SnapshotBuilt =>
    /\ \A o \in lasting :
         o.kind \in {"Pod", "ReplicaSet"}
           \/ <<Snap, "contains", Key(o)>> \in snap.snapshot
           \/ {<<Snap, "failedKind", <<o.kind>>>>, <<Snap, "partial", <<"true">>>>}
                \subseteq snap.snapshot
    /\ \A fact \in snap.snapshot :
         fact[2] = "contains" => \E o \in ever : Key(o) = fact[3]

InOrder(S) == CHOOSE seq \in Orders(S) : TRUE

\* A cluster nothing happened to during the listing has one snapshot, in
\* whatever order the server lists (snapshot.rs: "Identical cluster state ->
\* identical snapshot hash").
SameStateSameSnapshot ==
  SnapshotBuilt /\ changes = 0 /\ failed = {} /\ cluster # {} =>
    snap = SnapshotOf(InOrder({o \in cluster : o.kind # "Pod"}),
                InOrder({o \in cluster : o.kind = "Pod"}), {})

\* The workload at the end of the owner references of a pod, among all the
\* objects there have been.
Controllers(pod) ==
  LET Owns(a, b) == b.owner = <<a.kind, a.name>> /\ Key(a)[2] = Key(b)[2]
      Owned == {o \in ever : o.kind \in {"Pod", "ReplicaSet", "Job"}}
      above(b) == {a \in ever : Owns(a, b)}
      one == above(pod)
      two == UNION {above(b) : b \in one \cap Owned}
  IN one \cup two
TopOwners(pod) ==
  {o \in Controllers(pod) : o.kind \in WorkloadKinds
      /\ ~ \E c \in Controllers(pod) : c.kind = "CronJob" /\ o.kind = "Job"}

\* The replicas of a workload on a node are pods of it that were there, each
\* counted once: never more than there were, and no less when what owns them
\* was there all the time and could be listed.
PlacementIsOfPods ==
  SnapshotBuilt =>
    \A w \in {o \in ever : o.kind \in WorkloadKinds} : \A n \in {p.node : p \in Range(pods)} :
      LET mine == {p \in Range(pods) : p.node = n /\ w \in TopOwners(p)}
          sure == {p \in mine : Controllers(p) \subseteq lasting
                                  /\ \A c \in Controllers(p) : c.kind \notin failed}
          said == {f[3][2] : f \in {g \in snap.snapshot :
                     g[1] = Key(w) /\ g[2] = "replicasOnNode" /\ g[3][1] = n}}
          contained == <<Snap, "contains", Key(w)>> \in snap.snapshot
      IN n # Nothing =>
           /\ said \subseteq 1 .. Cardinality(mine)
           /\ contained /\ sure # {} => \E c \in said : c >= Cardinality(sure)

\* What owns what, as the controllers of Kubernetes make it: a pod's owner is
\* no pod, a ReplicaSet's no ReplicaSet and no Job, and a Job's, if a workload,
\* a CronJob.  A Job that is made again has the owner it had, and when the
\* listing begins the CronJob of a Job is there.
OwnersAreControllers(objs) ==
  LET all == objs \cup Arrivals
      Owned(o) == o.owner # Nothing
  IN /\ \A o \in all :
          /\ Nothing \notin {<<o.kind, o.name>>, Key(o)}
          /\ Owned(o) => o.owner = <<o.owner[1], o.owner[2]>>
          /\ Owned(o) /\ o.kind = "Pod" => o.owner[1] # "Pod"
          /\ Owned(o) /\ o.kind = "ReplicaSet" => o.owner[1] \notin {"ReplicaSet", "Job"}
          /\ Owned(o) /\ o.kind = "Job" => o.owner[1] \notin WorkloadKinds \ {"CronJob"}
     /\ \A a, b \in all :
          a.kind = "Job" /\ <<a.kind, a.ns, a.name>> = <<b.kind, b.ns, b.name>> =>
            a.owner = b.owner
     /\ \A j \in objs : j.kind = "Job" /\ Owned(j) /\ j.owner[1] = "CronJob" =>
          \E c \in objs : <<c.kind, c.ns, c.name>> = <<"CronJob", j.ns, j.owner[2]>>
ControllersOwn == \A objs \in Clusters : OwnersAreControllers(objs)

\* Whether a workload may reach those a policy applies to, by its rules as
\* Kubernetes reads them, and by the facts.
Selected(sel, labels) ==
  /\ sel.labels \subseteq labels
  /\ \A e \in sel.expressions : ExpressionHolds(e, labels)

\* A peer has selectors or an ipBlock, and the API server admits neither both
\* nor none: without selectors it is an ipBlock, which lets in addresses outside
\* the cluster and no workload by its labels or namespace.
IpBlock(p) == p.namespaces = Nothing /\ p.pods = Nothing
AllowedByRules(np, w) ==
  \E peers \in np.ingress :
    \/ peers = {}
    \/ \E p \in peers :
         /\ ~ IpBlock(p)
         /\ IF p.namespaces = Nothing THEN Key(w)[2] = Key(np)[2]
            ELSE \E o \in Range(objects) : o.kind = "Namespace" /\ o.name = Key(w)[2]
                                             /\ Selected(p.namespaces, o.labels)
         /\ p.pods = Nothing \/ Selected(p.pods, w.podLabels)
AllowedByFacts(np, w) ==
  \/ <<Key(np), "allowsAllIngress", <<"true">>>> \in snap.snapshot
  \/ <<Key(np), "allowsIngressFrom", Key(w)>> \in snap.snapshot
  \/ <<Key(np), "allowsIngressFrom", <<"Namespace", Nothing, Key(w)[2]>>>> \in snap.snapshot

\* Of each object a directory has one manifest: of two, the last one counts.
OfOneObject(a, b) ==
  /\ a.kind = b.kind /\ a.name = b.name
  /\ a.kind \in ClusterKinds \/ a.ns = b.ns \/ {a.ns, b.ns} = {Nothing, "default"}
KeysOnce ==
  \A seq \in Manifests : \A a, b \in Range(seq) : OfOneObject(a, b) => a = b

\* The facts about a policy let in every workload its rules let in; and no other,
\* but for those of the policy's own namespace when a peer is an ipBlock, which
\* build_snapshot takes for that namespace.
LetInByBlock(np, w) ==
  Key(w)[2] = Key(np)[2] /\ \E peers \in np.ingress : \E p \in peers : IpBlock(p)
PolicyFactsMeanTheRules ==
  SnapshotBuilt =>
    \A np, w \in Range(objects) :
      np.kind = "NetworkPolicy" /\ np.types \in {{}, {"Ingress"}, {"Ingress", "Egress"}}
        /\ w.kind \in WorkloadKinds =>
          /\ AllowedByRules(np, w) => AllowedByFacts(np, w)
          /\ AllowedByFacts(np, w) => AllowedByRules(np, w) \/ LetInByBlock(np, w)

\* A service account is permitted by the facts what a binding of Kubernetes
\* gives it: a Role is looked up where the binding is, an account without a
\* namespace is of the binding's.
Binds(b, r, ns, account) ==
  /\ b.kind \in {"RoleBinding", "ClusterRoleBinding"}
  /\ r.kind = b.role[1] /\ r.name = b.role[2]
  /\ r.kind = "Role" => Key(r)[2] = Key(b)[2]
  /\ \E s \in b.subjects : s.kind = "ServiceAccount" /\ s.name = account
       /\ IF s.ns = Nothing THEN Key(b)[2] = ns ELSE s.ns = ns
PermittedByRules(ns, account) ==
  LET bound == {r \in Range(objects) : \E b \in Range(objects) : Binds(b, r, ns, account)}
  IN UNION {rule.groups \X rule.resources \X rule.verbs : rule \in UNION {r.rules : r \in bound}}
\* What the API server admits: a binding is of a role, one of the cluster names
\* the namespace of an account; a rule of resources names their groups.
Admitted(o) ==
  /\ o.kind \in {"RoleBinding", "ClusterRoleBinding"} =>
       /\ o.role[1] \in {"Role", "ClusterRole"}
       /\ o.kind = "ClusterRoleBinding" =>
            \A s \in o.subjects : s.kind = "ServiceAccount" => s.ns # Nothing
  /\ o.kind \in {"Role", "ClusterRole"} =>
       \A rule \in o.rules : rule.groups = {} => rule.resources = {}
AllAdmitted ==
  \A o \in Arrivals \cup (UNION Clusters) \cup (UNION {Range(seq) : seq \in Manifests}) : Admitted(o)
PermittedByFacts(ns, account) ==
  {f[3] : f \in {g \in snap.snapshot : g[2] = "permits" /\
     \E b \in {h[1] : h \in {x \in snap.snapshot : x[2] = "grants" /\ x[3] = g[1]}} :
       <<b, "subjectOf", <<"ServiceAccount", ns, account>>>> \in snap.snapshot}}
PermitsAgree ==
  SnapshotBuilt =>
    \A o \in Range(objects) : o.kind = "ServiceAccount" =>
      PermittedByFacts(Key(o)[2], o.name) = PermittedByRules(Key(o)[2], o.name)
=============================================================================
