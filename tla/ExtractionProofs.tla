-------------------------- MODULE ExtractionProofs --------------------------
(***************************************************************************)
(* Proofs about Extraction and about K8sSnapshot.                          *)
(*                                                                         *)
(* Extraction.  What a command writes is a plan: a sequence of batches in  *)
(* which a fragment names only what an earlier batch has.  For each        *)
(* command there is a lemma that its batches are one and hold the whole    *)
(* of its build closure.  Written in order, and beside any other process,  *)
(* a plan stays one over the store (WriterInv), and so no fragment on disk *)
(* ever names one that is not.  Of the runtime closure, WalkInv says that  *)
(* the walk stays within the least closed set and leaves its frontier out: *)
(* when the frontier is empty the two are the same.                        *)
(*                                                                         *)
(* K8sSnapshot.  What a snapshot contains, for every cluster, every order  *)
(* in which its kinds are listed, and every change meanwhile; and what its *)
(* facts about policies, roles and placement mean, once it is known which  *)
(* facts the object at a key can give and that the index has each object   *)
(* at its key.                                                             *)
(***************************************************************************)
EXTENDS Extraction, K8sSnapshot, FiniteSetTheorems, SequenceTheorems, TLAPS

-----------------------------------------------------------------------------
(***************************************************************************)
(* What fragments name, and the order they are written in.                 *)
(***************************************************************************)
Ids(fragments) == {f.id : f \in fragments}
AllOf(b) == UNION {b[i] : i \in DOMAIN b}

NamedBy(facts) ==
  {<<KindNamed(x), x[2]>> : x \in {y \in facts : KindNamed(y) # Absent}}
    \cup {x[2] : x \in {y \in facts : y[1] \in {"snapshot", "observedAt", "hasFragment"}}}

\* What a fragment names is among the known, or in an earlier batch.
Before(b, i) == UNION {Ids(b[j]) : j \in 1 .. (i - 1)}
Ordered(b, known) ==
  \A i \in DOMAIN b : \A f \in b[i] : NamedBy(f.facts) \subseteq known \cup Before(b, i)

\* A sequence of batches of the given fragments, in order.
Plan(b, known, fragments) ==
  /\ \E T : b \in Seq(T)
  /\ Ordered(b, known)
  /\ AllOf(b) = fragments

LEMMA PlanOfNone == ASSUME NEW known PROVE Plan(<<>>, known, {})
<1>1. <<>> \in Seq({}) /\ DOMAIN <<>> = {}
  OBVIOUS
<1>2. QED
  BY <1>1 DEF Plan, Ordered, AllOf

LEMMA PlanOfOne ==
  ASSUME NEW known, NEW S, \A f \in S : NamedBy(f.facts) \subseteq known
  PROVE  Plan(<<S>>, known, S)
<1>1. <<S>> \in Seq({S}) /\ DOMAIN <<S>> = {1} /\ <<S>>[1] = S
  OBVIOUS
<1> DEFINE b == <<S>>
<1> HIDE DEF b
<1>2. b \in Seq({S}) /\ DOMAIN b = {1} /\ b[1] = S
  BY <1>1 DEF b
<1>3. Plan(b, known, S)
  BY <1>2 DEF Plan, Ordered, AllOf
<1>4. QED
  BY <1>3 DEF b

LEMMA PlanOfBoth ==
  ASSUME NEW a, NEW b, NEW known, NEW F, NEW G,
         Plan(a, known, F), Plan(b, known \cup Ids(F), G)
  PROVE  Plan(a \o b, known, F \cup G)
<1>1. PICK S : a \in Seq(S)
  BY DEF Plan
<1>2. PICK T : b \in Seq(T)
  BY DEF Plan
<1> DEFINE U == S \cup T
           ab == a \o b
<1>3. a \in Seq(U) /\ b \in Seq(U)
  <2>1. S \subseteq U /\ T \subseteq U
    OBVIOUS
  <2> HIDE DEF U
  <2>2. QED
    BY <1>1, <1>2, <2>1
<1> HIDE DEF U
<1>4. /\ Len(a) \in Nat /\ Len(b) \in Nat
      /\ DOMAIN a = 1 .. Len(a) /\ DOMAIN b = 1 .. Len(b)
      /\ ab \in Seq(U) /\ DOMAIN ab = 1 .. (Len(a) + Len(b))
  BY <1>3
<1>5. \A i \in 1 .. Len(a) : ab[i] = a[i]
  BY <1>3
<1>6. \A i \in 1 .. Len(b) : ab[Len(a) + i] = b[i]
  BY <1>3
<1> HIDE DEF ab
<1>7. AllOf(ab) = F \cup G
  <2>1. AllOf(ab) \subseteq AllOf(a) \cup AllOf(b)
    <3>1. ASSUME NEW i \in DOMAIN ab PROVE ab[i] \subseteq AllOf(a) \cup AllOf(b)
      <4>1. CASE i \in 1 .. Len(a)
        BY <1>4, <1>5, <4>1 DEF AllOf
      <4>2. CASE i \notin 1 .. Len(a)
        <5>1. i - Len(a) \in 1 .. Len(b) /\ i = Len(a) + (i - Len(a))
          BY <1>4, <3>1, <4>2
        <5>2. ab[i] = b[i - Len(a)]
          BY <1>6, <5>1
        <5>3. QED
          BY <1>4, <5>1, <5>2 DEF AllOf
      <4>3. QED
        BY <4>1, <4>2
    <3>2. QED
      BY <3>1 DEF AllOf
  <2>2. AllOf(a) \subseteq AllOf(ab)
    <3>1. \A i \in DOMAIN a : i \in DOMAIN ab /\ ab[i] = a[i]
      BY <1>4, <1>5
    <3>2. QED
      BY <3>1 DEF AllOf
  <2>3. AllOf(b) \subseteq AllOf(ab)
    <3>1. \A i \in DOMAIN b : Len(a) + i \in DOMAIN ab /\ ab[Len(a) + i] = b[i]
      BY <1>4, <1>6
    <3>2. QED
      BY <3>1 DEF AllOf
  <2>4. QED
    BY <2>1, <2>2, <2>3 DEF Plan
<1>8. Ordered(ab, known)
  <2>1. ASSUME NEW i \in DOMAIN ab, NEW f \in ab[i], NEW id \in NamedBy(f.facts), id \notin known
        PROVE  id \in Before(ab, i)
    <3>1. CASE i \in 1 .. Len(a)
      <4>1. f \in a[i] /\ i \in DOMAIN a
        BY <1>4, <1>5, <2>1, <3>1
      <4>2. PICK j \in 1 .. (i - 1) : id \in Ids(a[j])
        BY <2>1, <4>1 DEF Plan, Ordered, Before
      <4>3. ab[j] = a[j]
        BY <1>4, <1>5, <3>1
      <4>4. QED
        BY <4>2, <4>3 DEF Before
    <3>2. CASE i \notin 1 .. Len(a)
      <4> DEFINE k == i - Len(a)
      <4>1. k \in 1 .. Len(b) /\ i = Len(a) + k /\ k \in Nat
        BY <1>4, <2>1, <3>2
      <4>2. f \in b[k] /\ k \in DOMAIN b
        BY <1>4, <1>6, <2>1, <4>1
      <4>3. id \in Ids(F) \/ id \in Before(b, k)
        BY <2>1, <4>2 DEF Plan, Ordered
      <4>4. CASE id \in Ids(F)
        <5>1. PICK g \in F : id = g.id
          BY <4>4 DEF Ids
        <5>2. PICK j \in DOMAIN a : g \in a[j]
          BY <5>1 DEF Plan, AllOf
        <5>3. j \in 1 .. (i - 1) /\ ab[j] = a[j]
          BY <1>4, <1>5, <4>1, <5>2
        <5>4. id \in Ids(ab[j])
          BY <5>1, <5>2, <5>3 DEF Ids
        <5>5. QED
          BY <5>3, <5>4 DEF Before
      <4>5. CASE id \in Before(b, k)
        <5>1. PICK j \in 1 .. (k - 1) : id \in Ids(b[j])
          BY <4>5 DEF Before
        <5>2. Len(a) + j \in 1 .. (i - 1) /\ ab[Len(a) + j] = b[j]
          BY <1>4, <1>6, <4>1, <5>1
        <5>3. QED
          BY <5>1, <5>2 DEF Before
      <4>6. QED
        BY <4>3, <4>4, <4>5
    <3>3. QED
      BY <3>1, <3>2
  <2>2. QED
    BY <2>1 DEF Ordered
<1>9. \E V : ab \in Seq(V)
  BY <1>4
<1>10. QED
  BY <1>7, <1>8, <1>9 DEF Plan, ab

LEMMA PlanOfTwo ==
  ASSUME NEW known, NEW S, NEW T, \A f \in S : NamedBy(f.facts) \subseteq known,
         \A f \in T : NamedBy(f.facts) \subseteq known \cup Ids(S)
  PROVE  Plan(<<S, T>>, known, S \cup T)
<1> DEFINE b == <<S, T>>
<1>1. b \in Seq({S, T}) /\ DOMAIN b = {1, 2} /\ b[1] = S /\ b[2] = T
  OBVIOUS
<1> HIDE DEF b
<1>2. Ids(S) \subseteq Before(b, 2)
  BY <1>1 DEF Before
<1>3. AllOf(b) = S \cup T
  BY <1>1 DEF AllOf
<1>4. Ordered(b, known)
  BY <1>1, <1>2 DEF Ordered
<1>5. Plan(b, known, S \cup T)
  BY <1>1, <1>3, <1>4 DEF Plan
<1>6. QED
  BY <1>5 DEF b

LEMMA PlanOfThree ==
  ASSUME NEW known, NEW S, NEW T, NEW U, \A f \in S : NamedBy(f.facts) \subseteq known,
         \A f \in T : NamedBy(f.facts) \subseteq known \cup Ids(S),
         \A f \in U : NamedBy(f.facts) \subseteq known \cup Ids(S) \cup Ids(T)
  PROVE  Plan(<<S, T, U>>, known, S \cup T \cup U)
<1> DEFINE b == <<S, T, U>>
<1>1. b \in Seq({S, T, U}) /\ DOMAIN b = {1, 2, 3} /\ b[1] = S /\ b[2] = T /\ b[3] = U
  OBVIOUS
<1> HIDE DEF b
<1>2. Ids(S) \subseteq Before(b, 2) /\ Ids(S) \subseteq Before(b, 3) /\ Ids(T) \subseteq Before(b, 3)
  BY <1>1 DEF Before
<1>3. AllOf(b) = S \cup T \cup U
  BY <1>1 DEF AllOf
<1>4. Ordered(b, known)
  BY <1>1, <1>2 DEF Ordered
<1>5. Plan(b, known, S \cup T \cup U)
  BY <1>1, <1>3, <1>4 DEF Plan
<1>6. QED
  BY <1>5 DEF b

-----------------------------------------------------------------------------
(***************************************************************************)
(* What the commands write.                                                *)
(***************************************************************************)
DrvIds(ds) == {<<"drv", d>> : d \in ds}

LEMMA NamesNothing ==
  ASSUME NEW facts, \A x \in facts :
           x[1] \in {"storePath", "envVar", "hasOutput", "references", "layerContains", "inputDrv"}
  PROVE  NamedBy(facts) = {}
BY DEF NamedBy, KindNamed

LEMMA NamesDrvs ==
  ASSUME NEW ds, NEW facts,
         \A x \in facts : x[1] \in {"closureContains", "hasRoot", "evaluatesTo"} /\ x[2] \in ds
  PROVE  NamedBy(facts) \subseteq DrvIds(ds)
BY DEF NamedBy, KindNamed, DrvIds

LEMMA NamesOfBoth ==
  ASSUME NEW A, NEW B
  PROVE  NamedBy(A \cup B) = NamedBy(A) \cup NamedBy(B)
BY DEF NamedBy

LEMMA RootsAreOfTheGraph ==
  ASSUME NEW c \in Commands
  PROVE  c.roots \subseteq Graph(c.roots)
BY ExtractionAssumption DEF Graph, Drvs

SourceFragments(ds) == {SourceFragment(x) : x \in Sources(ds)}
GraphFragments(c) ==
  SourceFragments(Graph(c.roots))
    \cup ({DerivationFragment(d) : d \in Graph(c.roots)}
            \cup {EnvFragment(d) : d \in IF c.env THEN Graph(c.roots) ELSE {}})

LEMMA GraphPlan ==
  ASSUME NEW c, NEW known
  PROVE  Plan(GraphBatches(c), known, GraphFragments(c))
<1> DEFINE ds == Graph(c.roots)
           S == SourceFragments(ds)
           D == {DerivationFragment(d) : d \in ds}
           E == {EnvFragment(d) : d \in IF c.env THEN ds ELSE {}}
<1>1. \A f \in S : NamedBy(f.facts) \subseteq known
  <2>1. ASSUME NEW s \in Sources(ds) PROVE NamedBy(SourceFragment(s).facts) = {}
    BY NamesNothing DEF SourceFragment, Fragment
  <2>2. QED
    BY <2>1 DEF SourceFragments
<1>2. \A f \in D : NamedBy(f.facts) \subseteq Ids(S)
  <2>1. ASSUME NEW d \in ds PROVE NamedBy(DerivationFragment(d).facts) \subseteq Ids(S)
    <3> DEFINE of == {<<"inputSrc", NarHash[s]>> : s \in DrvInfo[d].srcs}
               on == {<<"inputDrv", i>> : i \in DrvInfo[d].drvs}
    <3>1. NamedBy(on) = {}
      BY NamesNothing
    <3>2. NamedBy(of) \subseteq {<<"src", NarHash[s]>> : s \in DrvInfo[d].srcs}
      BY DEF NamedBy, KindNamed
    <3>3. \A s \in DrvInfo[d].srcs : <<"src", NarHash[s]>> \in Ids(S)
      <4>1. ASSUME NEW s \in DrvInfo[d].srcs PROVE <<"src", NarHash[s]>> \in Ids(S)
        <5>1. SourceFragment(s) \in S
          BY DEF SourceFragments, Sources
        <5>2. SourceFragment(s).id = <<"src", NarHash[s]>>
          BY DEF SourceFragment, Fragment
        <5> HIDE DEF S
        <5>3. QED
          BY <5>1, <5>2 DEF Ids
      <4>2. QED
        BY <4>1
    <3>4. DerivationFragment(d).facts = on \cup of
      BY DEF DerivationFragment, Fragment
    <3> HIDE DEF on, of, S
    <3>5. QED
      BY <3>1, <3>2, <3>3, <3>4, NamesOfBoth
  <2>2. QED
    BY <2>1
<1>3. \A f \in E : NamedBy(f.facts) = {}
  <2>1. ASSUME NEW d PROVE NamedBy(EnvFragment(d).facts) = {}
    BY NamesNothing DEF EnvFragment, Fragment
  <2>2. QED
    BY <2>1
<1>4. GraphBatches(c) = <<S, D \cup E>> /\ GraphFragments(c) = S \cup (D \cup E)
  BY DEF GraphBatches, GraphFragments, SourceFragments
<1> HIDE DEF S, D, E
<1>5. \A f \in D \cup E : NamedBy(f.facts) \subseteq known \cup Ids(S)
  BY <1>2, <1>3
<1>6. Plan(<<S, D \cup E>>, known, S \cup (D \cup E))
  BY <1>1, <1>5, PlanOfTwo
<1>7. QED
  BY <1>4, <1>6

LEMMA GraphIds ==
  ASSUME NEW c
  PROVE  /\ BuildClosure(Graph(c.roots)) \subseteq Ids(GraphFragments(c))
         /\ DrvIds(Graph(c.roots)) \subseteq Ids(GraphFragments(c))
         /\ \A f \in GraphFragments(c) : f.id[1] # "out"
<1> DEFINE ds == Graph(c.roots)
<1>1. \A d \in ds : DerivationFragment(d) \in GraphFragments(c)
                      /\ DerivationFragment(d).id = <<"drv", d>>
  BY DEF GraphFragments, DerivationFragment, Fragment
<1>2. \A s \in Sources(ds) : SourceFragment(s) \in GraphFragments(c)
                               /\ SourceFragment(s).id = <<"src", NarHash[s]>>
  BY DEF GraphFragments, SourceFragments, SourceFragment, Fragment
<1>3. \A f \in GraphFragments(c) : f.id[1] # "out"
  BY DEF GraphFragments, SourceFragments, SourceFragment, DerivationFragment, EnvFragment, Fragment
<1>4. \A d \in ds : <<"drv", d>> \in Ids(GraphFragments(c))
  BY <1>1 DEF Ids
<1>5. \A s \in Sources(ds) : <<"src", NarHash[s]>> \in Ids(GraphFragments(c))
  BY <1>2 DEF Ids
<1>6. QED
  BY <1>3, <1>4, <1>5 DEF BuildClosure, DrvIds

Commits(c, snapshot) ==
  IF c.commit = Absent THEN {} ELSE {Fragment("commit", c.commit, {<<"snapshot", snapshot>>})}

LEMMA CommitPlan ==
  ASSUME NEW c, NEW known, NEW snapshot \in known
  PROVE  /\ Plan(CommitBatch(c, snapshot), known, Commits(c, snapshot))
         /\ \A f \in Commits(c, snapshot) : f.id[1] = "commit"
<1>1. NamedBy({<<"snapshot", snapshot>>}) \subseteq known
  BY DEF NamedBy, KindNamed
<1>2. \A f \in Commits(c, snapshot) :
        f.facts = {<<"snapshot", snapshot>>} /\ f.id[1] = "commit"
  BY DEF Commits, Fragment
<1>3. CASE c.commit = Absent
  BY <1>2, <1>3, PlanOfNone DEF CommitBatch, Commits
<1>4. CASE c.commit # Absent
  <2>1. CommitBatch(c, snapshot) = <<Commits(c, snapshot)>>
    BY <1>4 DEF CommitBatch, Commits
  <2>2. QED
    BY <1>1, <1>2, <2>1, PlanOfOne
<1>5. QED
  BY <1>3, <1>4

\* What the fragments of a command must have among them.
Outs(fragments) == {f \in fragments : f.id[1] = "out"}
Whole(c, paths, fragments) ==
  /\ c.name # "attach-outputs" => BuildClosure(Graph(c.roots)) \subseteq Ids(fragments)
  /\ c.name \in {"nixos", "image"} /\ Outs(fragments) # {} =>
       {f.id[2] : f \in Outs(fragments)} = {Deriver[o] : o \in paths} \ {Absent}

LEMMA OutputsName ==
  ASSUME NEW d, NEW named, NEW outs
  PROVE  /\ NamedBy(OutputsFragment(d, named, outs).facts) = {}
         /\ OutputsFragment(d, named, outs).id = <<"out", d>>
<1>1. \A x \in OutputsFragment(d, named, outs).facts : x[1] \in {"hasOutput", "references"}
  BY DEF OutputsFragment, Fragment
<1>2. NamedBy(OutputsFragment(d, named, outs).facts) = {}
  BY <1>1, NamesNothing
<1>3. QED
  BY <1>2 DEF OutputsFragment, Fragment

LEMMA RuntimeOf ==
  ASSUME NEW paths
  PROVE  /\ \A f \in RuntimeFragments(paths) : NamedBy(f.facts) = {} /\ f.id[1] = "out"
         /\ {f.id[2] : f \in RuntimeFragments(paths)} = {Deriver[o] : o \in paths} \ {Absent}
<1> DEFINE Of(d) == {o \in paths : Deriver[o] = d}
           Known(d) == IF d \in Shown THEN DrvInfo[d].outs \cap Of(d) ELSE {}
           frag(d) == OutputsFragment(d, Known(d) # {}, IF Known(d) # {} THEN Known(d) ELSE Of(d))
           ds == {Deriver[o] : o \in paths} \ {Absent}
<1>1. RuntimeFragments(paths) = {frag(d) : d \in ds}
  BY DEF RuntimeFragments
<1>2. \A d \in ds : NamedBy(frag(d).facts) = {} /\ frag(d).id = <<"out", d>>
  BY OutputsName
<1> HIDE DEF frag, ds
<1>3. QED
  BY <1>1, <1>2 DEF ds

\* The facts of a snapshot about its derivations.
LEMMA SnapshotNames ==
  ASSUME NEW c \in Commands, NEW ds, ds \subseteq Graph(c.roots)
  PROVE  NamedBy(RootsOf(ds) \cup ClosureOf(c)) \subseteq Ids(GraphFragments(c))
<1>1. NamedBy(RootsOf(ds) \cup ClosureOf(c)) \subseteq DrvIds(Graph(c.roots))
  <2>1. \A x \in RootsOf(ds) \cup ClosureOf(c) :
          x[1] \in {"closureContains", "hasRoot", "evaluatesTo"} /\ x[2] \in Graph(c.roots)
    BY DEF RootsOf, ClosureOf
  <2>2. QED
    BY <2>1, NamesDrvs
<1>2. QED
  BY <1>1, GraphIds

LEMMA FlakePlan ==
  ASSUME NEW c \in Commands, c.name = "flake", NEW b \in FlakeBatches(c), NEW paths
  PROVE  \E F : Plan(b, {}, F) /\ Whole(c, paths, F)
<1>1. PICK shown \in SUBSET c.roots :
        LET root == Fragment("pin", c.pin, RootsOf(shown) \cup ClosureOf(c))
        IN b = <<{Fragment("pin", i, {}) : i \in c.inputs}>>
                 \o GraphBatches(c) \o <<{root}>> \o CommitBatch(c, root.id)
  BY DEF FlakeBatches
<1> DEFINE root == Fragment("pin", c.pin, RootsOf(shown) \cup ClosureOf(c))
           pins == {Fragment("pin", i, {}) : i \in c.inputs}
           F1 == pins \cup GraphFragments(c)
           F2 == F1 \cup {root}
           F == F2 \cup Commits(c, root.id)
<1>2. \A f \in pins : NamedBy(f.facts) \subseteq {}
  <2>1. NamedBy({}) = {}
    BY NamesNothing
  <2>2. QED
    BY <2>1 DEF Fragment
<1>3. Plan(<<pins>>, {}, pins)
  <2> HIDE DEF pins
  <2>1. QED
    BY <1>2, PlanOfOne
<1>4. Plan(<<pins>> \o GraphBatches(c), {}, F1)
  BY <1>3, GraphPlan, PlanOfBoth
<1>5. NamedBy(root.facts) \subseteq Ids(F1)
  <2>1. shown \subseteq Graph(c.roots)
    BY RootsAreOfTheGraph
  <2>2. root.facts = RootsOf(shown) \cup ClosureOf(c)
    BY DEF Fragment
  <2>3. Ids(GraphFragments(c)) \subseteq Ids(F1)
    BY DEF Ids
  <2>4. QED
    BY <2>1, <2>2, <2>3, SnapshotNames
<1>6. Plan(<<{root}>>, {} \cup Ids(F1), {root})
  <2> HIDE DEF root, F1
  <2>1. QED
    BY <1>5, PlanOfOne
<1>7. Plan(<<pins>> \o GraphBatches(c) \o <<{root}>>, {}, F2)
  BY <1>4, <1>6, PlanOfBoth
<1>8. root.id \in Ids(F2)
  BY DEF Ids
<1>9. Plan(CommitBatch(c, root.id), {} \cup Ids(F2), Commits(c, root.id))
  BY <1>8, CommitPlan
<1>10. Plan(b, {}, F)
  BY <1>1, <1>7, <1>9, PlanOfBoth
<1>11. BuildClosure(Graph(c.roots)) \subseteq Ids(F)
  <2>1. GraphFragments(c) \subseteq F
    OBVIOUS
  <2>2. QED
    BY <2>1, GraphIds DEF Ids
<1>12. QED
  BY <1>10, <1>11 DEF Whole

LEMMA DrvPlan ==
  ASSUME NEW c \in Commands, NEW paths, c.name \notin {"nixos", "image"}
  PROVE  \E F : Plan(GraphBatches(c), {}, F) /\ Whole(c, paths, F)
BY GraphPlan, GraphIds DEF Whole

LEMMA NixpkgsPlan ==
  ASSUME NEW c \in Commands, NEW paths, c.name = "nixpkgs-eval"
  PROVE  \E F : Plan(NixpkgsBatches(c), {}, F) /\ Whole(c, paths, F)
<1> DEFINE tree == Fragment("nixpkgs", c.rev, {<<"evaluatesTo", d>> : d \in Graph(c.roots)})
           F == GraphFragments(c) \cup {tree}
<1>1. NamedBy(tree.facts) \subseteq Ids(GraphFragments(c))
  <2>1. NamedBy({<<"evaluatesTo", d>> : d \in Graph(c.roots)}) \subseteq DrvIds(Graph(c.roots))
    BY NamesDrvs
  <2>2. QED
    BY <2>1, GraphIds DEF Fragment
<1>2. Plan(<<{tree}>>, {} \cup Ids(GraphFragments(c)), {tree})
  <2> HIDE DEF tree
  <2>1. QED
    BY <1>1, PlanOfOne
<1>3. Plan(GraphBatches(c) \o <<{tree}>>, {}, F)
  BY <1>2, GraphPlan, PlanOfBoth
<1>4. BuildClosure(Graph(c.roots)) \subseteq Ids(F)
  BY GraphIds DEF Ids
<1>5. QED
  BY <1>3, <1>4 DEF Whole, NixpkgsBatches

LEMMA AttachPlan ==
  ASSUME NEW c \in Commands, NEW paths, c.name = "attach-outputs"
  PROVE  \E F : Plan(AttachBatches(c), {}, F) /\ Whole(c, paths, F)
<1> DEFINE F == {OutputsFragment(d, TRUE, {o \in Valid : Deriver[o] = d}) : d \in c.roots}
<1>1. \A f \in F : NamedBy(f.facts) \subseteq {}
  BY OutputsName
<1>2. AttachBatches(c) = <<F>>
  BY DEF AttachBatches
<1> HIDE DEF F
<1>3. Plan(<<F>>, {}, F)
  BY <1>1, PlanOfOne
<1>4. QED
  BY <1>2, <1>3 DEF Whole

LEMMA K8sPlan ==
  ASSUME NEW c \in Commands, NEW paths, c.name = "k8s"
  PROVE  \E F : Plan(K8sBatches(c), {}, F) /\ Whole(c, paths, F)
<1> DEFINE snapshot == Fragment("k8s snapshot", c.state, {})
           nodes == Fragment("k8s nodes", c.nodes, {})
           observed == Fragment("k8s observed", <<c.state, c.at>>,
                         {<<"observedAt", snapshot.id>>, <<"hasFragment", nodes.id>>})
           F1 == {snapshot} \cup {nodes} \cup {observed}
           F == F1 \cup Commits(c, snapshot.id)
<1>1. NamedBy(snapshot.facts) = {} /\ NamedBy(nodes.facts) = {}
  <2>1. NamedBy({}) = {}
    BY NamesNothing
  <2>2. QED
    BY <2>1 DEF Fragment
<1>2. NamedBy(observed.facts) \subseteq {snapshot.id, nodes.id}
  <2>1. observed.facts = {<<"observedAt", snapshot.id>>, <<"hasFragment", nodes.id>>}
    BY DEF Fragment
  <2> HIDE DEF snapshot, nodes, observed
  <2>2. QED
    BY <2>1 DEF NamedBy, KindNamed
<1>3. K8sBatches(c) = <<{snapshot}, {nodes}, {observed}>> \o CommitBatch(c, snapshot.id)
  BY DEF K8sBatches
<1> HIDE DEF snapshot, nodes, observed
<1>4. Plan(<<{snapshot}, {nodes}, {observed}>>, {}, F1)
  BY <1>1, <1>2, PlanOfThree DEF Ids
<1>5. snapshot.id \in Ids(F1)
  BY DEF Ids
<1>6. Plan(CommitBatch(c, snapshot.id), {} \cup Ids(F1), Commits(c, snapshot.id))
  BY <1>5, CommitPlan
<1>7. Plan(K8sBatches(c), {}, F)
  BY <1>3, <1>4, <1>6, PlanOfBoth
<1>8. BuildClosure(Graph(c.roots)) = {}
  <2>1. c.roots = {}
    BY ExtractionAssumption
  <2>2. Graph(c.roots) = {}
    BY <2>1 DEF Graph
  <2>3. QED
    BY <2>2 DEF BuildClosure, Sources
<1>9. QED
  BY <1>7, <1>8 DEF Whole

LEMMA NixosPlan ==
  ASSUME NEW c \in Commands, c.name = "nixos", NEW paths, NEW b \in NixosBatches(c, paths)
  PROVE  \E F : Plan(b, {}, F) /\ Whole(c, paths, F)
<1>1. PICK known \in [values : {{}, c.values}, closure : {FALSE, c.closure}] :
        LET gen == Fragment("gen", Generation(c),
                     RootsOf(c.roots) \cup ClosureOf(c)
                       \cup {<<"valueHash", v>> : v \in known.values})
            outs == IF known.closure THEN RuntimeFragments(paths) ELSE {}
        IN b = GraphBatches(c) \o <<{Fragment("value", v, {}) : v \in known.values}, outs, {gen}>>
                 \o CommitBatch(c, gen.id)
  BY DEF NixosBatches
<1> DEFINE named == {<<"valueHash", v>> : v \in known.values}
           gen == Fragment("gen", Generation(c), RootsOf(c.roots) \cup ClosureOf(c) \cup named)
           outs == IF known.closure THEN RuntimeFragments(paths) ELSE {}
           vals == {Fragment("value", v, {}) : v \in known.values}
           G == GraphFragments(c)
           F1 == vals \cup outs \cup {gen}
           F2 == G \cup F1
           F == F2 \cup Commits(c, gen.id)
<1>2. \A f \in vals : NamedBy(f.facts) = {} /\ f.id[1] = "value"
  <2>1. NamedBy({}) = {}
    BY NamesNothing
  <2>2. QED
    BY <2>1 DEF Fragment
<1>3. \A f \in outs : NamedBy(f.facts) = {} /\ f.id[1] = "out"
  BY RuntimeOf
<1>4. NamedBy(gen.facts) \subseteq Ids(G) \cup Ids(vals)
  <2>1. NamedBy(named) \subseteq Ids(vals)
    <3>1. NamedBy(named) \subseteq {<<"value", v>> : v \in known.values}
      BY DEF NamedBy, KindNamed
    <3>2. ASSUME NEW v \in known.values PROVE <<"value", v>> \in Ids(vals)
      <4>1. Fragment("value", v, {}) \in vals
        OBVIOUS
      <4>2. Fragment("value", v, {}).id = <<"value", v>>
        BY DEF Fragment
      <4> HIDE DEF vals
      <4>3. QED
        BY <4>1, <4>2 DEF Ids
    <3>3. QED
      BY <3>1, <3>2
  <2>2. NamedBy(RootsOf(c.roots) \cup ClosureOf(c)) \subseteq Ids(G)
    BY SnapshotNames, RootsAreOfTheGraph
  <2>3. gen.facts = (RootsOf(c.roots) \cup ClosureOf(c)) \cup named
    BY DEF Fragment
  <2> HIDE DEF named, G, vals, gen
  <2>4. QED
    BY <2>1, <2>2, <2>3, NamesOfBoth
<1>5. b = GraphBatches(c) \o <<vals, outs, {gen}>> \o CommitBatch(c, gen.id)
  BY <1>1
<1>6. gen.id[1] = "gen"
  BY DEF Fragment
<1> HIDE DEF vals, outs, gen, G
<1>7. Plan(<<vals, outs, {gen}>>, {} \cup Ids(G), F1)
  BY <1>2, <1>3, <1>4, PlanOfThree
<1>8. Plan(GraphBatches(c) \o <<vals, outs, {gen}>>, {}, F2)
  BY <1>7, GraphPlan, PlanOfBoth DEF G
<1>9. gen.id \in Ids(F2)
  BY DEF Ids
<1>10. /\ Plan(CommitBatch(c, gen.id), {} \cup Ids(F2), Commits(c, gen.id))
       /\ \A f \in Commits(c, gen.id) : f.id[1] = "commit"
  BY <1>9, CommitPlan
<1>11. Plan(b, {}, F)
  BY <1>5, <1>8, <1>10, PlanOfBoth
<1>12. BuildClosure(Graph(c.roots)) \subseteq Ids(F)
  BY GraphIds DEF Ids, G
<1>13. Outs(F) = outs
  <2>1. \A f \in G : f.id[1] # "out"
    BY GraphIds DEF G
  <2>2. QED
    BY <1>2, <1>3, <1>6, <1>10, <2>1 DEF Outs
<1>14. outs # {} => {f.id[2] : f \in outs} = {Deriver[o] : o \in paths} \ {Absent}
  BY RuntimeOf DEF outs
<1>15. QED
  BY <1>11, <1>12, <1>13, <1>14 DEF Whole

LEMMA ImagePlan ==
  ASSUME NEW c \in Commands, c.name = "image", NEW paths, NEW b \in ImageBatches(c, paths)
  PROVE  \E F : Plan(b, {}, F) /\ Whole(c, paths, F)
<1>1. PICK known \in BOOLEAN :
        LET image == Fragment("image", c.digest,
                       RootsOf(c.roots) \cup ClosureOf(c)
                         \cup {<<"layerContains", o>> : o \in c.layers})
            outs == IF known THEN RuntimeFragments(paths) ELSE {}
        IN b = GraphBatches(c) \o <<{image}, outs>> \o CommitBatch(c, image.id)
  BY DEF ImageBatches
<1> DEFINE layers == {<<"layerContains", o>> : o \in c.layers}
           image == Fragment("image", c.digest, RootsOf(c.roots) \cup ClosureOf(c) \cup layers)
           outs == IF known THEN RuntimeFragments(paths) ELSE {}
           G == GraphFragments(c)
           F1 == {image} \cup outs
           F2 == G \cup F1
           F == F2 \cup Commits(c, image.id)
<1>2. \A f \in outs : NamedBy(f.facts) = {} /\ f.id[1] = "out"
  BY RuntimeOf
<1>3. NamedBy(image.facts) \subseteq Ids(G)
  <2>1. NamedBy(layers) = {}
    BY NamesNothing
  <2>2. NamedBy(RootsOf(c.roots) \cup ClosureOf(c)) \subseteq Ids(G)
    BY SnapshotNames, RootsAreOfTheGraph
  <2>3. image.facts = (RootsOf(c.roots) \cup ClosureOf(c)) \cup layers
    BY DEF Fragment
  <2> HIDE DEF layers, G, image
  <2>4. QED
    BY <2>1, <2>2, <2>3, NamesOfBoth
<1>4. b = GraphBatches(c) \o <<{image}, outs>> \o CommitBatch(c, image.id)
  BY <1>1
<1>5. image.id[1] = "image"
  BY DEF Fragment
<1> HIDE DEF image, outs, G
<1>6. Plan(<<{image}, outs>>, {} \cup Ids(G), F1)
  BY <1>2, <1>3, PlanOfTwo
<1>7. Plan(GraphBatches(c) \o <<{image}, outs>>, {}, F2)
  BY <1>6, GraphPlan, PlanOfBoth DEF G
<1>8. image.id \in Ids(F2)
  BY DEF Ids
<1>9. /\ Plan(CommitBatch(c, image.id), {} \cup Ids(F2), Commits(c, image.id))
      /\ \A f \in Commits(c, image.id) : f.id[1] = "commit"
  BY <1>8, CommitPlan
<1>10. Plan(b, {}, F)
  BY <1>4, <1>7, <1>9, PlanOfBoth
<1>11. BuildClosure(Graph(c.roots)) \subseteq Ids(F)
  BY GraphIds DEF Ids, G
<1>12. Outs(F) = outs
  <2>1. \A f \in G : f.id[1] # "out"
    BY GraphIds DEF G
  <2>2. QED
    BY <1>2, <1>5, <1>9, <2>1 DEF Outs
<1>13. outs # {} => {f.id[2] : f \in outs} = {Deriver[o] : o \in paths} \ {Absent}
  BY RuntimeOf DEF outs
<1>14. QED
  BY <1>10, <1>11, <1>12, <1>13 DEF Whole

LEMMA BatchesPlan ==
  ASSUME NEW c \in Commands, NEW paths, NEW b \in Batches(c, paths)
  PROVE  \E F : Plan(b, {}, F) /\ Whole(c, paths, F)
<1>1. c.name \in {"flake", "nixos", "image", "drv", "attach-outputs", "nixpkgs-eval", "k8s"}
  BY ExtractionAssumption
<1>2. CASE c.name = "flake"
  <2>1. b \in FlakeBatches(c)
    BY <1>2 DEF Batches
  <2>2. QED
    BY <1>2, <2>1, FlakePlan
<1>3. CASE c.name = "nixos"
  <2>1. b \in NixosBatches(c, paths)
    BY <1>3 DEF Batches
  <2>2. QED
    BY <1>3, <2>1, NixosPlan
<1>4. CASE c.name = "image"
  <2>1. b \in ImageBatches(c, paths)
    BY <1>4 DEF Batches
  <2>2. QED
    BY <1>4, <2>1, ImagePlan
<1>5. CASE c.name = "drv"
  <2>1. b = GraphBatches(c)
    BY <1>5 DEF Batches
  <2>2. QED
    BY <1>5, <2>1, DrvPlan
<1>6. CASE c.name = "attach-outputs"
  <2>1. b = AttachBatches(c)
    BY <1>6 DEF Batches
  <2>2. QED
    BY <1>6, <2>1, AttachPlan
<1>7. CASE c.name = "nixpkgs-eval"
  <2>1. b = NixpkgsBatches(c)
    BY <1>7 DEF Batches
  <2>2. QED
    BY <1>7, <2>1, NixpkgsPlan
<1>8. CASE c.name = "k8s"
  <2>1. b = K8sBatches(c)
    BY <1>8 DEF Batches
  <2>2. QED
    BY <1>8, <2>1, K8sPlan
<1>9. QED
  BY <1>1, <1>2, <1>3, <1>4, <1>5, <1>6, <1>7, <1>8

-----------------------------------------------------------------------------
(***************************************************************************)
(* The runtime closure.                                                    *)
(***************************************************************************)
\* Between two rounds: what has been found is of the closure, and what it
\* refers to is found or will be looked up.
WalkInv(p) ==
  LET roots == SetsOutFrom(cmd[p])
  IN /\ walked[p] \subseteq RuntimeClosure(roots)
     /\ frontier[p] \cap Valid \subseteq RuntimeClosure(roots)
     /\ roots \cap Valid \subseteq walked[p] \cup frontier[p]
     /\ \A o \in walked[p] : References[o] \cap Valid \subseteq walked[p] \cup frontier[p]

LEMMA ClosureIsClosed ==
  ASSUME NEW roots
  PROVE  /\ roots \cap Valid \subseteq RuntimeClosure(roots)
         /\ \A o \in RuntimeClosure(roots) : References[o] \cap Valid \subseteq RuntimeClosure(roots)
         /\ RuntimeClosure(roots) \subseteq Valid
<1> DEFINE Closed(S) == roots \cap Valid \subseteq S
                          /\ \A o \in S : References[o] \cap Valid \subseteq S
<1>1. \A o : o \in RuntimeClosure(roots) <=> o \in Valid /\ \A S \in SUBSET Valid : Closed(S) => o \in S
  BY DEF RuntimeClosure
<1>2. ASSUME NEW o \in RuntimeClosure(roots), NEW r \in References[o] \cap Valid
      PROVE  r \in RuntimeClosure(roots)
  <2>1. ASSUME NEW S \in SUBSET Valid, Closed(S) PROVE r \in S
    <3>1. o \in S
      BY <1>1, <2>1
    <3>2. QED
      BY <2>1, <3>1
  <2> HIDE DEF Closed
  <2>2. QED
    BY <1>1, <2>1
<1>3. ASSUME NEW r \in roots \cap Valid PROVE r \in RuntimeClosure(roots)
  BY <1>1
<1>4. RuntimeClosure(roots) \subseteq Valid
  BY <1>1
<1>5. QED
  BY <1>2, <1>3, <1>4

LEMMA ClosureIsLeast ==
  ASSUME NEW roots, NEW S \in SUBSET Valid, roots \cap Valid \subseteq S,
         \A o \in S : References[o] \cap Valid \subseteq S
  PROVE  RuntimeClosure(roots) \subseteq S
BY DEF RuntimeClosure

LEMMA WalkEnds ==
  ASSUME NEW p, WalkInv(p), frontier[p] = {}
  PROVE  walked[p] = RuntimeClosure(SetsOutFrom(cmd[p]))
<1> DEFINE roots == SetsOutFrom(cmd[p])
<1>1. walked[p] \in SUBSET Valid
  BY ClosureIsClosed DEF WalkInv
<1>2. roots \cap Valid \subseteq walked[p] /\ \A o \in walked[p] : References[o] \cap Valid \subseteq walked[p]
  BY DEF WalkInv
<1> HIDE DEF roots
<1>3. RuntimeClosure(roots) \subseteq walked[p]
  BY <1>1, <1>2, ClosureIsLeast
<1>4. QED
  BY <1>3 DEF WalkInv, roots

-----------------------------------------------------------------------------
(***************************************************************************)
(* The invariant.                                                          *)
(***************************************************************************)
ExtractTypes ==
  /\ DOMAIN cmd = Procs /\ DOMAIN frontier = Procs /\ DOMAIN walked = Procs
  /\ DOMAIN batches = Procs /\ DOMAIN wrote = Procs /\ DOMAIN pc = Procs
  /\ \A p \in Procs : pc[p] \in {"idle", "extract", "write", "done", "failed"}
  /\ \A p \in Procs : \E n \in Nat : DOMAIN batches[p] = 1 .. n

StoreIsWhole == \A id \in DOMAIN store : NamedBy(store[id]) \subseteq DOMAIN store

WriterInv(p) ==
  /\ Ordered(batches[p], DOMAIN store)
  /\ Ids(wrote[p]) \subseteq DOMAIN store
  /\ pc[p] \notin {"write", "done"} => batches[p] = <<>> /\ wrote[p] = {}
  /\ pc[p] = "idle" => frontier[p] = {} /\ walked[p] = {}
  /\ pc[p] \in {"extract", "write", "done"} => cmd[p] \in Commands /\ WalkInv(p)
  /\ pc[p] \in {"write", "done"} =>
       frontier[p] = {} /\ Whole(cmd[p], walked[p], wrote[p] \cup AllOf(batches[p]))
  /\ pc[p] = "done" => AllOf(batches[p]) = {}

ExtractInv == ExtractTypes /\ StoreIsWhole /\ \A p \in Procs : WriterInv(p)

LEMMA NoBatches == Ordered(<<>>, DOMAIN store) /\ AllOf(<<>>) = {} /\ Ids({}) = {}
<1>1. DOMAIN <<>> = {}
  OBVIOUS
<1>2. QED
  BY <1>1 DEF Ordered, AllOf, Ids

LEMMA ExtractInvInit == ExtractInit => ExtractInv
<1> SUFFICES ASSUME ExtractInit PROVE ExtractInv
  OBVIOUS
<1>1. ExtractTypes
  <2>1. DOMAIN <<>> = 1 .. 0
    OBVIOUS
  <2>2. \A p \in Procs : DOMAIN batches[p] = 1 .. 0
    BY <2>1 DEF ExtractInit
  <2>3. \A p \in Procs : \E n \in Nat : DOMAIN batches[p] = 1 .. n
    BY <2>2
  <2>4. QED
    BY <2>3 DEF ExtractInit, ExtractTypes
<1>2. StoreIsWhole
  <2>1. DOMAIN store = {}
    BY DEF ExtractInit
  <2>2. QED
    BY <2>1 DEF StoreIsWhole
<1>3. ASSUME NEW p \in Procs PROVE WriterInv(p)
  BY NoBatches DEF ExtractInit, WriterInv
<1>4. QED
  BY <1>1, <1>2, <1>3 DEF ExtractInv

\* Another process's step: the store only grows.
LEMMA WriterFrame ==
  ASSUME NEW p, WriterInv(p), DOMAIN store \subseteq DOMAIN store',
         UNCHANGED <<cmd[p], frontier[p], walked[p], batches[p], wrote[p], pc[p]>>
  PROVE  WriterInv(p)'
<1>1. Ordered(batches[p], DOMAIN store)'
  BY DEF WriterInv, Ordered, Before
<1>2. WalkInv(p) => WalkInv(p)'
  BY DEF WalkInv
<1>3. Ids(wrote[p])' \subseteq DOMAIN store'
  BY DEF WriterInv, Ids
<1>4. AllOf(batches[p])' = AllOf(batches[p])
  BY DEF AllOf
<1>5. Whole(cmd[p], walked[p], wrote[p] \cup AllOf(batches[p]))
        => Whole(cmd[p], walked[p], wrote[p] \cup AllOf(batches[p]))'
  BY <1>4 DEF Whole, Outs, Ids
<1> HIDE DEF WriterInv
<1>6. QED
  BY <1>1, <1>2, <1>3, <1>4, <1>5 DEF WriterInv

Mine(p) ==
  \A q \in Procs \ {p} :
    UNCHANGED <<cmd[q], frontier[q], walked[q], batches[q], wrote[q], pc[q]>>

\* What a process writes next.
LEMMA WriteStep ==
  ASSUME ExtractInv, NEW p \in Procs, Write(p)
  PROVE  ExtractInv'
<1>1. PICK i \in DOMAIN batches[p] :
        /\ batches[p][i] # {} /\ \A j \in 1 .. (i - 1) : batches[p][j] = {}
        /\ LET f == CHOOSE f \in batches[p][i] : TRUE
           IN /\ store' = StoreWith(f)
              /\ batches' = [batches EXCEPT ![p][i] = @ \ {f}]
              /\ wrote' = [wrote EXCEPT ![p] = @ \cup {f}]
  BY DEF Write
<1> DEFINE f == CHOOSE f \in batches[p][i] : TRUE
<1>2. f \in batches[p][i]
  BY <1>1
<1>3. pc[p] = "write" /\ UNCHANGED <<cmd, frontier, walked, pc>>
  BY DEF Write
<1>4. /\ store' = StoreWith(f)
      /\ batches' = [batches EXCEPT ![p][i] = @ \ {f}]
      /\ wrote' = [wrote EXCEPT ![p] = @ \cup {f}]
  BY <1>1
<1> HIDE DEF f
<1>5. /\ DOMAIN store' = DOMAIN store \cup {f.id}
      /\ \A id \in DOMAIN store' : IF id \in DOMAIN store THEN store'[id] = store[id]
                                   ELSE id = f.id /\ store'[id] = f.facts
  BY <1>4 DEF StoreWith
<1>6. PICK n \in Nat : DOMAIN batches[p] = 1 .. n
  BY DEF ExtractInv, ExtractTypes
<1>7. /\ DOMAIN batches'[p] = 1 .. n
      /\ \A j \in 1 .. n : batches'[p][j] = IF j = i THEN batches[p][i] \ {f} ELSE batches[p][j]
      /\ wrote'[p] = wrote[p] \cup {f}
  BY <1>4, <1>6 DEF ExtractInv, ExtractTypes
<1>8. Mine(p)
  BY <1>3, <1>4 DEF Mine, ExtractInv, ExtractTypes
<1>9. WriterInv(p)
  BY DEF ExtractInv
<1>10. NamedBy(f.facts) \subseteq DOMAIN store
  <2>1. Before(batches[p], i) = {}
    BY <1>1 DEF Before, Ids
  <2>2. QED
    BY <1>2, <1>9, <2>1 DEF WriterInv, Ordered
<1>11. StoreIsWhole'
  BY <1>5, <1>10 DEF StoreIsWhole, ExtractInv
<1>12. Ordered(batches[p], DOMAIN store)'
  <2>1. ASSUME NEW k \in 1 .. n, NEW g \in batches'[p][k], NEW id \in NamedBy(g.facts),
               id \notin DOMAIN store'
        PROVE  id \in Before(batches'[p], k)
    <3>1. g \in batches[p][k]
      BY <1>7, <2>1
    <3>2. id \notin DOMAIN store /\ id # f.id
      BY <1>5, <2>1
    <3>3. id \in Before(batches[p], k)
      BY <1>6, <1>9, <2>1, <3>1, <3>2 DEF WriterInv, Ordered
    <3>4. PICK j \in 1 .. (k - 1) : id \in Ids(batches[p][j])
      BY <3>3 DEF Before
    <3>5. PICK h \in batches[p][j] : id = h.id
      BY <3>4 DEF Ids
    <3>6. h \in batches'[p][j]
      BY <1>6, <1>7, <2>1, <3>2, <3>4, <3>5
    <3>7. id \in Ids(batches'[p][j])
      BY <3>5, <3>6 DEF Ids
    <3>8. QED
      BY <3>4, <3>7 DEF Before
  <2>2. Ordered(batches'[p], DOMAIN store')
    BY <1>7, <2>1 DEF Ordered
  <2>3. QED
    BY <2>2 DEF Ordered, Before
<1>13. Ids(wrote'[p]) \subseteq DOMAIN store'
  BY <1>5, <1>7, <1>9 DEF WriterInv, Ids
<1>14. wrote'[p] \cup AllOf(batches'[p]) = wrote[p] \cup AllOf(batches[p])
  <2>1. AllOf(batches'[p]) \subseteq AllOf(batches[p])
    BY <1>6, <1>7 DEF AllOf
  <2>2. AllOf(batches[p]) \subseteq AllOf(batches'[p]) \cup {f}
    BY <1>6, <1>7 DEF AllOf
  <2>3. f \in AllOf(batches[p])
    BY <1>2, <1>6 DEF AllOf
  <2>4. QED
    BY <1>7, <2>1, <2>2, <2>3
<1>15. WriterInv(p)'
  <2>1. WalkInv(p)'
    BY <1>3, <1>9 DEF WriterInv, WalkInv
  <2>2. Whole(cmd[p], walked[p], wrote'[p] \cup AllOf(batches'[p]))
    BY <1>3, <1>9, <1>14 DEF WriterInv
  <2>3. Whole(cmd[p], walked[p], wrote[p] \cup AllOf(batches[p]))'
    BY <1>3, <2>2 DEF Whole, AllOf, Outs, Ids
  <2>4. Ids(wrote[p])' \subseteq DOMAIN store'
    BY <1>13 DEF Ids
  <2>5. QED
    BY <1>3, <1>9, <1>12, <2>1, <2>3, <2>4 DEF WriterInv
<1>16. ASSUME NEW q \in Procs, q # p PROVE WriterInv(q)'
  <2>1. WriterInv(q)
    BY DEF ExtractInv
  <2>2. QED
    BY <1>5, <1>8, <1>16, <2>1, WriterFrame DEF Mine
<1>17. ExtractTypes'
  BY <1>3, <1>4, <1>6, <1>7, <1>8 DEF Mine, ExtractInv, ExtractTypes
<1>18. QED
  BY <1>11, <1>15, <1>16, <1>17 DEF ExtractInv

LEMMA WalkStep ==
  ASSUME NEW p \in Procs, WalkInv(p), ExtractTypes, Walk(p)
  PROVE  WalkInv(p)'
<1> DEFINE roots == SetsOutFrom(cmd[p])
           paths == frontier[p] \cap Valid
           next == UNION {References[o] : o \in paths}
<1>1. /\ walked'[p] = walked[p] \cup paths
      /\ frontier'[p] = next \ (walked[p] \cup paths)
      /\ cmd' = cmd
  BY DEF Walk, ExtractTypes
<1>2. paths \subseteq RuntimeClosure(roots)
  BY DEF WalkInv
<1>3. \A o \in paths : References[o] \subseteq next
  OBVIOUS
<1>4. next \cap Valid \subseteq RuntimeClosure(roots)
  BY <1>2, ClosureIsClosed
<1>5. roots \cap Valid \subseteq walked[p] \cup paths
  BY DEF WalkInv
<1>6. \A o \in walked[p] : References[o] \cap Valid \subseteq walked[p] \cup paths
  BY DEF WalkInv
<1>7. walked[p] \subseteq RuntimeClosure(roots)
  BY DEF WalkInv
<1> HIDE DEF roots, paths, next
<1>8. /\ walked'[p] \subseteq RuntimeClosure(roots)
      /\ frontier'[p] \cap Valid \subseteq RuntimeClosure(roots)
      /\ roots \cap Valid \subseteq walked'[p] \cup frontier'[p]
  BY <1>1, <1>2, <1>4, <1>5, <1>7
<1>9. \A o \in walked'[p] : References[o] \cap Valid \subseteq walked'[p] \cup frontier'[p]
  BY <1>1, <1>3, <1>6
<1>10. QED
  BY <1>1, <1>8, <1>9 DEF WalkInv, roots

\* What a step leaves alone stays as it was.
LEMMA PlansStay ==
  ASSUME NEW p, UNCHANGED <<store, batches, wrote>>, WriterInv(p)
  PROVE  /\ Ordered(batches[p], DOMAIN store)'
         /\ Ids(wrote[p])' \subseteq DOMAIN store'
<1>1. Ordered(batches[p], DOMAIN store) /\ Ids(wrote[p]) \subseteq DOMAIN store
  BY DEF WriterInv
<1>2. batches'[p] = batches[p] /\ wrote'[p] = wrote[p] /\ store' = store
  OBVIOUS
<1>3. Ordered(batches[p], DOMAIN store)'
  BY <1>1, <1>2 DEF Ordered, Before, Ids
<1>4. Ids(wrote[p])' \subseteq DOMAIN store'
  BY <1>1, <1>2 DEF Ids
<1>5. QED
  BY <1>3, <1>4

LEMMA WholesStay ==
  ASSUME NEW p, UNCHANGED <<cmd, walked, batches, wrote>>,
         Whole(cmd[p], walked[p], wrote[p] \cup AllOf(batches[p]))
  PROVE  Whole(cmd[p], walked[p], wrote[p] \cup AllOf(batches[p]))'
<1>1. /\ cmd'[p] = cmd[p] /\ walked'[p] = walked[p]
      /\ batches'[p] = batches[p] /\ wrote'[p] = wrote[p]
  OBVIOUS
<1>2. AllOf(batches[p])' = AllOf(batches[p])
  BY <1>1 DEF AllOf
<1>3. QED
  BY <1>1, <1>2 DEF Whole, Outs, Ids

LEMMA ExtractInvStep == ExtractInv /\ [ExtractNext]_extractVars => ExtractInv'
<1> SUFFICES ASSUME ExtractInv, [ExtractNext]_extractVars PROVE ExtractInv'
  OBVIOUS
<1>1. ExtractTypes /\ StoreIsWhole /\ \A p \in Procs : WriterInv(p)
  BY DEF ExtractInv
<1>2. ASSUME NEW p \in Procs, store' = store, Mine(p), WriterInv(p)', ExtractTypes'
      PROVE  ExtractInv'
  <2>1. \A q \in Procs : q # p => WriterInv(q)'
    BY <1>1, <1>2, WriterFrame DEF Mine
  <2>2. StoreIsWhole'
    BY <1>1, <1>2 DEF StoreIsWhole
  <2>3. QED
    BY <1>2, <2>1, <2>2 DEF ExtractInv
<1>3. \E n \in Nat : DOMAIN <<>> = 1 .. n
  <2>1. DOMAIN <<>> = 1 .. 0
    OBVIOUS
  <2>2. QED
    BY <2>1
<1>4. ASSUME NEW p \in Procs, NEW c \in Commands, Extract(p, c) PROVE ExtractInv'
  <2>1. /\ pc[p] = "idle" /\ cmd'[p] = c /\ frontier'[p] = SetsOutFrom(c) /\ pc'[p] = "extract"
        /\ UNCHANGED <<store, walked, batches, wrote>>
    BY <1>1, <1>4 DEF Extract, ExtractTypes
  <2>2. Mine(p) /\ ExtractTypes'
    BY <1>1, <1>4 DEF Extract, ExtractTypes, Mine
  <2>3. batches[p] = <<>> /\ wrote[p] = {} /\ walked[p] = {}
    BY <1>1, <2>1 DEF WriterInv
  <2>4. WalkInv(p)'
    BY <2>1, <2>3, ClosureIsClosed DEF WalkInv
  <2>5. Ordered(batches[p], DOMAIN store)' /\ Ids(wrote[p])' \subseteq DOMAIN store'
    BY <1>1, <2>1, PlansStay
  <2>6. WriterInv(p)'
    BY <2>1, <2>3, <2>4, <2>5 DEF WriterInv
  <2>7. QED
    BY <1>2, <2>1, <2>2, <2>6
<1>5. ASSUME NEW p \in Procs, NEW c \in Commands, ExtractFails(p, c) PROVE ExtractInv'
  <2>1. /\ pc[p] = "idle" /\ pc'[p] = "failed"
        /\ UNCHANGED <<store, frontier, walked, batches, wrote>>
    BY <1>1, <1>5 DEF ExtractFails, ExtractTypes
  <2>2. Mine(p) /\ ExtractTypes'
    BY <1>1, <1>5 DEF ExtractFails, ExtractTypes, Mine
  <2>3. Ordered(batches[p], DOMAIN store)' /\ Ids(wrote[p])' \subseteq DOMAIN store'
    BY <1>1, <2>1, PlansStay
  <2>4. WriterInv(p)'
    BY <1>1, <2>1, <2>3 DEF WriterInv
  <2>5. QED
    BY <1>2, <2>1, <2>2, <2>4
<1>6. ASSUME NEW p \in Procs, Walk(p) PROVE ExtractInv'
  <2>1. pc[p] = "extract" /\ UNCHANGED <<store, cmd, batches, wrote, pc>>
    BY <1>6 DEF Walk
  <2>2. Mine(p) /\ ExtractTypes'
    BY <1>1, <1>6 DEF Walk, ExtractTypes, Mine
  <2>3. WalkInv(p)'
    BY <1>1, <1>6, <2>1, WalkStep DEF WriterInv
  <2>4. Ordered(batches[p], DOMAIN store)' /\ Ids(wrote[p])' \subseteq DOMAIN store'
    BY <1>1, <2>1, PlansStay
  <2>5. WriterInv(p)'
    BY <1>1, <2>1, <2>3, <2>4 DEF WriterInv
  <2>6. QED
    BY <1>2, <2>1, <2>2, <2>5
<1>7. ASSUME NEW p \in Procs, Extracted(p) PROVE ExtractInv'
  <2>1. /\ pc[p] = "extract" /\ pc'[p] = "write" /\ frontier[p] = {}
        /\ UNCHANGED <<store, cmd, frontier, walked, wrote>>
    BY <1>1, <1>7 DEF Extracted, ExtractTypes
  <2>2. PICK b \in Batches(cmd[p], walked[p]) : batches' = [batches EXCEPT ![p] = b]
    BY <1>7 DEF Extracted
  <2>3. WriterInv(p) /\ cmd[p] \in Commands /\ WalkInv(p) /\ wrote[p] = {}
    BY <1>1, <2>1 DEF WriterInv
  <2>4. PICK F : Plan(b, {}, F) /\ Whole(cmd[p], walked[p], F)
    BY <2>2, <2>3, BatchesPlan
  <2>5. \E n \in Nat : DOMAIN b = 1 .. n
    <3>1. PICK T : b \in Seq(T)
      BY <2>4 DEF Plan
    <3>2. QED
      BY <3>1
  <2>6. batches'[p] = b /\ Mine(p)
    BY <1>1, <1>7, <2>1, <2>2 DEF Extracted, ExtractTypes, Mine
  <2>7. ExtractTypes'
    BY <1>1, <1>7, <2>1, <2>2, <2>5, <2>6 DEF Extracted, ExtractTypes, Mine
  <2>8. Ordered(b, DOMAIN store) /\ AllOf(b) = F
    BY <2>4 DEF Plan, Ordered
  <2>9. WalkInv(p)'
    BY <2>1, <2>3 DEF WalkInv
  <2>10. Whole(cmd[p], walked[p], wrote[p] \cup AllOf(b))
    BY <2>3, <2>4, <2>8
  <2>11. Whole(cmd[p], walked[p], wrote[p] \cup AllOf(batches[p]))'
    BY <2>1, <2>6, <2>10 DEF Whole, AllOf, Outs, Ids
  <2>12. Ordered(batches[p], DOMAIN store)'
    BY <2>1, <2>6, <2>8 DEF Ordered, Before
  <2>13. Ids(wrote[p])' \subseteq DOMAIN store'
    BY <2>1, <2>3 DEF Ids
  <2>14. WriterInv(p)'
    BY <2>1, <2>3, <2>9, <2>11, <2>12, <2>13 DEF WriterInv
  <2>15. QED
    BY <1>2, <2>1, <2>6, <2>7, <2>14
<1>8. ASSUME NEW p \in Procs, Write(p) PROVE ExtractInv'
  BY <1>8, WriteStep
<1>9. ASSUME NEW p \in Procs, Done(p) PROVE ExtractInv'
  <2>1. /\ pc[p] = "write" /\ pc'[p] = "done" /\ \A i \in DOMAIN batches[p] : batches[p][i] = {}
        /\ UNCHANGED <<store, cmd, frontier, walked, batches, wrote>>
    BY <1>1, <1>9 DEF Done, ExtractTypes
  <2>2. Mine(p) /\ ExtractTypes'
    BY <1>1, <1>9 DEF Done, ExtractTypes, Mine
  <2>3. WalkInv(p)' /\ AllOf(batches[p]) = {}
    <3>1. WalkInv(p)
      BY <1>1, <2>1 DEF WriterInv
    <3>2. WalkInv(p)'
      BY <2>1, <3>1 DEF WalkInv
    <3>3. AllOf(batches[p]) = {}
      BY <2>1 DEF AllOf
    <3>4. QED
      BY <3>2, <3>3
  <2>4. Whole(cmd[p], walked[p], wrote[p] \cup AllOf(batches[p]))'
    BY <1>1, <2>1, WholesStay DEF WriterInv
  <2>5. AllOf(batches[p])' = {}
    BY <2>1, <2>3 DEF AllOf
  <2>6. Ordered(batches[p], DOMAIN store)' /\ Ids(wrote[p])' \subseteq DOMAIN store'
    BY <1>1, <2>1, PlansStay
  <2>7. WriterInv(p)'
    BY <1>1, <2>1, <2>3, <2>4, <2>5, <2>6 DEF WriterInv
  <2>8. QED
    BY <1>2, <2>1, <2>2, <2>7
<1>10. ASSUME NEW p \in Procs, Dies(p) PROVE ExtractInv'
  <2>1. /\ pc'[p] = "idle" /\ frontier'[p] = {} /\ walked'[p] = {} /\ batches'[p] = <<>>
        /\ wrote'[p] = {} /\ store' = store
    BY <1>1, <1>10 DEF Dies, ExtractTypes
  <2>2. Mine(p)
    BY <1>1, <1>10 DEF Dies, ExtractTypes, Mine
  <2>3. ExtractTypes'
    BY <1>1, <1>3, <1>10, <2>1, <2>2 DEF Dies, ExtractTypes, Mine
  <2>4. Ordered(batches'[p], DOMAIN store') /\ Ids(wrote'[p]) = {}
    BY <2>1, NoBatches
  <2>5. Ordered(batches[p], DOMAIN store)' /\ Ids(wrote[p])' = {}
    BY <2>4 DEF Ordered, Before, Ids
  <2>6. WriterInv(p)'
    BY <2>1, <2>5 DEF WriterInv
  <2>7. QED
    BY <1>2, <2>1, <2>2, <2>3, <2>6
<1>11. CASE UNCHANGED extractVars
  <2>1. ASSUME NEW p \in Procs PROVE WriterInv(p)'
    BY <1>1, <1>11, WriterFrame DEF extractVars
  <2>2. ExtractTypes' /\ StoreIsWhole'
    BY <1>1, <1>11 DEF extractVars, ExtractTypes, StoreIsWhole
  <2>3. QED
    BY <2>1, <2>2 DEF ExtractInv
<1>12. QED
  BY <1>4, <1>5, <1>6, <1>7, <1>8, <1>9, <1>10, <1>11 DEF ExtractNext

\* The derivations, sources and values a fragment on disk names, the snapshot
\* of a commit and the nodes beside an observed snapshot are on disk:
\* write_all publishes what a snapshot names before the snapshot, so this
\* holds between any two writes of any extractions, and after their deaths.
\* Outputs a fragment names by path alone are not among what is claimed.
THEOREM NamedIsThere == ExtractSpec => []NamedIsWritten
<1>1. ExtractInv => NamedIsWritten
  <2> SUFFICES ASSUME StoreIsWhole, NEW id \in DOMAIN store, NEW fact \in store[id]
               PROVE  /\ KindNamed(fact) # Absent => <<KindNamed(fact), fact[2]>> \in DOMAIN store
                      /\ fact[1] \in {"snapshot", "observedAt", "hasFragment"}
                           => fact[2] \in DOMAIN store
    BY DEF ExtractInv, NamedIsWritten
  <2>1. KindNamed(fact) # Absent => <<KindNamed(fact), fact[2]>> \in NamedBy(store[id])
    BY DEF NamedBy
  <2>2. fact[1] \in {"snapshot", "observedAt", "hasFragment"} => fact[2] \in NamedBy(store[id])
    BY DEF NamedBy
  <2>3. QED
    BY <2>1, <2>2 DEF StoreIsWhole
<1>2. QED
  BY <1>1, ExtractInvInit, ExtractInvStep, PTL DEF ExtractSpec

\* An extraction that ends has left every derivation and every source of its
\* build closure on disk, whatever its fragments met there; and the outputs
\* it recorded are those of the runtime closure, as Nix defines it
\* (extract_runtime_closure walks it round by round).
THEOREM ClosuresAreLeft == ExtractSpec => []LeavesTheClosure
<1>1. ExtractInv => LeavesTheClosure
  <2> SUFFICES ASSUME ExtractInv, NEW p \in Procs, pc[p] = "done"
               PROVE  LET outs == {f \in wrote[p] : f.id[1] = "out"}
                      IN /\ cmd[p].name # "attach-outputs" =>
                              BuildClosure(Graph(cmd[p].roots)) \subseteq DOMAIN store
                         /\ cmd[p].name \in {"nixos", "image"} /\ outs # {} =>
                              {f.id[2] : f \in outs}
                                = {Deriver[o] : o \in RuntimeClosure(SetsOutFrom(cmd[p]))}
                                    \ {Absent}
    BY DEF LeavesTheClosure
  <2>1. /\ Whole(cmd[p], walked[p], wrote[p]) /\ Ids(wrote[p]) \subseteq DOMAIN store
        /\ WalkInv(p) /\ frontier[p] = {}
    <3>1. WriterInv(p)
      BY DEF ExtractInv
    <3>2. wrote[p] \cup AllOf(batches[p]) = wrote[p]
      BY <3>1 DEF WriterInv
    <3>3. QED
      BY <3>1, <3>2 DEF WriterInv
  <2>2. walked[p] = RuntimeClosure(SetsOutFrom(cmd[p]))
    BY <2>1, WalkEnds
  <2>3. QED
    BY <2>1, <2>2 DEF Whole, Outs
<1>2. QED
  BY <1>1, ExtractInvInit, ExtractInvStep, PTL DEF ExtractSpec
-----------------------------------------------------------------------------
(***************************************************************************)
(* The invariant.                                                          *)
(***************************************************************************)
ListTypes ==
  /\ todo \in Seq(Range(todo)) /\ "" \notin Range(todo)
  /\ objects \in Seq(ever)
  /\ cluster \subseteq ever /\ IsFiniteSet(cluster)

\* An object that was there all the time has been read, or is there and its
\* kind is still to list, or its kind could not be listed.
Covered(o) ==
  \/ o \in Range(objects) /\ o.kind # ""
  \/ o \in cluster /\ o.kind \in Range(todo)
  \/ o.kind \in failed \cup {"Pod"}

ListInv ==
  /\ ListTypes
  /\ \A o \in lasting : Covered(o)
  /\ SnapshotBuilt => todo = <<>> /\ snap = SnapshotOf(objects, pods, failed)

-----------------------------------------------------------------------------
(***************************************************************************)
(* Sequences.                                                              *)
(***************************************************************************)
LEMMA RangeOfConcat ==
  ASSUME NEW S, NEW a \in Seq(S), NEW b \in Seq(S)
  PROVE  a \o b \in Seq(S) /\ Range(a \o b) = Range(a) \cup Range(b)
<1>1. /\ a \o b \in Seq(S) /\ Len(a \o b) = Len(a) + Len(b)
      /\ Len(a) \in Nat /\ Len(b) \in Nat
      /\ DOMAIN a = 1 .. Len(a) /\ DOMAIN b = 1 .. Len(b)
      /\ DOMAIN (a \o b) = 1 .. (Len(a) + Len(b))
  OBVIOUS
<1>2. \A i \in 1 .. (Len(a) + Len(b)) :
        (a \o b)[i] = IF i <= Len(a) THEN a[i] ELSE b[i - Len(a)]
  OBVIOUS
<1>3. Range(a \o b) \subseteq Range(a) \cup Range(b)
  <2>1. ASSUME NEW i \in 1 .. (Len(a) + Len(b)) PROVE (a \o b)[i] \in Range(a) \cup Range(b)
    <3>1. CASE i <= Len(a)
      BY <1>1, <1>2, <3>1 DEF Range
    <3>2. CASE ~ (i <= Len(a))
      <4>1. i - Len(a) \in 1 .. Len(b)
        BY <1>1, <3>2
      <4>2. QED
        BY <1>1, <1>2, <3>2, <4>1 DEF Range
    <3>3. QED
      BY <3>1, <3>2
  <2>2. QED
    BY <1>1, <2>1 DEF Range
<1>4. Range(a) \subseteq Range(a \o b)
  <2>1. \A i \in 1 .. Len(a) : i \in 1 .. (Len(a) + Len(b)) /\ (a \o b)[i] = a[i]
    BY <1>1, <1>2
  <2>2. QED
    BY <1>1, <2>1 DEF Range
<1>5. Range(b) \subseteq Range(a \o b)
  <2>1. ASSUME NEW i \in 1 .. Len(b)
        PROVE  Len(a) + i \in 1 .. (Len(a) + Len(b)) /\ (a \o b)[Len(a) + i] = b[i]
    BY <1>1, <1>2
  <2>2. QED
    BY <1>1, <2>1 DEF Range
<1>6. QED
  BY <1>1, <1>3, <1>4, <1>5

LEMMA RangeOfTail ==
  ASSUME NEW S, NEW a \in Seq(S), a # <<>>
  PROVE  /\ Tail(a) \in Seq(S) /\ Head(a) \in Range(a)
         /\ Range(a) = {Head(a)} \cup Range(Tail(a))
<1>1. /\ Tail(a) \in Seq(S) /\ Head(a) = a[1] /\ Len(a) \in Nat \ {0}
      /\ DOMAIN a = 1 .. Len(a) /\ DOMAIN Tail(a) = 1 .. (Len(a) - 1)
      /\ \A i \in 1 .. (Len(a) - 1) : Tail(a)[i] = a[i + 1]
  OBVIOUS
<1>2. Head(a) \in Range(a)
  BY <1>1 DEF Range
<1>3. Range(Tail(a)) \subseteq Range(a)
  BY <1>1 DEF Range
<1>4. ASSUME NEW i \in 1 .. Len(a) PROVE a[i] = Head(a) \/ a[i] \in Range(Tail(a))
  <2>1. CASE i = 1
    BY <1>1, <2>1
  <2>2. CASE i # 1
    <3>1. i - 1 \in 1 .. (Len(a) - 1) /\ Tail(a)[i - 1] = a[i]
      BY <1>1, <2>2
    <3>2. QED
      BY <1>1, <3>1 DEF Range
  <2>3. QED
    BY <2>1, <2>2
<1>5. Range(a) \subseteq {Head(a)} \cup Range(Tail(a))
  BY <1>1, <1>4 DEF Range
<1>6. QED
  BY <1>1, <1>2, <1>3, <1>5

LEMMA TailOwnRange ==
  ASSUME NEW S, NEW a \in Seq(S), a # <<>>
  PROVE  Tail(a) \in Seq(Range(Tail(a)))
<1> DEFINE b == Tail(a)
<1>1. b \in Seq(S)
  OBVIOUS
<1> HIDE DEF b
<1>2. b \in [1 .. Len(b) -> Range(b)] /\ Len(b) \in Nat
  BY <1>1 DEF Range
<1>3. b \in Seq(Range(b))
  BY <1>2, SeqDef
<1>4. QED
  BY <1>3 DEF b

LEMMA OrderIsSeq ==
  ASSUME NEW S, IsFiniteSet(S), NEW seq \in Orders(S)
  PROVE  seq \in Seq(S) /\ Range(seq) = S
  BY FS_CardinalityType DEF Orders

-----------------------------------------------------------------------------
(***************************************************************************)
(* The listing.                                                            *)
(***************************************************************************)
LEMMA ListInit == K8sInit => ListInv
<1> SUFFICES ASSUME K8sInit PROVE ListInv
  OBVIOUS
<1>1. /\ todo = Listed /\ objects = <<>> /\ ever = cluster /\ lasting = cluster
      /\ ~ SnapshotBuilt
  BY DEF K8sInit, SnapshotBuilt
<1>2. IsFiniteSet(cluster) /\ \A o \in cluster : o.kind \in Range(Listed)
  BY K8sAssumption, FS_EmptySet DEF K8sInit
<1>3. ListTypes
  <2>1. objects \in Seq(ever)
    BY <1>1
  <2>2. todo \in Seq(Range(todo)) /\ "" \notin Range(todo)
    BY <1>1, K8sAssumption
  <2>3. QED
    BY <1>1, <1>2, <2>1, <2>2 DEF ListTypes
<1>4. QED
  BY <1>1, <1>2, <1>3 DEF ListInv, Covered

LEMMA ListStep == ListInv /\ [K8sNext]_k8sVars => ListInv'
<1> SUFFICES ASSUME ListInv, [K8sNext]_k8sVars PROVE ListInv'
  OBVIOUS
<1>1. ListTypes /\ \A o \in lasting : Covered(o)
  BY DEF ListInv
<1>2. todo # <<>> => ~ SnapshotBuilt
  BY DEF ListInv
<1>3. ASSUME NEW x \in Arrivals, Appears(x) PROVE ListInv'
  <2>1. /\ cluster' = cluster \cup {x} /\ ever' = ever \cup {x} /\ ~ SnapshotBuilt
        /\ UNCHANGED <<lasting, todo, objects, failed, snap>>
    BY <1>2, <1>3 DEF Appears
  <2>2. IsFiniteSet(cluster')
    BY <1>1, <2>1, FS_AddElement DEF ListTypes
  <2>3. objects \in Seq(ever')
    BY <1>1, <2>1, SeqMonotonic DEF ListTypes
  <2>4. ListTypes'
    BY <1>1, <2>1, <2>2, <2>3 DEF ListTypes
  <2>5. \A o \in lasting : Covered(o)'
    BY <1>1, <2>1 DEF Covered
  <2>6. QED
    BY <2>1, <2>4, <2>5 DEF ListInv, SnapshotBuilt
<1>4. ASSUME NEW x \in cluster, Disappears(x) PROVE ListInv'
  <2>1. /\ cluster' = cluster \ {x} /\ lasting' = lasting \ {x} /\ ~ SnapshotBuilt
        /\ UNCHANGED <<ever, todo, objects, failed, snap>>
    BY <1>2, <1>4 DEF Disappears
  <2>2. IsFiniteSet(cluster')
    BY <1>1, <2>1, FS_RemoveElement DEF ListTypes
  <2>3. ListTypes'
    BY <1>1, <2>1, <2>2 DEF ListTypes
  <2>4. \A o \in lasting' : Covered(o)'
    BY <1>1, <2>1 DEF Covered
  <2>5. QED
    BY <2>1, <2>3, <2>4 DEF ListInv, SnapshotBuilt
<1>5. CASE List
  <2> DEFINE of == {o \in cluster : o.kind = Head(todo)}
  <2>1. /\ todo # <<>> /\ todo' = Tail(todo) /\ ~ SnapshotBuilt
        /\ UNCHANGED <<cluster, ever, lasting, failed, snap>>
    BY <1>2, <1>5 DEF List
  <2>2. PICK seq \in Orders(of) :
          IF Head(todo) = "Pod" THEN UNCHANGED objects ELSE objects' = objects \o seq
    BY <1>5 DEF List
  <2>3. IsFiniteSet(of)
    BY <1>1, FS_Subset DEF ListTypes
  <2>4. seq \in Seq(of) /\ Range(seq) = of
    BY <2>2, <2>3, OrderIsSeq
  <2> HIDE DEF of
  <2>5. seq \in Seq(ever)
    <3>1. of \subseteq ever
      BY <1>1 DEF ListTypes, of
    <3>2. QED
      BY <2>4, <3>1, SeqMonotonic
  <2>6. /\ objects' \in Seq(ever) /\ Range(objects) \subseteq Range(objects')
        /\ Head(todo) # "Pod" => of \subseteq Range(objects')
    <3>1. objects \in Seq(ever)
      BY <1>1 DEF ListTypes
    <3>2. objects \o seq \in Seq(ever) /\ Range(objects \o seq) = Range(objects) \cup of
      BY <2>4, <2>5, <3>1, RangeOfConcat
    <3>3. QED
      BY <2>2, <3>1, <3>2
  <2>7. /\ Tail(todo) \in Seq(Range(Tail(todo))) /\ Head(todo) \in Range(todo)
        /\ Range(todo) = {Head(todo)} \cup Range(Tail(todo))
    BY <1>1, <2>1, RangeOfTail, TailOwnRange DEF ListTypes
  <2>8. ListTypes'
    BY <1>1, <2>1, <2>6, <2>7 DEF ListTypes
  <2>9. ASSUME NEW o \in lasting PROVE Covered(o)'
    <3>1. CASE o \in cluster /\ o.kind = Head(todo)
      BY <1>1, <2>1, <2>6, <2>7, <3>1 DEF Covered, ListTypes, of
    <3>2. CASE ~ (o \in cluster /\ o.kind = Head(todo))
      BY <1>1, <2>1, <2>6, <2>7, <3>2 DEF Covered
    <3>3. QED
      BY <3>1, <3>2
  <2>10. QED
    BY <2>1, <2>8, <2>9 DEF ListInv, SnapshotBuilt
<1>6. CASE ListFails
  <2>1. /\ todo # <<>> /\ todo' = Tail(todo) /\ failed' = failed \cup {Head(todo)}
        /\ ~ SnapshotBuilt /\ UNCHANGED <<cluster, ever, lasting, objects, snap>>
    BY <1>2, <1>6 DEF ListFails
  <2>2. /\ Tail(todo) \in Seq(Range(Tail(todo)))
        /\ Range(todo) = {Head(todo)} \cup Range(Tail(todo))
    BY <1>1, <2>1, RangeOfTail, TailOwnRange DEF ListTypes
  <2>3. ListTypes'
    BY <1>1, <2>1, <2>2 DEF ListTypes
  <2>4. \A o \in lasting : Covered(o)'
    BY <1>1, <2>1, <2>2 DEF Covered
  <2>5. QED
    BY <2>1, <2>3, <2>4 DEF ListInv, SnapshotBuilt
<1>7. CASE ReadManifests
  <2>1. PICK seq \in Manifests :
          objects' = seq /\ lasting' = Range(seq) /\ ever' = Range(seq)
    BY <1>7 DEF ReadManifests
  <2>2. cluster = {} /\ todo' = <<>> /\ ~ SnapshotBuilt /\ UNCHANGED <<cluster, snap>>
    BY <1>2, <1>7 DEF ReadManifests
  <2>3. seq \in Seq(Range(seq)) /\ \A o \in Range(seq) : o.kind # ""
    BY K8sAssumption
  <2>4. <<>> \in Seq(Range(<<>>)) /\ Range(<<>>) = {}
    BY DEF Range
  <2>5. ListTypes'
    BY <1>1, <2>1, <2>2, <2>3, <2>4 DEF ListTypes
  <2>6. \A o \in lasting' : Covered(o)'
    BY <2>1, <2>3 DEF Covered
  <2>7. QED
    BY <2>2, <2>5, <2>6 DEF ListInv, SnapshotBuilt
<1>8. CASE BuildSnapshot
  BY <1>1, <1>8 DEF BuildSnapshot, ListInv, ListTypes, Covered
<1>9. CASE UNCHANGED k8sVars
  BY <1>1, <1>9 DEF k8sVars, ListInv, ListTypes, Covered, SnapshotBuilt
<1>10. QED
  BY <1>3, <1>4, <1>5, <1>6, <1>7, <1>8, <1>9 DEF K8sNext

-----------------------------------------------------------------------------
(***************************************************************************)
(* What the facts about an object say: never that it is contained, how     *)
(* many run where only of a workload, who is let in only of a policy, what *)
(* is permitted only of a role, and what is granted to whom only of a      *)
(* binding.                                                                *)
(***************************************************************************)
LetsIn == {"allowsAllIngress", "allowsIngressFrom"}
Gives == {"grants", "subjectOf"}
Words == {"contains", "permits", "replicasOnNode"} \cup LetsIn \cup Gives
Silent(facts, words) == \A x \in facts : x[2] \notin words

LEMMA OwnersDoNot == ASSUME NEW index, NEW key PROVE Silent(OwnerFacts(index, key), Words)
  BY DEF Silent, Words, LetsIn, Gives, OwnerFacts

LEMMA CupDoesNot ==
  ASSUME NEW words, NEW F, NEW G, Silent(F, words), Silent(G, words)
  PROVE  Silent(F \cup G, words)
  BY DEF Silent

LEMMA PlacementDoesNot ==
  ASSUME NEW index, NEW seq, NEW key
  PROVE  Silent(PlacementFacts(index, seq, key), Words \ {"replicasOnNode"})
<1> DEFINE mine == {i \in DOMAIN seq : PodOwner(index, seq[i]) = key /\ seq[i].node # Nothing}
           On(n) == {i \in mine : seq[i].node = n}
           runs(i) == <<key, "scheduledOn", <<"Node", Nothing, seq[i].node>>>>
           counts(i) == <<key, "replicasOnNode",
                          <<seq[i].node, Cardinality(On(seq[i].node))>>>>
<1>1. PlacementFacts(index, seq, key) = UNION {{runs(i), counts(i)} : i \in mine}
  BY DEF PlacementFacts
<1>2. \A i : runs(i)[2] \notin Words /\ counts(i)[2] = "replicasOnNode"
  BY DEF Words, LetsIn, Gives
<1> HIDE DEF mine, runs, counts
<1>3. QED
  BY <1>1, <1>2 DEF Silent, Words, LetsIn, Gives

LEMMA ContainersDoNot ==
  ASSUME NEW index, NEW seq, NEW key
  PROVE  Silent(ContainerFacts(index, seq, key), Words)
<1>1. ASSUME NEW c, NEW digests PROVE Silent(ImageFacts(key, c, digests), Words)
  BY DEF Silent, Words, LetsIn, Gives, ImageFacts
<1>2. Silent(TemplateFacts(index[key], key), Words)
  BY DEF Silent, Words, LetsIn, Gives, TemplateFacts
<1>3. QED
  BY <1>1, <1>2 DEF Silent, Words, LetsIn, Gives, ContainerFacts

LEMMA WorkloadsSay ==
  ASSUME NEW index, NEW seq, NEW key
  PROVE  /\ Silent(WorkloadFacts(index, seq, key), Words \ {"replicasOnNode"})
         /\ \A x \in WorkloadFacts(index, seq, key) :
              x[2] = "replicasOnNode" => x \in PlacementFacts(index, seq, key)
<1> DEFINE budgets ==
             {q \in OfKind(index, "PodDisruptionBudget") :
                q[2] = key[2] /\ SelectorMatches(index[q].selector, index[key].podLabels, FALSE)}
           guarded == {<<key, "hasPDB", p>> : p \in budgets}
<1>1. WorkloadFacts(index, seq, key) =
        PlacementFacts(index, seq, key) \cup ContainerFacts(index, seq, key)
          \cup OwnerFacts(index, key) \cup guarded
  BY DEF WorkloadFacts
<1> HIDE DEF budgets
<1>2. Silent(guarded, Words)
  BY DEF Silent, Words, LetsIn, Gives
<1> HIDE DEF guarded
<1>3. "replicasOnNode" \in Words
  BY DEF Words
<1>4. QED
  BY <1>1, <1>2, <1>3, PlacementDoesNot, ContainersDoNot, OwnersDoNot DEF Silent

LEMMA PoliciesDoNot ==
  ASSUME NEW index, NEW key
  PROVE  Silent(PolicyFacts(index, key), Words \ LetsIn)
<1>1. ASSUME NEW rules, NEW some, NEW every, NEW x \in RuleFacts(index, key, rules, some, every)
      PROVE  x[2] \in {some, every}
  BY <1>1 DEF RuleFacts
<1>2. ASSUME NEW x \in PolicyFacts(index, key)
      PROVE  \/ \E a, c : \E b \in {"policyType", "appliesTo"} : x = <<a, b, c>>
             \/ x \in RuleFacts(index, key, index[key].ingress, "allowsIngressFrom",
                                "allowsAllIngress")
             \/ x \in RuleFacts(index, key, index[key].egress, "allowsEgressTo",
                                "allowsAllEgress")
  BY <1>2 DEF PolicyFacts
<1>3. ASSUME NEW x \in PolicyFacts(index, key)
      PROVE  x[2] \in {"policyType", "appliesTo", "allowsIngressFrom", "allowsAllIngress",
                        "allowsEgressTo", "allowsAllEgress"}
  BY <1>1, <1>2
<1>4. QED
  BY <1>3 DEF Silent, Words, LetsIn, Gives

LEMMA RolesDoNot ==
  ASSUME NEW index, NEW key
  PROVE  Silent(RoleFacts(index, key), Words \ {"permits"})
<1>1. ASSUME NEW rule, NEW x \in PermissionFacts(key, rule) PROVE x[2] = "permits"
  BY <1>1 DEF PermissionFacts
<1> DEFINE sums == {c \in OfKind(index, "ClusterRole") \ {key} :
                      key[1] = "ClusterRole" /\ \E sel \in index[key].aggregates :
                        SelectorMatches(sel, index[c].labels, FALSE)}
<1>2. RoleFacts(index, key) =
        (UNION {PermissionFacts(key, rule) : rule \in index[key].rules})
          \cup {<<key, "aggregates", c>> : c \in sums}
  BY DEF RoleFacts
<1> HIDE DEF sums
<1>3. \A x \in RoleFacts(index, key) : x[2] \in {"permits", "aggregates"}
  BY <1>1, <1>2
<1>4. QED
  BY <1>3 DEF Silent, Words, LetsIn, Gives

LEMMA OthersDoNot ==
  ASSUME NEW index, NEW key
  PROVE  /\ Silent(ServiceFacts(index, key), Words) /\ Silent(IngressFacts(index, key), Words)
         /\ Silent(StorageFacts(index, key), Words)
         /\ Silent(BindingFacts(index, key), Words \ Gives)
<1>1. Silent(ServiceFacts(index, key), Words) /\ Silent(IngressFacts(index, key), Words)
  BY DEF Silent, Words, LetsIn, Gives, ServiceFacts, IngressFacts
<1>2. Silent(BindingFacts(index, key), Words \ Gives)
  BY DEF Silent, Words, LetsIn, Gives, BindingFacts
<1>3. Silent(StorageFacts(index, key), Words)
  BY DEF Silent, Words, LetsIn, Gives, StorageFacts
<1>4. QED
  BY <1>1, <1>2, <1>3

\* Which facts about an object have those words.
LEMMA ObjectsSay ==
  ASSUME NEW index, NEW seq, NEW key, NEW x \in ObjectFacts(index, seq, key), x[2] \in Words
  PROVE  \/ /\ key[1] \in WorkloadKinds /\ x \in PlacementFacts(index, seq, key)
            /\ x[2] = "replicasOnNode"
         \/ key[1] = "NetworkPolicy" /\ x \in PolicyFacts(index, key) /\ x[2] \in LetsIn
         \/ key[1] \in {"Role", "ClusterRole"} /\ x \in RoleFacts(index, key) /\ x[2] = "permits"
         \/ /\ key[1] \in {"RoleBinding", "ClusterRoleBinding"}
            /\ x \in BindingFacts(index, key) /\ x[2] \in Gives
<1> DEFINE kinds == {<<key, "kind", <<key[1]>>>>}
           space == IF key[2] = Nothing THEN {}
                    ELSE {<<key, "inNamespace", <<"Namespace", Nothing, key[2]>>>>}
<1>1. Silent(kinds, Words) /\ Silent(space, Words)
  BY DEF Silent, Words, LetsIn, Gives
<1>2. /\ Silent(OwnerFacts(index, key), Words)
      /\ Silent(ServiceFacts(index, key), Words) /\ Silent(IngressFacts(index, key), Words)
      /\ Silent(StorageFacts(index, key), Words)
  BY OwnersDoNot, OthersDoNot
<1>3. \/ x \in kinds \/ x \in space
      \/ x \in OwnerFacts(index, key)
      \/ key[1] \in WorkloadKinds /\ x \in WorkloadFacts(index, seq, key)
      \/ x \in ServiceFacts(index, key) \/ x \in IngressFacts(index, key)
      \/ x \in StorageFacts(index, key)
      \/ key[1] = "NetworkPolicy" /\ x \in PolicyFacts(index, key)
      \/ key[1] \in {"Role", "ClusterRole"} /\ x \in RoleFacts(index, key)
      \/ key[1] \in {"RoleBinding", "ClusterRoleBinding"} /\ x \in BindingFacts(index, key)
  BY DEF ObjectFacts
<1> HIDE DEF kinds, space
<1>4. QED
  BY <1>1, <1>2, <1>3, WorkloadsSay, PoliciesDoNot, RolesDoNot, OthersDoNot DEF Silent

\* What a snapshot contains is what was read and filed.
LEMMA SnapshotContains ==
  ASSUME NEW seq, NEW podSeq, NEW failedKinds
  PROVE  LET facts == SnapshotOf(seq, podSeq, failedKinds).snapshot IN
         /\ \A o \in Range(seq) :
              o.kind \notin {"", "Pod", "ReplicaSet"} => <<Snap, "contains", Key(o)>> \in facts
         /\ \A kind \in failedKinds :
              {<<Snap, "failedKind", <<kind>>>>, <<Snap, "partial", <<"true">>>>} \subseteq facts
         /\ \A x \in facts :
              x[2] = "contains" => \E o \in Range(seq) : Key(o) = x[3]
<1> DEFINE index == Index(seq)
           shown == {key \in DOMAIN index : key[1] # "ReplicaSet"}
           contained == {<<Snap, "contains", key>> : key \in shown}
           partial == IF failedKinds = {} THEN {} ELSE {<<Snap, "partial", <<"true">>>>}
           kinds == {<<Snap, "failedKind", <<kind>>>> : kind \in failedKinds}
           said == UNION {ObjectFacts(index, podSeq, key) : key \in shown}
           facts == SnapshotOf(seq, podSeq, failedKinds).snapshot
<1>1. facts = contained \cup partial \cup kinds \cup said
  BY DEF SnapshotOf
<1>2. DOMAIN index = {Key(seq[i]) : i \in {j \in DOMAIN seq : seq[j].kind \notin {"", "Pod"}}}
  BY DEF Index
<1> HIDE DEF index, facts
<1>3. ASSUME NEW o \in Range(seq), o.kind \notin {"", "Pod", "ReplicaSet"}
      PROVE  <<Snap, "contains", Key(o)>> \in facts
  <2>1. Key(o) \in DOMAIN index
    BY <1>2, <1>3 DEF Range
  <2>2. Key(o)[1] = o.kind
    BY DEF Key
  <2>3. QED
    BY <1>1, <1>3, <2>1, <2>2
<1>4. ASSUME NEW kind \in failedKinds
      PROVE  {<<Snap, "failedKind", <<kind>>>>, <<Snap, "partial", <<"true">>>>} \subseteq facts
  BY <1>1
<1>5. ASSUME NEW x \in facts, x[2] = "contains" PROVE \E o \in Range(seq) : Key(o) = x[3]
  <2>1. x \notin partial \cup kinds
    BY <1>5
  <2>2. x \notin said
    <3>1. x[2] \in Words /\ x[2] \notin LetsIn \cup Gives \cup {"permits", "replicasOnNode"}
      BY <1>5 DEF Words, LetsIn, Gives
    <3>2. QED
      BY <3>1, ObjectsSay
  <2>3. PICK key \in shown : x = <<Snap, "contains", key>>
    BY <1>1, <2>1, <2>2
  <2>4. QED
    BY <1>2, <2>3 DEF Range
<1>6. QED
  BY <1>3, <1>4, <1>5 DEF facts

\* A snapshot contains every object that was there during the whole listing,
\* of every kind it does not call failed, and nothing that never was there,
\* though the kinds are listed one by one while the cluster changes
\* (list_live, build_snapshot).
THEOREM NothingIsMissed == K8sSpec => []NothingMissed
<1>1. ASSUME ListInv PROVE NothingMissed
  <2>1. SUFFICES ASSUME SnapshotBuilt PROVE NothingMissed
    BY DEF NothingMissed
  <2>2. /\ todo = <<>> /\ snap = SnapshotOf(objects, pods, failed)
        /\ ListTypes /\ \A o \in lasting : Covered(o)
    BY <1>1, <2>1 DEF ListInv
  <2>3. ASSUME NEW o \in lasting, o.kind \notin {"Pod", "ReplicaSet"}
        PROVE  \/ <<Snap, "contains", Key(o)>> \in snap.snapshot
               \/ {<<Snap, "failedKind", <<o.kind>>>>, <<Snap, "partial", <<"true">>>>}
                    \subseteq snap.snapshot
    <3>1. Range(todo) = {}
      BY <2>2 DEF Range
    <3>2. (o \in Range(objects) /\ o.kind # "") \/ o.kind \in failed
      BY <2>2, <2>3, <3>1 DEF Covered
    <3>3. QED
      BY <2>2, <2>3, <3>2, SnapshotContains
  <2>4. ASSUME NEW x \in snap.snapshot, x[2] = "contains" PROVE \E o \in ever : Key(o) = x[3]
    <3>1. Range(objects) \subseteq ever
      BY <2>2 DEF ListTypes, Range
    <3>2. QED
      BY <2>2, <2>4, <3>1, SnapshotContains
  <2>5. QED
    BY <2>3, <2>4 DEF NothingMissed
<1>2. QED
  BY <1>1, ListInit, ListStep, PTL DEF K8sSpec

-----------------------------------------------------------------------------
(***************************************************************************)
(* The orders of a list call.                                              *)
(***************************************************************************)
LEMMA LeastNatural ==
  ASSUME NEW T \in SUBSET Nat, T # {}
  PROVE  \E m \in T : \A k \in T : m <= k
<1>1. PICK m \in T : \A k \in T : <<k, m>> \notin OpToRel(<, Nat)
  BY NatLessThanWellFounded, WFMin
<1>2. \A k \in T : ~ (k < m)
  BY <1>1 DEF OpToRel
<1>3. QED
  BY <1>2

LEMMA MaxIsGreatest ==
  ASSUME NEW n \in Nat, NEW T \in SUBSET (1 .. n), T # {}
  PROVE  Max(T) \in T /\ \A i \in T : Max(T) >= i
<1> DEFINE D == {n - i : i \in T}
<1>1. D \in SUBSET Nat /\ D # {}
  <2>1. \A i \in T : n - i \in Nat
    OBVIOUS
  <2>2. D # {}
    OBVIOUS
  <2>3. QED
    BY <2>1, <2>2
<1>2. PICK m \in D : \A k \in D : m <= k
  <2> HIDE DEF D
  <2>1. QED
    BY <1>1, LeastNatural
<1>3. PICK x \in T : m = n - x
  BY <1>2
<1>4. \A y \in T : x >= y
  <2>1. \A y \in T : n - x <= n - y
    BY <1>2, <1>3
  <2>2. x \in Int /\ \A y \in T : y \in Int
    OBVIOUS
  <2>3. QED
    BY <2>1, <2>2
<1>5. QED
  BY <1>3, <1>4, Zenon DEF Max

LEMMA OrdersAreBijective ==
  ASSUME NEW S, IsFiniteSet(S), NEW seq \in Orders(S)
  PROVE  \A i, j \in DOMAIN seq : seq[i] = seq[j] => i = j
<1> DEFINE D == 1 .. Cardinality(S)
<1>1. Cardinality(S) \in Nat
  BY FS_CardinalityType
<1>2. IsFiniteSet(D) /\ Cardinality(D) = Cardinality(S)
  BY <1>1, FS_Interval
<1>3. seq \in Surjection(D, S)
  BY DEF Orders, Surjection, Range
<1>4. seq \in Injection(D, S)
  BY <1>2, <1>3, FS_SurjSameCardinalityImpliesInj
<1>5. QED
  BY <1>4 DEF Injection, IsInjective, Orders

LEMMA OrdersCount ==
  ASSUME NEW S, IsFiniteSet(S), NEW seq \in Orders(S), NEW T \in SUBSET S
  PROVE  Cardinality({i \in DOMAIN seq : seq[i] \in T}) = Cardinality(T)
<1> DEFINE I == {i \in DOMAIN seq : seq[i] \in T}
           f == [i \in I |-> seq[i]]
<1>1. Cardinality(S) \in Nat /\ DOMAIN seq = 1 .. Cardinality(S) /\ Range(seq) = S
  BY FS_CardinalityType DEF Orders
<1>2. IsFiniteSet(I)
  <2>1. IsFiniteSet(DOMAIN seq) /\ I \in SUBSET DOMAIN seq
    BY <1>1, FS_Interval
  <2>2. QED
    BY <2>1, FS_Subset
<1>3. f \in Surjection(I, T)
  <2>1. \A t \in T : \E i \in I : f[i] = t
    BY <1>1 DEF Range
  <2>2. QED
    BY <2>1 DEF Surjection
<1>4. f \in Injection(I, T)
  BY OrdersAreBijective DEF Injection, IsInjective
<1>5. f \in Bijection(I, T)
  BY <1>3, <1>4 DEF Bijection
<1>6. ExistsBijection(I, T)
  BY <1>5 DEF ExistsBijection
<1>7. QED
  BY <1>2, <1>6, FS_Bijection

LEMMA OrdersExist ==
  ASSUME NEW S, IsFiniteSet(S)
  PROVE  \E seq : seq \in Orders(S)
<1> DEFINE D == 1 .. Cardinality(S)
<1>1. IsFiniteSet(D) /\ Cardinality(D) = Cardinality(S)
  BY FS_CardinalityType, FS_Interval
<1>2. PICK f : f \in Bijection(D, S)
  BY <1>1, FS_SameCardinalityBij DEF ExistsBijection
<1>3. f \in [D -> S] /\ \A t \in S : \E i \in D : f[i] = t
  BY <1>2 DEF Bijection, Surjection
<1>4. f \in Orders(S)
  BY <1>3 DEF Orders, Range
<1>5. QED
  BY <1>4

-----------------------------------------------------------------------------
(***************************************************************************)
(* What a snapshot says of the objects does not depend on their order.     *)
(***************************************************************************)
Distinct(S) == \A a, b \in S : Key(a) = Key(b) => a = b

\* What has a namespace is known of every kind.
Placed(o) == o.kind \in ClusterKinds <=> o.ns = Nothing

LEMMA KeysTell ==
  ASSUME NEW a, NEW b, Placed(a), Placed(b), Key(a) = Key(b)
  PROVE  a.kind = b.kind /\ a.ns = b.ns /\ a.name = b.name
  BY DEF Placed, Key

LEMMA ElementsAreOf ==
  ASSUME NEW T, NEW seq \in Seq(T)
  PROVE  Len(seq) \in Nat /\ DOMAIN seq = 1 .. Len(seq) /\ \A i \in DOMAIN seq : seq[i] \in T
<1>1. Len(seq) \in Nat /\ DOMAIN seq = 1 .. Len(seq)
  BY LenProperties
<1>2. ASSUME NEW i \in 1 .. Len(seq) PROVE seq[i] \in T
  BY ElementOfSeq
<1>3. QED
  BY <1>1, <1>2

LEMMA IndexOfSet ==
  ASSUME NEW S, Distinct(S), \A o \in S : o.kind \notin {"", "Pod"},
         NEW seq \in Seq(S), Range(seq) = S
  PROVE  Index(seq) = [key \in {Key(o) : o \in S} |-> CHOOSE o \in S : Key(o) = key]
<1> DEFINE At(key) == {i \in DOMAIN seq : seq[i].kind \notin {"", "Pod"} /\ Key(seq[i]) = key}
           keys == {Key(seq[i]) : i \in {j \in DOMAIN seq : seq[j].kind \notin {"", "Pod"}}}
<1>1. Len(seq) \in Nat /\ DOMAIN seq = 1 .. Len(seq) /\ \A i \in DOMAIN seq : seq[i] \in S
  BY ElementsAreOf
<1>2. keys = {Key(o) : o \in S}
  BY <1>1 DEF Range
<1>3. ASSUME NEW key \in keys
      PROVE  seq[Max(At(key))] = CHOOSE o \in S : Key(o) = key
  <2>1. At(key) \in SUBSET (1 .. Len(seq)) /\ At(key) # {}
    BY <1>1
  <2>2. Max(At(key)) \in At(key)
    <3> HIDE DEF At
    <3>1. QED
      BY <1>1, <2>1, MaxIsGreatest
  <2>3. seq[Max(At(key))] \in S /\ Key(seq[Max(At(key))]) = key
    BY <1>1, <2>2
  <2>4. QED
    BY <2>3 DEF Distinct
<1>4. Index(seq) = [key \in keys |-> seq[Max(At(key))]]
  BY DEF Index
<1> HIDE DEF keys, At
<1>5. QED
  BY <1>2, <1>3, <1>4

\* The pods a workload is told of, counted over the set and not the sequence.
PlacementOf(index, S, key) ==
  LET mine == {x \in S : PodOwner(index, x) = key /\ x.node # Nothing}
  IN UNION {{<<key, "scheduledOn", <<"Node", Nothing, x.node>>>>,
             <<key, "replicasOnNode",
               <<x.node, Cardinality({y \in mine : y.node = x.node})>>>>} : x \in mine}
DigestsOf(index, S, key, c) ==
  (IF c.digest = Nothing THEN {} ELSE {c.digest})
    \cup UNION {{d[2] : d \in {e \in x.pulled : e[1] = c.name}}
                  : x \in {y \in S : PodOwner(index, y) = key}}

LEMMA PlacementOfSet ==
  ASSUME NEW S, IsFiniteSet(S), NEW seq \in Orders(S), NEW index, NEW key
  PROVE  PlacementFacts(index, seq, key) = PlacementOf(index, S, key)
<1> DEFINE mine == {x \in S : PodOwner(index, x) = key /\ x.node # Nothing}
           at == {i \in DOMAIN seq : PodOwner(index, seq[i]) = key /\ seq[i].node # Nothing}
           On(n) == {i \in at : seq[i].node = n}
           OnOf(n) == {y \in mine : y.node = n}
           facts(n, count) == {<<key, "scheduledOn", <<"Node", Nothing, n>>>>,
                               <<key, "replicasOnNode", <<n, count>>>>}
<1>1. (\A i \in DOMAIN seq : seq[i] \in S) /\ \A x \in S : \E i \in DOMAIN seq : seq[i] = x
  BY DEF Orders, Range
<1>2. ASSUME NEW n PROVE Cardinality(On(n)) = Cardinality(OnOf(n))
  <2>1. On(n) = {i \in DOMAIN seq : seq[i] \in OnOf(n)}
    BY <1>1
  <2>2. OnOf(n) \in SUBSET S
    OBVIOUS
  <2> HIDE DEF OnOf, On
  <2>3. QED
    BY <2>1, <2>2, OrdersCount
<1>3. PlacementFacts(index, seq, key)
        = UNION {facts(seq[i].node, Cardinality(On(seq[i].node))) : i \in at}
  BY DEF PlacementFacts
<1>4. (\A i \in at : seq[i] \in mine) /\ \A x \in mine : \E i \in at : seq[i] = x
  BY <1>1
<1> HIDE DEF at, mine, On, OnOf, facts
<1>5. {facts(seq[i].node, Cardinality(On(seq[i].node))) : i \in at}
        = {facts(x.node, Cardinality(OnOf(x.node))) : x \in mine}
  BY <1>2, <1>4
<1>6. QED
  BY <1>3, <1>5 DEF facts, mine, OnOf, PlacementOf

LEMMA DigestsOfSet ==
  ASSUME NEW S, NEW seq \in Orders(S), NEW index, NEW key, NEW c
  PROVE  Digests(index, seq, key, c) = DigestsOf(index, S, key, c)
<1> DEFINE at == {i \in DOMAIN seq : PodOwner(index, seq[i]) = key}
           mine == {y \in S : PodOwner(index, y) = key}
           of(x) == {d[2] : d \in {e \in x.pulled : e[1] = c.name}}
<1>1. (\A i \in at : seq[i] \in mine) /\ \A x \in mine : \E i \in at : seq[i] = x
  BY DEF Orders, Range
<1>2. Digests(index, seq, key, c) =
        (IF c.digest = Nothing THEN {} ELSE {c.digest}) \cup UNION {of(seq[i]) : i \in at}
  BY DEF Digests
<1> HIDE DEF at, mine, of
<1>3. {of(seq[i]) : i \in at} = {of(x) : x \in mine}
  BY <1>1
<1>4. QED
  BY <1>2, <1>3 DEF of, mine, DigestsOf

LEMMA FactsOfSet ==
  ASSUME NEW S, IsFiniteSet(S), NEW s \in Orders(S), NEW t \in Orders(S),
         NEW index, NEW key
  PROVE  ObjectFacts(index, s, key) = ObjectFacts(index, t, key)
<1>1. PlacementFacts(index, s, key) = PlacementFacts(index, t, key)
  <2>1. PlacementFacts(index, s, key) = PlacementOf(index, S, key)
    BY PlacementOfSet
  <2>2. PlacementFacts(index, t, key) = PlacementOf(index, S, key)
    BY PlacementOfSet
  <2>3. QED
    BY <2>1, <2>2
<1>2. ASSUME NEW c PROVE Digests(index, s, key, c) = Digests(index, t, key, c)
  <2>1. Digests(index, s, key, c) = DigestsOf(index, S, key, c)
    BY DigestsOfSet
  <2>2. Digests(index, t, key, c) = DigestsOf(index, S, key, c)
    BY DigestsOfSet
  <2>3. QED
    BY <2>1, <2>2
<1>3. ContainerFacts(index, s, key) = ContainerFacts(index, t, key)
  BY <1>2 DEF ContainerFacts
<1>4. WorkloadFacts(index, s, key) = WorkloadFacts(index, t, key)
  BY <1>1, <1>3 DEF WorkloadFacts
<1>5. QED
  BY <1>4 DEF ObjectFacts

LEMMA SnapshotOfSet ==
  ASSUME NEW S, IsFiniteSet(S), NEW s \in Orders(S), NEW t \in Orders(S),
         NEW a, NEW b, Index(a) = Index(b), NEW failedKinds
  PROVE  SnapshotOf(a, s, failedKinds) = SnapshotOf(b, t, failedKinds)
<1> DEFINE index == Index(a)
           shown == {key \in DOMAIN index : key[1] # "ReplicaSet"}
<1>1. {ObjectFacts(index, s, key) : key \in shown} = {ObjectFacts(index, t, key) : key \in shown}
  BY FactsOfSet
<1>2. QED
  BY <1>1 DEF SnapshotOf

-----------------------------------------------------------------------------
(***************************************************************************)
(* A listing that nothing happens to.                                      *)
(***************************************************************************)
Pods == {o \in cluster : o.kind = "Pod"}
NotPods == {o \in cluster : o.kind # "Pod"}

Calm == changes = 0 /\ failed = {} /\ cluster # {}

CalmInv ==
  /\ changes \in Nat
  /\ Calm =>
       /\ cluster \in Clusters
       /\ Range(objects) \subseteq NotPods
       /\ \A o \in NotPods : o \in Range(objects) \/ o.kind \in Range(todo)
       /\ "Pod" \in Range(todo) \/ pods \in Orders(Pods)

LEMMA CalmInit == K8sInit => CalmInv
<1> SUFFICES ASSUME K8sInit PROVE CalmInv
  OBVIOUS
<1>1. /\ cluster \in Clusters \cup {{}} /\ changes = 0 /\ todo = Listed
      /\ objects = <<>> /\ pods = <<>>
  BY DEF K8sInit
<1>2. cluster \in Clusters => \A o \in cluster : o.kind \in Range(Listed)
  BY K8sAssumption
<1>3. Range(objects) = {}
  BY <1>1 DEF Range
<1>4. Pods = {} => pods \in Orders(Pods)
  BY <1>1, FS_EmptySet DEF Orders, Range
<1>5. QED
  BY <1>1, <1>2, <1>3, <1>4 DEF CalmInv, Calm, Pods, NotPods

LEMMA CalmStep == ListInv /\ CalmInv /\ [K8sNext]_k8sVars => CalmInv'
<1> SUFFICES ASSUME ListInv, CalmInv, [K8sNext]_k8sVars PROVE CalmInv'
  OBVIOUS
<1>1. ListTypes
  BY DEF ListInv
<1>2. ASSUME NEW x, Appears(x) \/ Disappears(x) PROVE CalmInv'
  BY <1>2 DEF Appears, Disappears, CalmInv, Calm
<1>3. CASE List
  <2> DEFINE of == {o \in cluster : o.kind = Head(todo)}
  <2>1. /\ todo # <<>> /\ todo' = Tail(todo)
        /\ UNCHANGED <<cluster, changes, failed>>
    BY <1>3 DEF List
  <2>2. PICK seq \in Orders(of) :
          IF Head(todo) = "Pod" THEN pods' = seq /\ UNCHANGED objects
          ELSE objects' = objects \o seq /\ UNCHANGED pods
    BY <1>3 DEF List
  <2>3. SUFFICES ASSUME Calm PROVE CalmInv'
    BY <2>1 DEF CalmInv, Calm
  <2>4. IsFiniteSet(of)
    BY <1>1, FS_Subset DEF ListTypes
  <2>5. seq \in Seq(of) /\ Range(seq) = of
    BY <2>2, <2>4, OrderIsSeq
  <2>6. Range(todo) = {Head(todo)} \cup Range(Tail(todo))
    BY <1>1, <2>1, RangeOfTail DEF ListTypes
  <2>7. Pods' = Pods /\ NotPods' = NotPods
    BY <2>1 DEF Pods, NotPods
  <2>8. CASE Head(todo) = "Pod"
    <3>1. of = Pods /\ pods' = seq /\ objects' = objects
      BY <2>2, <2>8 DEF Pods
    <3>2. QED
      BY <2>1, <2>2, <2>3, <2>6, <2>7, <2>8, <3>1 DEF CalmInv, NotPods
  <2>9. CASE Head(todo) # "Pod"
    <3>1. objects' = objects \o seq /\ pods' = pods
      BY <2>2, <2>9
    <3>2. Range(objects') = Range(objects) \cup of
      <4>1. of \subseteq ever /\ objects \in Seq(ever)
        BY <1>1 DEF ListTypes
      <4> HIDE DEF of
      <4>2. seq \in Seq(ever)
        BY <2>5, <4>1, SeqMonotonic
      <4>3. QED
        BY <2>5, <3>1, <4>1, <4>2, RangeOfConcat
    <3>3. of \subseteq NotPods
      BY <2>9 DEF NotPods
    <3>4. \A o \in NotPods : o \in of \/ o.kind # Head(todo)
      BY DEF NotPods
    <3> HIDE DEF of
    <3>5. QED
      BY <2>1, <2>3, <2>6, <2>7, <2>9, <3>1, <3>2, <3>3, <3>4 DEF CalmInv
  <2>10. QED
    BY <2>8, <2>9
<1>4. CASE ListFails
  BY <1>4 DEF ListFails, CalmInv, Calm
<1>5. CASE ReadManifests
  BY <1>5 DEF ReadManifests, CalmInv, Calm
<1>6. CASE BuildSnapshot \/ UNCHANGED k8sVars
  BY <1>6 DEF BuildSnapshot, k8sVars, CalmInv, Calm, Pods, NotPods
<1>7. QED
  BY <1>2, <1>3, <1>4, <1>5, <1>6 DEF K8sNext

\* A cluster that nothing happens to has one snapshot, and so one hash and one
\* graph, whatever order the API server gives the objects of a kind in and
\* the tool asks for the kinds in: build_snapshot indexes the objects by
\* their keys and counts pods, and no two objects of a cluster have one key.
THEOREM OneStateOneSnapshot == K8sSpec => []SameStateSameSnapshot
<1>1. ASSUME ListInv, CalmInv PROVE SameStateSameSnapshot
  <2> SUFFICES ASSUME SnapshotBuilt, Calm
               PROVE  snap = SnapshotOf(InOrder(NotPods), InOrder(Pods), {})
    BY DEF SameStateSameSnapshot, Calm, Pods, NotPods
  <2>1. todo = <<>> /\ snap = SnapshotOf(objects, pods, {}) /\ objects \in Seq(ever)
    BY <1>1 DEF ListInv, ListTypes, Calm
  <2>2. cluster \in Clusters /\ Range(objects) = NotPods /\ pods \in Orders(Pods)
    <3>1. Range(todo) = {}
      BY <2>1 DEF Range
    <3>2. QED
      BY <1>1, <3>1 DEF CalmInv
  <2>3. IsFiniteSet(cluster) /\ IsFiniteSet(Pods) /\ IsFiniteSet(NotPods)
    <3>1. IsFiniteSet(cluster)
      BY <2>2, K8sAssumption
    <3>2. Pods \in SUBSET cluster /\ NotPods \in SUBSET cluster
      BY DEF Pods, NotPods
    <3>3. QED
      BY <3>1, <3>2, FS_Subset
  <2>4. InOrder(Pods) \in Orders(Pods) /\ InOrder(NotPods) \in Orders(NotPods)
    BY <2>3, OrdersExist DEF InOrder
  <2>5. Distinct(NotPods) /\ \A o \in NotPods : o.kind \notin {"", "Pod"}
    <3>1. \A o \in cluster : Placed(o) /\ o.kind \in Range(Listed)
      BY <2>2, K8sAssumption DEF Placed
    <3>2. \A x, y \in cluster :
            x.kind = y.kind /\ x.ns = y.ns /\ x.name = y.name => x = y
      BY <2>2, K8sAssumption
    <3>3. Distinct(NotPods)
      BY <3>1, <3>2, KeysTell DEF Distinct, NotPods
    <3>4. \A o \in NotPods : o.kind \notin {"", "Pod"}
      <4>1. "" \notin Range(Listed)
        BY K8sAssumption
      <4>2. QED
        BY <3>1, <4>1 DEF NotPods
    <3>5. QED
      BY <3>3, <3>4
  <2>6. Index(objects) = Index(InOrder(NotPods))
    <3>1. objects \in Seq(NotPods)
      <4>1. \A i \in DOMAIN objects : objects[i] \in Range(objects)
        BY DEF Range
      <4>2. DOMAIN objects = 1 .. Len(objects) /\ Len(objects) \in Nat
            /\ objects \in [1 .. Len(objects) -> ever]
        BY <2>1, LenProperties
      <4>3. objects \in [1 .. Len(objects) -> Range(objects)]
        BY <4>1, <4>2
      <4>4. QED
        BY <2>2, <4>2, <4>3, SeqDef
    <3>2. InOrder(NotPods) \in Seq(NotPods) /\ Range(InOrder(NotPods)) = NotPods
      BY <2>3, <2>4, OrderIsSeq
    <3>3. QED
      BY <2>2, <2>5, <3>1, <3>2, IndexOfSet
  <2>7. QED
    BY <2>1, <2>2, <2>3, <2>4, <2>6, SnapshotOfSet
<1>2. QED
  BY <1>1, ListInit, ListStep, CalmInit, CalmStep, PTL DEF K8sSpec

-----------------------------------------------------------------------------
(***************************************************************************)
(* Every object that was read is filed, under a key of its own.            *)
(***************************************************************************)
FiledInv ==
  /\ \A i, j \in DOMAIN todo : todo[i] = todo[j] => i = j
  /\ \A o \in cluster : Placed(o)
  /\ \A a, b \in cluster : a.kind = b.kind /\ a.ns = b.ns /\ a.name = b.name => a = b
  /\ todo # <<>> => \A o \in Range(objects) : o.kind \notin Range(todo)
  /\ Distinct(Range(objects))

LEMMA TailOnce ==
  ASSUME NEW S, NEW a \in Seq(S), a # <<>>, \A i, j \in DOMAIN a : a[i] = a[j] => i = j
  PROVE  /\ \A i, j \in DOMAIN Tail(a) : Tail(a)[i] = Tail(a)[j] => i = j
         /\ Head(a) \notin Range(Tail(a))
<1>1. /\ Head(a) = a[1] /\ Len(a) \in Nat \ {0} /\ DOMAIN a = 1 .. Len(a)
      /\ DOMAIN Tail(a) = 1 .. (Len(a) - 1)
      /\ \A i \in 1 .. (Len(a) - 1) : Tail(a)[i] = a[i + 1]
  OBVIOUS
<1>2. ASSUME NEW i \in DOMAIN Tail(a)
      PROVE  i + 1 \in DOMAIN a /\ i \in Nat /\ Tail(a)[i] = a[i + 1] /\ i + 1 # 1
  BY <1>1
<1>3. ASSUME NEW i \in DOMAIN Tail(a), NEW j \in DOMAIN Tail(a), Tail(a)[i] = Tail(a)[j]
      PROVE  i = j
  <2>1. i + 1 = j + 1
    BY <1>2, <1>3
  <2>2. QED
    BY <1>2, <2>1
<1>4. Head(a) \notin Range(Tail(a))
  <2>1. 1 \in DOMAIN a
    BY <1>1
  <2>2. ASSUME NEW i \in DOMAIN Tail(a), Tail(a)[i] = Head(a) PROVE FALSE
    BY <1>1, <1>2, <2>1, <2>2
  <2>3. QED
    BY <2>2 DEF Range
<1>5. QED
  BY <1>3, <1>4

LEMMA FiledInit == K8sInit => FiledInv
<1> SUFFICES ASSUME K8sInit PROVE FiledInv
  OBVIOUS
<1>1. todo = Listed /\ objects = <<>> /\ cluster \in Clusters \cup {{}}
  BY DEF K8sInit
<1>2. \A i, j \in DOMAIN todo : todo[i] = todo[j] => i = j
  BY <1>1, K8sAssumption
<1>3. \A o \in cluster : Placed(o)
  BY <1>1, K8sAssumption DEF Placed
<1>4. \A a, b \in cluster : a.kind = b.kind /\ a.ns = b.ns /\ a.name = b.name => a = b
  BY <1>1, K8sAssumption
<1>5. Range(objects) = {}
  BY <1>1 DEF Range
<1>6. QED
  BY <1>2, <1>3, <1>4, <1>5 DEF FiledInv, Distinct

LEMMA FiledStep ==
  ASSUME KeysOnce, ListInv, FiledInv, [K8sNext]_k8sVars
  PROVE  FiledInv'
<1>1. ListTypes
  BY DEF ListInv
<1>2. ASSUME NEW x \in Arrivals, Appears(x) PROVE FiledInv'
  <2>1. cluster' = cluster \cup {x} /\ UNCHANGED <<todo, objects>>
    BY <1>2 DEF Appears
  <2>2. Placed(x)
    BY K8sAssumption DEF Placed
  <2>3. \A y \in cluster : ~ (y.kind = x.kind /\ y.ns = x.ns /\ y.name = x.name)
    BY <1>2 DEF Appears
  <2>4. QED
    BY <2>1, <2>2, <2>3 DEF FiledInv
<1>3. ASSUME NEW x \in cluster, Disappears(x) PROVE FiledInv'
  <2>1. cluster' = cluster \ {x} /\ UNCHANGED <<todo, objects>>
    BY <1>3 DEF Disappears
  <2>2. QED
    BY <2>1 DEF FiledInv
<1>4. ASSUME todo # <<>>, todo' = Tail(todo), cluster' = cluster
      PROVE  /\ \A i, j \in DOMAIN todo' : todo'[i] = todo'[j] => i = j
             /\ Head(todo) \notin Range(todo') /\ Range(todo) = {Head(todo)} \cup Range(todo')
  BY <1>1, <1>4, TailOnce, RangeOfTail DEF FiledInv, ListTypes
<1>5. CASE List
  <2> DEFINE of == {o \in cluster : o.kind = Head(todo)}
  <2>1. todo # <<>> /\ todo' = Tail(todo) /\ cluster' = cluster
    BY <1>5 DEF List
  <2>2. PICK seq \in Orders(of) :
          IF Head(todo) = "Pod" THEN UNCHANGED objects ELSE objects' = objects \o seq
    BY <1>5 DEF List
  <2>3. seq \in Seq(of) /\ Range(seq) = of
    <3>1. IsFiniteSet(of)
      BY <1>1, FS_Subset DEF ListTypes
    <3>2. QED
      BY <2>2, <3>1, OrderIsSeq
  <2>4. \A o \in of : o \in cluster /\ o.kind = Head(todo)
    OBVIOUS
  <2> HIDE DEF of
  <2>5. Range(objects') \in {Range(objects), Range(objects) \cup of}
    <3>1. of \subseteq ever /\ objects \in Seq(ever)
      BY <1>1, <2>4 DEF ListTypes
    <3>2. seq \in Seq(ever)
      BY <2>3, <3>1, SeqMonotonic
    <3>3. Range(objects \o seq) = Range(objects) \cup of
      BY <2>3, <3>1, <3>2, RangeOfConcat
    <3>4. QED
      BY <2>2, <3>3
  <2>6. \A o \in Range(objects') : o \in Range(objects) \/ o \in of
    BY <2>5
  <2>7. ASSUME NEW a \in of, NEW b \in of, Key(a) = Key(b) PROVE a = b
    BY <2>4, <2>7, KeysTell DEF FiledInv
  <2>8. ASSUME NEW a \in Range(objects), NEW b \in of PROVE Key(a) # Key(b)
    <3>1. a.kind # b.kind
      BY <1>4, <2>1, <2>4 DEF FiledInv
    <3>2. QED
      BY <3>1 DEF Key
  <2>9. Distinct(Range(objects'))
    BY <2>6, <2>7, <2>8 DEF FiledInv, Distinct
  <2>10. \A o \in Range(objects') : o.kind \notin Range(todo')
    BY <1>4, <2>1, <2>4, <2>6 DEF FiledInv
  <2>11. QED
    BY <1>4, <2>1, <2>9, <2>10 DEF FiledInv
<1>6. CASE ListFails
  <2>1. todo # <<>> /\ todo' = Tail(todo) /\ cluster' = cluster /\ objects' = objects
    BY <1>6 DEF ListFails
  <2>2. QED
    BY <1>4, <2>1 DEF FiledInv
<1>7. CASE ReadManifests
  <2>1. PICK seq \in Manifests : objects' = seq
    BY <1>7 DEF ReadManifests
  <2>2. todo' = <<>> /\ cluster' = cluster
    BY <1>7 DEF ReadManifests
  <2>3. Distinct(Range(seq))
    <3>1. \A a, b : Key(a) = Key(b) => OfOneObject(a, b)
      BY DEF Key, OfOneObject
    <3>2. QED
      BY <3>1 DEF KeysOnce, Distinct
  <2>4. \A i, j \in DOMAIN <<>> : <<>>[i] = <<>>[j] => i = j
    OBVIOUS
  <2>5. QED
    BY <2>1, <2>2, <2>3, <2>4 DEF FiledInv
<1>8. CASE BuildSnapshot \/ UNCHANGED k8sVars
  BY <1>8 DEF BuildSnapshot, k8sVars, FiledInv
<1>9. QED
  BY <1>2, <1>3, <1>5, <1>6, <1>7, <1>8 DEF K8sNext

LEMMA OwnRange ==
  ASSUME NEW S, NEW a \in Seq(S)
  PROVE  a \in Seq(Range(a))
<1>1. a \in [1 .. Len(a) -> Range(a)] /\ Len(a) \in Nat
  BY DEF Range
<1>2. QED
  BY <1>1, SeqDef

LEMMA IndexFiles ==
  ASSUME NEW seq, seq \in Seq(Range(seq)), Distinct(Range(seq))
  PROVE  /\ \A o \in Range(seq) : o.kind \notin {"", "Pod"} =>
              Key(o) \in DOMAIN Index(seq) /\ Index(seq)[Key(o)] = o
         /\ \A key \in DOMAIN Index(seq) : \E o \in Range(seq) :
              o.kind \notin {"", "Pod"} /\ Key(o) = key /\ Index(seq)[key] = o
<1> DEFINE At(key) == {i \in DOMAIN seq : seq[i].kind \notin {"", "Pod"} /\ Key(seq[i]) = key}
           keys == {Key(seq[i]) : i \in {j \in DOMAIN seq : seq[j].kind \notin {"", "Pod"}}}
<1>1. Len(seq) \in Nat /\ DOMAIN seq = 1 .. Len(seq) /\ \A i \in DOMAIN seq : seq[i] \in Range(seq)
  BY ElementsAreOf
<1>2. ASSUME NEW key \in keys
      PROVE  \E o \in Range(seq) : /\ o.kind \notin {"", "Pod"} /\ Key(o) = key
                                   /\ seq[Max(At(key))] = o
  <2>1. At(key) \in SUBSET (1 .. Len(seq)) /\ At(key) # {}
    BY <1>1
  <2>2. Max(At(key)) \in At(key)
    <3> HIDE DEF At
    <3>1. QED
      BY <1>1, <2>1, MaxIsGreatest
  <2>3. QED
    BY <1>1, <2>2
<1>3. \A o \in Range(seq) : o.kind \notin {"", "Pod"} => Key(o) \in keys
  BY DEF Range
<1>4. Index(seq) = [key \in keys |-> seq[Max(At(key))]]
  BY DEF Index
<1> HIDE DEF keys, At
<1>5. DOMAIN Index(seq) = keys /\ \A key \in keys : Index(seq)[key] = seq[Max(At(key))]
  BY <1>4
<1>6. ASSUME NEW o \in Range(seq), o.kind \notin {"", "Pod"}
      PROVE  Key(o) \in DOMAIN Index(seq) /\ Index(seq)[Key(o)] = o
  <2>1. PICK x \in Range(seq) : Key(x) = Key(o) /\ Index(seq)[Key(o)] = x
    BY <1>2, <1>3, <1>5, <1>6
  <2>2. x = o
    BY <2>1 DEF Distinct
  <2>3. QED
    BY <1>3, <1>5, <1>6, <2>1, <2>2
<1>7. \A key \in DOMAIN Index(seq) : \E o \in Range(seq) :
        o.kind \notin {"", "Pod"} /\ Key(o) = key /\ Index(seq)[key] = o
  BY <1>2, <1>5
<1>8. QED
  BY <1>6, <1>7

\* The words of a snapshot are those of the objects it is of.
LEMMA SnapshotSays ==
  ASSUME NEW seq, NEW podSeq, NEW failedKinds, NEW x, x[2] \in Words \ {"contains"}
  PROVE  LET index == Index(seq) IN
         x \in SnapshotOf(seq, podSeq, failedKinds).snapshot <=>
           \E key \in DOMAIN index :
             \/ /\ key[1] \in WorkloadKinds /\ x \in PlacementFacts(index, podSeq, key)
                /\ x[2] = "replicasOnNode"
             \/ key[1] = "NetworkPolicy" /\ x \in PolicyFacts(index, key) /\ x[2] \in LetsIn
             \/ key[1] \in {"Role", "ClusterRole"} /\ x \in RoleFacts(index, key)
             \/ key[1] \in {"RoleBinding", "ClusterRoleBinding"} /\ x \in BindingFacts(index, key)
<1> DEFINE index == Index(seq)
           shown == {key \in DOMAIN index : key[1] # "ReplicaSet"}
           contained == {<<Snap, "contains", key>> : key \in shown}
           partial == IF failedKinds = {} THEN {} ELSE {<<Snap, "partial", <<"true">>>>}
           kinds == {<<Snap, "failedKind", <<kind>>>> : kind \in failedKinds}
           said == UNION {ObjectFacts(index, podSeq, key) : key \in shown}
           facts == SnapshotOf(seq, podSeq, failedKinds).snapshot
<1>1. facts = contained \cup partial \cup kinds \cup said
  BY DEF SnapshotOf
<1>2. x \notin contained \cup partial \cup kinds
  BY DEF Words, LetsIn, Gives
<1>3. x \in facts <=> \E key \in shown : x \in ObjectFacts(index, podSeq, key)
  BY <1>1, <1>2
<1>4. ASSUME NEW key
      PROVE  /\ key[1] \in WorkloadKinds =>
                  PlacementFacts(index, podSeq, key) \subseteq ObjectFacts(index, podSeq, key)
             /\ key[1] = "NetworkPolicy" =>
                  PolicyFacts(index, key) \subseteq ObjectFacts(index, podSeq, key)
             /\ key[1] \in {"Role", "ClusterRole"} =>
                  RoleFacts(index, key) \subseteq ObjectFacts(index, podSeq, key)
             /\ key[1] \in {"RoleBinding", "ClusterRoleBinding"} =>
                  BindingFacts(index, key) \subseteq ObjectFacts(index, podSeq, key)
  BY DEF ObjectFacts, WorkloadFacts, WorkloadKinds
<1> HIDE DEF index, facts
<1>5. ASSUME NEW key \in shown, x \in ObjectFacts(index, podSeq, key)
      PROVE  \/ /\ key[1] \in WorkloadKinds /\ x \in PlacementFacts(index, podSeq, key)
                /\ x[2] = "replicasOnNode"
             \/ key[1] = "NetworkPolicy" /\ x \in PolicyFacts(index, key) /\ x[2] \in LetsIn
             \/ key[1] \in {"Role", "ClusterRole"} /\ x \in RoleFacts(index, key)
             \/ key[1] \in {"RoleBinding", "ClusterRoleBinding"} /\ x \in BindingFacts(index, key)
  BY <1>5, ObjectsSay
<1>6. \A key \in DOMAIN index :
        key[1] \in WorkloadKinds \cup {"NetworkPolicy"} \cup {"Role", "ClusterRole"}
                   \cup {"RoleBinding", "ClusterRoleBinding"}
          => key \in shown
  BY DEF WorkloadKinds
<1>7. QED
  BY <1>3, <1>4, <1>5, <1>6 DEF index, facts

-----------------------------------------------------------------------------
(***************************************************************************)
(* Policies.                                                               *)
(***************************************************************************)
LEMMA MatchesIsSelected ==
  ASSUME NEW sel, NEW labels, sel # Nothing
  PROVE  SelectorMatches(sel, labels, TRUE) <=> Selected(sel, labels)
  BY DEF SelectorMatches, Selected

LEMMA RulesSay ==
  ASSUME NEW index, NEW key, NEW rules, NEW some, NEW every, some # every
  PROVE  /\ <<key, every, <<"true">>>> \in RuleFacts(index, key, rules, some, every)
              <=> \E peers \in rules : peers = {}
         /\ \A e : <<key, some, e>> \in RuleFacts(index, key, rules, some, every)
              <=> \E peers \in rules : \E p \in peers : e \in PeerEnds(index, p, key[2])
<1> DEFINE Ends(peers) == UNION {PeerEnds(index, p, key[2]) : p \in peers}
           Of(peers) == IF peers = {} THEN {<<key, every, <<"true">>>>}
                        ELSE {<<key, some, e>> : e \in Ends(peers)}
<1>1. RuleFacts(index, key, rules, some, every) = UNION {Of(peers) : peers \in rules}
  BY DEF RuleFacts
<1>2. \A peers : <<key, every, <<"true">>>> \in Of(peers) <=> peers = {}
  OBVIOUS
<1>3. \A peers, e : <<key, some, e>> \in Of(peers) <=> e \in Ends(peers)
  OBVIOUS
<1>4. \A peers, e : e \in Ends(peers) <=> \E p \in peers : e \in PeerEnds(index, p, key[2])
  OBVIOUS
<1> HIDE DEF Of, Ends
<1>5. QED
  BY <1>1, <1>2, <1>3, <1>4

LEMMA PolicySubject ==
  ASSUME NEW index, NEW key
  PROVE  \A x \in PolicyFacts(index, key) : x[1] = key
<1>1. ASSUME NEW rules, NEW some, NEW every, NEW x \in RuleFacts(index, key, rules, some, every)
      PROVE  x[1] = key
  BY <1>1 DEF RuleFacts
<1>2. ASSUME NEW x \in PolicyFacts(index, key)
      PROVE  \/ \E a, b : x = <<key, a, b>>
             \/ x \in RuleFacts(index, key, index[key].ingress, "allowsIngressFrom",
                                "allowsAllIngress")
             \/ x \in RuleFacts(index, key, index[key].egress, "allowsEgressTo",
                                "allowsAllEgress")
  BY <1>2 DEF PolicyFacts
<1>3. QED
  BY <1>1, <1>2

LEMMA PolicySays ==
  ASSUME NEW index, NEW key,
         index[key].types \in {{}, {"Ingress"}, {"Ingress", "Egress"}},
         NEW word \in LetsIn, NEW k, NEW e
  PROVE  <<k, word, e>> \in PolicyFacts(index, key) <=>
           /\ k = key
           /\ <<key, word, e>> \in RuleFacts(index, key, index[key].ingress,
                                      "allowsIngressFrom", "allowsAllIngress")
<1> DEFINE np == index[key]
           types == IF np.types = {} THEN {"Ingress"} ELSE np.types
           typed == {<<key, "policyType", <<t>>>> : t \in types}
           covers == {v \in WorkloadsIn(index, key[2]) :
                        SelectorMatches(np.pods, index[v].podLabels, TRUE)}
           applies == {<<key, "appliesTo", w>> : w \in covers}
           egress == IF "Egress" \notin types THEN {}
                     ELSE RuleFacts(index, key, np.egress, "allowsEgressTo", "allowsAllEgress")
           ingress == RuleFacts(index, key, np.ingress, "allowsIngressFrom", "allowsAllIngress")
<1>1. PolicyFacts(index, key) = typed \cup applies \cup ingress \cup egress
  BY DEF PolicyFacts
<1>2. word \in {"allowsIngressFrom", "allowsAllIngress"}
  BY DEF LetsIn
<1>3. <<k, word, e>> \notin typed \cup applies
  BY <1>2
<1>4. ASSUME NEW rules, NEW some, NEW every, NEW x \in RuleFacts(index, key, rules, some, every)
      PROVE  x[1] = key /\ x[2] \in {some, every}
  BY <1>4 DEF RuleFacts
<1>5. <<k, word, e>> \notin egress
  BY <1>2, <1>4
<1>6. <<k, word, e>> \in ingress => k = key
  BY <1>4
<1> HIDE DEF typed, applies, ingress, egress
<1>7. QED
  BY <1>1, <1>3, <1>5, <1>6 DEF ingress

\* A peer stands for a workload: by itself, or with all of its namespace.
LEMMA PeerCovers ==
  ASSUME NEW seq, seq \in Seq(Range(seq)), Distinct(Range(seq)),
         NEW p, NEW ns, NEW w \in Range(seq), w.kind \in WorkloadKinds
  PROVE  LET index == Index(seq) IN
         (\/ Key(w) \in PeerEnds(index, p, ns)
          \/ <<"Namespace", Nothing, Key(w)[2]>> \in PeerEnds(index, p, ns)) <=>
           /\ IF p.namespaces = Nothing THEN Key(w)[2] = ns
              ELSE \E o \in Range(seq) : o.kind = "Namespace" /\ o.name = Key(w)[2]
                                           /\ Selected(p.namespaces, o.labels)
           /\ p.pods = Nothing \/ Selected(p.pods, w.podLabels)
<1> DEFINE index == Index(seq)
           space == Key(w)[2]
           Stands(n) == IF p.pods = Nothing THEN {<<"Namespace", Nothing, n>>}
                        ELSE {v \in WorkloadsIn(index, n) :
                                SelectorMatches(p.pods, index[v].podLabels, TRUE)}
<1>0. /\ \A o \in Range(seq) : o.kind \notin {"", "Pod"} =>
             Key(o) \in DOMAIN index /\ index[Key(o)] = o
      /\ \A key \in DOMAIN index : \E o \in Range(seq) :
           o.kind \notin {"", "Pod"} /\ Key(o) = key /\ index[key] = o
  BY IndexFiles
<1> HIDE DEF index
<1>1. PeerEnds(index, p, ns) = UNION {Stands(n) : n \in PeerNamespaces(index, p, ns)}
  BY DEF PeerEnds
<1>2. Key(w) \in DOMAIN index /\ index[Key(w)] = w /\ Key(w)[1] = w.kind
  BY <1>0 DEF WorkloadKinds, Key
<1>3. \A n : Key(w) \in WorkloadsIn(index, n) <=> n = space
  BY <1>2 DEF WorkloadsIn
<1>4. ASSUME NEW n
      PROVE  (Key(w) \in Stands(n) \/ <<"Namespace", Nothing, space>> \in Stands(n)) <=>
               n = space /\ (p.pods = Nothing \/ Selected(p.pods, w.podLabels))
  <2>1. CASE p.pods = Nothing
    <3>1. Key(w) # <<"Namespace", Nothing, n>>
      BY <1>2 DEF WorkloadKinds
    <3>2. QED
      BY <2>1, <3>1
  <2>2. CASE p.pods # Nothing
    <3>1. <<"Namespace", Nothing, space>> \notin WorkloadsIn(index, n)
      BY DEF WorkloadsIn, WorkloadKinds
    <3>2. QED
      BY <1>2, <1>3, <2>2, <3>1, MatchesIsSelected
  <2>3. QED
    BY <2>1, <2>2
<1>5. space \in PeerNamespaces(index, p, ns) <=>
        IF p.namespaces = Nothing THEN space = ns
        ELSE \E o \in Range(seq) : o.kind = "Namespace" /\ o.name = space
                                     /\ Selected(p.namespaces, o.labels)
  <2>1. CASE p.namespaces = Nothing
    BY <2>1 DEF PeerNamespaces
  <2>2. CASE p.namespaces # Nothing
    <3> DEFINE chosen == {m \in OfKind(index, "Namespace") :
                            SelectorMatches(p.namespaces, index[m].labels, TRUE)}
    <3>1. PeerNamespaces(index, p, ns) = {m[3] : m \in chosen}
      BY <2>2 DEF PeerNamespaces
    <3>2. ASSUME NEW m \in chosen
          PROVE  \E o \in Range(seq) : o.kind = "Namespace" /\ o.name = m[3]
                                         /\ Selected(p.namespaces, o.labels)
      <4>1. m \in DOMAIN index /\ m[1] = "Namespace" /\ Selected(p.namespaces, index[m].labels)
        BY <2>2, MatchesIsSelected DEF OfKind
      <4>2. PICK o \in Range(seq) : Key(o) = m /\ index[m] = o
        BY <1>0, <4>1
      <4>3. o.kind = "Namespace" /\ o.name = m[3]
        BY <4>1, <4>2 DEF Key
      <4>4. QED
        BY <4>1, <4>2, <4>3
    <3>3. ASSUME NEW o \in Range(seq), o.kind = "Namespace", Selected(p.namespaces, o.labels)
          PROVE  Key(o) \in chosen /\ Key(o)[3] = o.name
      <4>1. Key(o) \in DOMAIN index /\ index[Key(o)] = o
        BY <1>0, <3>3
      <4>2. Key(o)[1] = "Namespace" /\ Key(o)[3] = o.name
        BY <3>3 DEF Key
      <4>3. QED
        BY <2>2, <3>3, <4>1, <4>2, MatchesIsSelected DEF OfKind
    <3> HIDE DEF chosen
    <3>4. QED
      BY <2>2, <3>1, <3>2, <3>3
  <2>3. QED
    BY <2>1, <2>2
<1> HIDE DEF Stands, space
<1>6. QED
  BY <1>1, <1>4, <1>5 DEF index, space

\* A policy lets in by its facts every workload its rules let in, as Kubernetes
\* reads the rules: a podSelector alone is of the policy's namespace, an empty
\* selector is of all, and a rule without peers of everyone.  It lets in no other
\* unless a peer is an ipBlock, and then only those of the policy's own namespace
\* (build_snapshot, "NetworkPolicy").
THEOREM PoliciesMeanTheirRules ==
  ASSUME KeysOnce
  PROVE  K8sSpec => []PolicyFactsMeanTheRules
<1>1. ListInv /\ FiledInv => PolicyFactsMeanTheRules
  <2> SUFFICES ASSUME ListInv, FiledInv, SnapshotBuilt,
                      NEW np \in Range(objects), NEW w \in Range(objects),
                      np.kind = "NetworkPolicy",
                      np.types \in {{}, {"Ingress"}, {"Ingress", "Egress"}},
                      w.kind \in WorkloadKinds
               PROVE  /\ AllowedByRules(np, w) => AllowedByFacts(np, w)
                      /\ AllowedByFacts(np, w) =>
                           AllowedByRules(np, w) \/ LetInByBlock(np, w)
    BY DEF PolicyFactsMeanTheRules
  <2> DEFINE index == Index(objects)
             key == Key(np)
             Rules == RuleFacts(index, key, np.ingress, "allowsIngressFrom", "allowsAllIngress")
  <2>1. /\ objects \in Seq(Range(objects)) /\ Distinct(Range(objects))
        /\ snap.snapshot = SnapshotOf(objects, pods, failed).snapshot
    <3>1. objects \in Seq(ever)
      BY DEF ListInv, ListTypes
    <3>2. objects \in Seq(Range(objects))
      BY <3>1, OwnRange
    <3>3. Distinct(Range(objects))
      BY DEF FiledInv
    <3>4. snap.snapshot = SnapshotOf(objects, pods, failed).snapshot
      BY DEF ListInv
    <3>5. QED
      BY <3>2, <3>3, <3>4
  <2>2. key \in DOMAIN index /\ index[key] = np /\ key[1] = "NetworkPolicy"
    <3>1. key[1] = "NetworkPolicy"
      BY DEF Key
    <3>2. np.kind \notin {"", "Pod"}
      OBVIOUS
    <3>3. \A o \in Range(objects) : o.kind \notin {"", "Pod"} =>
            Key(o) \in DOMAIN Index(objects) /\ Index(objects)[Key(o)] = o
      BY <2>1, IndexFiles
    <3>4. QED
      BY <3>1, <3>2, <3>3
  <2> HIDE DEF index, key
  <2>3. ASSUME NEW word \in LetsIn, NEW e
        PROVE  <<key, word, e>> \in snap.snapshot <=> <<key, word, e>> \in Rules
    <3> DEFINE x == <<key, word, e>>
    <3>1. /\ x[2] \in Words \ {"contains"} /\ x[2] \in LetsIn /\ x[1] = key
          /\ x[2] # "replicasOnNode"
      BY <2>3 DEF Words, LetsIn
    <3>2. x \in snap.snapshot <=>
            \E k \in DOMAIN index :
              \/ /\ k[1] \in WorkloadKinds /\ x \in PlacementFacts(index, pods, k)
                 /\ x[2] = "replicasOnNode"
              \/ k[1] = "NetworkPolicy" /\ x \in PolicyFacts(index, k) /\ x[2] \in LetsIn
              \/ k[1] \in {"Role", "ClusterRole"} /\ x \in RoleFacts(index, k)
              \/ k[1] \in {"RoleBinding", "ClusterRoleBinding"} /\ x \in BindingFacts(index, k)
      <4> HIDE DEF x
      <4>1. QED
        BY <2>1, <3>1, SnapshotSays DEF index
    <3>3. ASSUME NEW k, x \in PolicyFacts(index, k) PROVE k = key
      <4>1. \A y \in PolicyFacts(index, k) : y[1] = k
        BY PolicySubject
      <4>2. QED
        BY <3>1, <3>3, <4>1
    <3>4. ASSUME NEW k PROVE x \notin RoleFacts(index, k) /\ x \notin BindingFacts(index, k)
      BY <3>1, RolesDoNot, OthersDoNot DEF Silent, Words, LetsIn, Gives
    <3>5. x \in PolicyFacts(index, key) <=> x \in Rules
      BY <2>2, <2>3, PolicySays
    <3> HIDE DEF x
    <3>6. QED
      BY <2>2, <3>1, <3>2, <3>3, <3>4, <3>5 DEF x
  <2>4. AllowedByFacts(np, w) <=>
          \/ <<key, "allowsAllIngress", <<"true">>>> \in Rules
          \/ <<key, "allowsIngressFrom", Key(w)>> \in Rules
          \/ <<key, "allowsIngressFrom", <<"Namespace", Nothing, Key(w)[2]>>>> \in Rules
    BY <2>3 DEF AllowedByFacts, LetsIn, key
  <2>5. /\ <<key, "allowsAllIngress", <<"true">>>> \in Rules
             <=> \E peers \in np.ingress : peers = {}
        /\ \A e : <<key, "allowsIngressFrom", e>> \in Rules
             <=> \E peers \in np.ingress : \E p \in peers : e \in PeerEnds(index, p, key[2])
    BY RulesSay
  <2> HIDE DEF Rules
  <2>6. AllowedByFacts(np, w) <=>
          \E peers \in np.ingress :
            \/ peers = {}
            \/ \E p \in peers :
                 \/ Key(w) \in PeerEnds(index, p, key[2])
                 \/ <<"Namespace", Nothing, Key(w)[2]>> \in PeerEnds(index, p, key[2])
    BY <2>4, <2>5
  <2>7. ASSUME NEW p
        PROVE  (\/ Key(w) \in PeerEnds(index, p, key[2])
                \/ <<"Namespace", Nothing, Key(w)[2]>> \in PeerEnds(index, p, key[2])) <=>
                 /\ IF p.namespaces = Nothing THEN Key(w)[2] = key[2]
                    ELSE \E o \in Range(objects) : o.kind = "Namespace" /\ o.name = Key(w)[2]
                                                     /\ Selected(p.namespaces, o.labels)
                 /\ p.pods = Nothing \/ Selected(p.pods, w.podLabels)
    BY <2>1, PeerCovers DEF index
  <2>8. ASSUME AllowedByRules(np, w) PROVE AllowedByFacts(np, w)
    BY <2>6, <2>7, <2>8 DEF AllowedByRules, key
  <2>9. ASSUME AllowedByFacts(np, w)
        PROVE  AllowedByRules(np, w) \/ LetInByBlock(np, w)
    <3>1. PICK peers \in np.ingress :
            \/ peers = {}
            \/ \E p \in peers :
                 \/ Key(w) \in PeerEnds(index, p, key[2])
                 \/ <<"Namespace", Nothing, Key(w)[2]>> \in PeerEnds(index, p, key[2])
      BY <2>6, <2>9
    <3>2. CASE peers = {}
      BY <3>1, <3>2 DEF AllowedByRules
    <3>3. ASSUME NEW p \in peers,
                 \/ Key(w) \in PeerEnds(index, p, key[2])
                 \/ <<"Namespace", Nothing, Key(w)[2]>> \in PeerEnds(index, p, key[2])
          PROVE  AllowedByRules(np, w) \/ LetInByBlock(np, w)
      <4>1. CASE IpBlock(p)
        BY <2>7, <3>1, <3>3, <4>1 DEF IpBlock, LetInByBlock, key
      <4>2. CASE ~ IpBlock(p)
        BY <2>7, <3>1, <3>3, <4>2 DEF AllowedByRules, key
      <4>3. QED
        BY <4>1, <4>2
    <3>4. QED
      BY <3>1, <3>2, <3>3
  <2>10. QED
    BY <2>8, <2>9
<1>2. K8sInit => ListInv /\ FiledInv
  BY ListInit, FiledInit
<1>3. ListInv /\ FiledInv /\ [K8sNext]_k8sVars => ListInv' /\ FiledInv'
  BY ListStep, FiledStep
<1>4. QED
  BY <1>1, <1>2, <1>3, PTL DEF K8sSpec

-----------------------------------------------------------------------------
(***************************************************************************)
(* Permissions.                                                            *)
(***************************************************************************)
Roles == {"Role", "ClusterRole"}
RoleBindings == {"RoleBinding", "ClusterRoleBinding"}

\* The role a binding refers to, and the permissions of a rule.
RoleOf(b) ==
  IF b.role[1] = "ClusterRole" THEN <<"ClusterRole", Nothing, b.role[2]>>
  ELSE <<"Role", Key(b)[2], b.role[2]>>
Permissions(rule) == GroupsOf(rule) \X rule.resources \X rule.verbs

LEMMA RolesSay ==
  ASSUME NEW index, NEW key, NEW x
  PROVE  x \in RoleFacts(index, key) /\ x[2] = "permits" <=>
           \E rule \in index[key].rules : \E perm \in Permissions(rule) :
             x = <<key, "permits", perm>>
<1> DEFINE sums == {c \in OfKind(index, "ClusterRole") \ {key} :
                      key[1] = "ClusterRole" /\ \E sel \in index[key].aggregates :
                        SelectorMatches(sel, index[c].labels, FALSE)}
           sum == {<<key, "aggregates", c>> : c \in sums}
<1>1. RoleFacts(index, key) =
        (UNION {PermissionFacts(key, rule) : rule \in index[key].rules}) \cup sum
  BY DEF RoleFacts
<1> HIDE DEF sums
<1>2. \A y \in sum : y[2] # "permits"
  OBVIOUS
<1>3. ASSUME NEW rule
      PROVE  x \in PermissionFacts(key, rule) <=>
               \E perm \in Permissions(rule) : x = <<key, "permits", perm>>
  BY DEF PermissionFacts, Permissions
<1> HIDE DEF sum
<1>4. ASSUME NEW perm, x = <<key, "permits", perm>> PROVE x[2] = "permits"
  BY <1>4
<1>5. QED
  BY <1>1, <1>2, <1>3, <1>4

LEMMA BindingsSay ==
  ASSUME NEW index, NEW key, NEW b, index[key] = b, Key(b) = key, NEW x
  PROVE  x \in BindingFacts(index, key) <=>
           \/ x = <<key, "grants", RoleOf(b)>>
           \/ \E sub \in b.subjects : x = <<key, "subjectOf", SubjectOf(sub, key[2])>>
  BY DEF BindingFacts, RoleOf

\* The facts of a snapshot about roles and bindings.
LEMMA SnapshotPermits ==
  ASSUME NEW seq, seq \in Seq(Range(seq)), Distinct(Range(seq)),
         NEW podSeq, NEW failedKinds, NEW x
  PROVE  LET facts == SnapshotOf(seq, podSeq, failedKinds).snapshot
         IN /\ x \in facts /\ x[2] = "permits" <=>
                 \E r \in Range(seq) : r.kind \in Roles /\ \E rule \in r.rules :
                   \E perm \in Permissions(rule) : x = <<Key(r), "permits", perm>>
            /\ x \in facts /\ x[2] = "grants" <=>
                 \E b \in Range(seq) : b.kind \in RoleBindings /\ x = <<Key(b), "grants", RoleOf(b)>>
            /\ x \in facts /\ x[2] = "subjectOf" <=>
                 \E b \in Range(seq) : b.kind \in RoleBindings /\ \E sub \in b.subjects :
                   x = <<Key(b), "subjectOf", SubjectOf(sub, Key(b)[2])>>
<1> DEFINE index == Index(seq)
           facts == SnapshotOf(seq, podSeq, failedKinds).snapshot
           InRole(key) == key[1] \in Roles /\ x \in RoleFacts(index, key)
           InBinding(key) == key[1] \in RoleBindings /\ x \in BindingFacts(index, key)
<1>1. /\ \A o \in Range(seq) : o.kind \notin {"", "Pod"} =>
             Key(o) \in DOMAIN index /\ index[Key(o)] = o
      /\ \A key \in DOMAIN index : \E o \in Range(seq) :
           o.kind \notin {"", "Pod"} /\ Key(o) = key /\ index[key] = o
  BY IndexFiles
<1>2. \A o : Key(o)[1] = o.kind
  BY DEF Key
<1>3. x[2] \in Words \ {"contains"} =>
        (x \in facts <=>
           \E key \in DOMAIN index :
             \/ /\ key[1] \in WorkloadKinds /\ x \in PlacementFacts(index, podSeq, key)
                /\ x[2] = "replicasOnNode"
             \/ key[1] = "NetworkPolicy" /\ x \in PolicyFacts(index, key) /\ x[2] \in LetsIn
             \/ InRole(key) \/ InBinding(key))
  BY SnapshotSays DEF Roles, RoleBindings
<1> HIDE DEF index, facts
<1>4. \A key : x \in RoleFacts(index, key) => x[2] \notin Gives
  BY RolesDoNot DEF Silent, Words, LetsIn, Gives
<1>5. \A key : x \in BindingFacts(index, key) => x[2] # "permits"
  BY OthersDoNot DEF Silent, Words, LetsIn, Gives
<1>6. x \in facts /\ x[2] = "permits" <=>
        \E r \in Range(seq) : r.kind \in Roles /\ \E rule \in r.rules :
          \E perm \in Permissions(rule) : x = <<Key(r), "permits", perm>>
  <2>1. x \in facts /\ x[2] = "permits" <=>
          \E key \in DOMAIN index : InRole(key) /\ x[2] = "permits"
    BY <1>3, <1>5 DEF Words, LetsIn, Gives
  <2>2. \A key : InRole(key) /\ x[2] = "permits" <=>
          key[1] \in Roles /\ \E rule \in index[key].rules :
            \E perm \in Permissions(rule) : x = <<key, "permits", perm>>
    BY RolesSay
  <2> HIDE DEF InRole, InBinding
  <2>3. ASSUME NEW r \in Range(seq), r.kind \in Roles
        PROVE  Key(r) \in DOMAIN index /\ index[Key(r)] = r /\ Key(r)[1] \in Roles
    BY <1>1, <1>2, <2>3 DEF Roles
  <2>4. \A key \in DOMAIN index : key[1] \in Roles =>
          \E r \in Range(seq) : Key(r) = key /\ index[key] = r /\ r.kind \in Roles
    <3> SUFFICES ASSUME NEW key \in DOMAIN index, key[1] \in Roles
                 PROVE  \E r \in Range(seq) : Key(r) = key /\ index[key] = r /\ r.kind \in Roles
      OBVIOUS
    <3>1. PICK r \in Range(seq) : Key(r) = key /\ index[key] = r
      BY <1>1
    <3>2. r.kind = key[1]
      BY <1>2, <3>1
    <3>3. QED
      BY <3>1, <3>2
  <2> HIDE DEF Roles, Permissions
  <2>5. QED
    BY <2>1, <2>2, <2>3, <2>4
<1>7. ASSUME NEW b \in Range(seq), b.kind \in RoleBindings
      PROVE  /\ Key(b) \in DOMAIN index /\ index[Key(b)] = b /\ Key(b)[1] \in RoleBindings
             /\ x \in BindingFacts(index, Key(b)) <=>
                  \/ x = <<Key(b), "grants", RoleOf(b)>>
                  \/ \E sub \in b.subjects : x = <<Key(b), "subjectOf", SubjectOf(sub, Key(b)[2])>>
  <2>1. Key(b) \in DOMAIN index /\ index[Key(b)] = b /\ Key(b)[1] \in RoleBindings
    BY <1>1, <1>2, <1>7 DEF RoleBindings
  <2>2. QED
    BY <2>1, BindingsSay
<1>8. \A key \in DOMAIN index : key[1] \in RoleBindings =>
        \E b \in Range(seq) : Key(b) = key /\ index[key] = b /\ b.kind \in RoleBindings
  <2> SUFFICES ASSUME NEW key \in DOMAIN index, key[1] \in RoleBindings
               PROVE  \E b \in Range(seq) :
                        Key(b) = key /\ index[key] = b /\ b.kind \in RoleBindings
    OBVIOUS
  <2>1. PICK b \in Range(seq) : Key(b) = key /\ index[key] = b
    BY <1>1
  <2>2. b.kind = key[1]
    BY <1>2, <2>1
  <2>3. QED
    BY <2>1, <2>2
<1>9. x[2] \in Gives =>
        (x \in facts <=>
           \E b \in Range(seq) : b.kind \in RoleBindings /\ x \in BindingFacts(index, Key(b)))
  <2>1. ASSUME x[2] \in Gives
        PROVE  x \in facts <=> \E key \in DOMAIN index : InBinding(key)
    <3>1. x[2] \in Words \ {"contains"} /\ x[2] \notin LetsIn /\ x[2] # "replicasOnNode"
      BY <2>1 DEF Words, LetsIn, Gives
    <3>2. \A key : ~ InRole(key)
      BY <1>4, <2>1
    <3> HIDE DEF InRole, InBinding
    <3>3. QED
      BY <1>3, <3>1, <3>2
  <2>2. QED
    BY <1>7, <1>8, <2>1
<1> HIDE DEF InRole, InBinding
<1>10. x \in facts /\ x[2] = "grants" <=>
         \E b \in Range(seq) : b.kind \in RoleBindings /\ x = <<Key(b), "grants", RoleOf(b)>>
  BY <1>7, <1>9 DEF Gives
<1>11. x \in facts /\ x[2] = "subjectOf" <=>
         \E b \in Range(seq) : b.kind \in RoleBindings /\ \E sub \in b.subjects :
           x = <<Key(b), "subjectOf", SubjectOf(sub, Key(b)[2])>>
  BY <1>7, <1>9 DEF Gives
<1>12. QED
  BY <1>6, <1>10, <1>11 DEF facts

LEMMA FactsBind ==
  ASSUME NEW b, Admitted(b), b.kind \in RoleBindings, NEW r, r.kind \in Roles,
         NEW ns, NEW account
  PROVE  Binds(b, r, ns, account) <=>
           /\ RoleOf(b) = Key(r)
           /\ \E sub \in b.subjects :
                SubjectOf(sub, Key(b)[2]) = <<"ServiceAccount", ns, account>>
<1>1. b.role[1] \in Roles
  BY DEF Admitted, RoleBindings, Roles
<1>2. RoleOf(b) = Key(r) <=>
        /\ r.kind = b.role[1] /\ r.name = b.role[2]
        /\ r.kind = "Role" => Key(r)[2] = Key(b)[2]
  <2>1. Key(r)[1] = r.kind /\ Key(r)[3] = r.name /\ Key(r) = <<Key(r)[1], Key(r)[2], Key(r)[3]>>
    BY DEF Key
  <2>2. r.kind = "ClusterRole" => Key(r)[2] = Nothing
    BY DEF Key, ClusterKinds
  <2>3. QED
    BY <1>1, <2>1, <2>2 DEF RoleOf, Roles
<1>3. ASSUME NEW sub \in b.subjects
      PROVE  SubjectOf(sub, Key(b)[2]) = <<"ServiceAccount", ns, account>> <=>
               /\ sub.kind = "ServiceAccount" /\ sub.name = account
               /\ IF sub.ns = Nothing THEN Key(b)[2] = ns ELSE sub.ns = ns
  <2>1. CASE sub.kind = "ServiceAccount"
    <3>1. CASE sub.ns = Nothing
      <4>1. b.kind = "RoleBinding"
        BY <2>1, <3>1 DEF Admitted, RoleBindings
      <4>2. Key(b)[2] = Nothing => Key(b)[2] = "default"
        BY <4>1 DEF Key, ClusterKinds
      <4>3. QED
        BY <2>1, <3>1, <4>2 DEF SubjectOf
    <3>2. CASE sub.ns # Nothing
      BY <2>1, <3>2 DEF SubjectOf
    <3>3. QED
      BY <3>1, <3>2
  <2>2. CASE sub.kind # "ServiceAccount"
    BY <2>2 DEF SubjectOf
  <2>3. QED
    BY <2>1, <2>2
<1>4. QED
  BY <1>2, <1>3 DEF Binds, RoleBindings

LEMMA AdmittedStay ==
  ASSUME AllAdmitted
  PROVE  /\ K8sInit => \A o \in ever : Admitted(o)
         /\ (\A o \in ever : Admitted(o)) /\ [K8sNext]_k8sVars => (\A o \in ever : Admitted(o))'
<1>1. K8sInit => \A o \in ever : Admitted(o)
  BY DEF K8sInit, AllAdmitted
<1>2. ASSUME [K8sNext]_k8sVars
      PROVE  \/ ever' = ever
             \/ \E x \in Arrivals : ever' = ever \cup {x}
             \/ \E seq \in Manifests : ever' = Range(seq)
  BY <1>2 DEF K8sNext, Appears, Disappears, List, ListFails, ReadManifests, BuildSnapshot, k8sVars
<1>3. (\A x \in Arrivals : Admitted(x)) /\ \A seq \in Manifests : \A o \in Range(seq) : Admitted(o)
  BY DEF AllAdmitted
<1>4. QED
  BY <1>1, <1>2, <1>3

\* The permissions the facts of a snapshot lead to, from a service account
\* through its bindings to their roles, are those Kubernetes gives it by the
\* objects that were read (build_snapshot, "Role" and "RoleBinding").
THEOREM PermissionsAreTrue ==
  ASSUME KeysOnce, AllAdmitted
  PROVE  K8sSpec => []PermitsAgree
<1> DEFINE Fit == \A o \in ever : Admitted(o)
<1>1. ListInv /\ FiledInv /\ Fit => PermitsAgree
  <2> SUFFICES ASSUME ListInv, FiledInv, Fit, SnapshotBuilt, NEW ns, NEW account
               PROVE  PermittedByFacts(ns, account) = PermittedByRules(ns, account)
    BY DEF PermitsAgree
  <2> DEFINE facts == snap.snapshot
             subject == <<"ServiceAccount", ns, account>>
  <2>1. /\ objects \in Seq(Range(objects)) /\ Distinct(Range(objects))
        /\ facts = SnapshotOf(objects, pods, failed).snapshot
        /\ \A o \in Range(objects) : Admitted(o)
    <3>1. objects \in Seq(ever) /\ snap = SnapshotOf(objects, pods, failed)
      BY DEF ListInv, ListTypes
    <3>2. objects \in Seq(Range(objects))
      BY <3>1, OwnRange
    <3>3. Range(objects) \subseteq ever
      BY <3>1, ElementsAreOf DEF Range
    <3>4. QED
      BY <3>1, <3>2, <3>3 DEF FiledInv
  <2> HIDE DEF facts
  <2>2. \A x : x \in facts /\ x[2] = "permits" <=>
          \E r \in Range(objects) : r.kind \in Roles /\ \E rule \in r.rules :
            \E perm \in Permissions(rule) : x = <<Key(r), "permits", perm>>
    BY <2>1, SnapshotPermits
  <2>3. \A x : x \in facts /\ x[2] = "grants" <=>
          \E b \in Range(objects) : b.kind \in RoleBindings /\ x = <<Key(b), "grants", RoleOf(b)>>
    BY <2>1, SnapshotPermits
  <2>4. \A x : x \in facts /\ x[2] = "subjectOf" <=>
          \E b \in Range(objects) : b.kind \in RoleBindings /\ \E sub \in b.subjects :
            x = <<Key(b), "subjectOf", SubjectOf(sub, Key(b)[2])>>
    BY <2>1, SnapshotPermits
  <2>5. ASSUME NEW b \in Range(objects), b.kind \in RoleBindings
        PROVE  <<Key(b), "subjectOf", subject>> \in facts <=>
                 \E sub \in b.subjects : SubjectOf(sub, Key(b)[2]) = subject
    <3> DEFINE x == <<Key(b), "subjectOf", subject>>
    <3>1. x[1] = Key(b) /\ x[2] = "subjectOf" /\ x[3] = subject
      OBVIOUS
    <3>2. x \in facts <=>
            \E c \in Range(objects) : c.kind \in RoleBindings /\ \E sub \in c.subjects :
              x = <<Key(c), "subjectOf", SubjectOf(sub, Key(c)[2])>>
      BY <2>4
    <3>3. \A c \in Range(objects) : \A s : x = <<Key(c), "subjectOf", s>> <=> c = b /\ s = subject
      BY <2>1 DEF Distinct
    <3> HIDE DEF x, subject
    <3>4. QED
      BY <2>5, <3>2, <3>3 DEF x
  <2>6. ASSUME NEW perm
        PROVE  perm \in PermittedByFacts(ns, account) <=>
                 \E r \in Range(objects), b \in Range(objects) :
                   /\ r.kind \in Roles /\ b.kind \in RoleBindings
                   /\ \E rule \in r.rules : perm \in Permissions(rule)
                   /\ RoleOf(b) = Key(r)
                   /\ \E sub \in b.subjects : SubjectOf(sub, Key(b)[2]) = subject
    <3>1. perm \in PermittedByFacts(ns, account) <=>
            \E g \in facts : g[2] = "permits" /\ g[3] = perm /\
              \E x \in facts : x[2] = "grants" /\ x[3] = g[1]
                                 /\ <<x[1], "subjectOf", subject>> \in facts
      BY DEF PermittedByFacts, facts
    <3> HIDE DEF subject
    <3>2. \A rk : (\E g \in facts : g[2] = "permits" /\ g[3] = perm /\ g[1] = rk) <=>
            \E r \in Range(objects) : r.kind \in Roles /\ Key(r) = rk
              /\ \E rule \in r.rules : perm \in Permissions(rule)
      <4>1. ASSUME NEW g \in facts, g[2] = "permits", g[3] = perm
            PROVE  \E r \in Range(objects) : r.kind \in Roles /\ Key(r) = g[1]
                     /\ \E rule \in r.rules : perm \in Permissions(rule)
        <5>1. PICK r \in Range(objects) : r.kind \in Roles /\ \E rule \in r.rules :
                \E q \in Permissions(rule) : g = <<Key(r), "permits", q>>
          BY <2>2, <4>1
        <5>2. QED
          BY <4>1, <5>1
      <4>2. ASSUME NEW r \in Range(objects), r.kind \in Roles,
                   NEW rule \in r.rules, perm \in Permissions(rule)
            PROVE  \E g \in facts : g[2] = "permits" /\ g[3] = perm /\ g[1] = Key(r)
        <5> DEFINE g == <<Key(r), "permits", perm>>
        <5>1. g \in facts
          BY <2>2, <4>2
        <5>2. g[1] = Key(r) /\ g[2] = "permits" /\ g[3] = perm
          OBVIOUS
        <5> HIDE DEF g
        <5>3. QED
          BY <5>1, <5>2
      <4>3. QED
        BY <4>1, <4>2
    <3>3. \A rk : (\E x \in facts : x[2] = "grants" /\ x[3] = rk
                                      /\ <<x[1], "subjectOf", subject>> \in facts) <=>
            \E b \in Range(objects) : b.kind \in RoleBindings /\ RoleOf(b) = rk
              /\ \E sub \in b.subjects : SubjectOf(sub, Key(b)[2]) = subject
      <4>1. ASSUME NEW x \in facts, x[2] = "grants", <<x[1], "subjectOf", subject>> \in facts
            PROVE  \E b \in Range(objects) : b.kind \in RoleBindings /\ RoleOf(b) = x[3]
                     /\ \E sub \in b.subjects : SubjectOf(sub, Key(b)[2]) = subject
        <5>1. PICK b \in Range(objects) :
                b.kind \in RoleBindings /\ x = <<Key(b), "grants", RoleOf(b)>>
          BY <2>3, <4>1
        <5>2. x[1] = Key(b) /\ x[3] = RoleOf(b)
          BY <5>1
        <5>3. QED
          BY <2>5, <4>1, <5>1, <5>2
      <4>2. ASSUME NEW b \in Range(objects), b.kind \in RoleBindings,
                   \E sub \in b.subjects : SubjectOf(sub, Key(b)[2]) = subject
            PROVE  \E x \in facts : x[2] = "grants" /\ x[3] = RoleOf(b)
                                      /\ <<x[1], "subjectOf", subject>> \in facts
        <5> DEFINE x == <<Key(b), "grants", RoleOf(b)>>
        <5>1. x \in facts
          BY <2>3, <4>2
        <5>2. x[1] = Key(b) /\ x[2] = "grants" /\ x[3] = RoleOf(b)
          OBVIOUS
        <5>3. <<x[1], "subjectOf", subject>> \in facts
          BY <2>5, <4>2, <5>2
        <5> HIDE DEF x
        <5>4. QED
          BY <5>1, <5>2, <5>3
      <4>3. QED
        BY <4>1, <4>2
    <3> DEFINE P(rk) == \E g \in facts : g[2] = "permits" /\ g[3] = perm /\ g[1] = rk
               Q(rk) == \E x \in facts : x[2] = "grants" /\ x[3] = rk
                                           /\ <<x[1], "subjectOf", subject>> \in facts
               PR(r) == r.kind \in Roles /\ \E rule \in r.rules : perm \in Permissions(rule)
               QB(b) == b.kind \in RoleBindings
                          /\ \E sub \in b.subjects : SubjectOf(sub, Key(b)[2]) = subject
    <3>4. perm \in PermittedByFacts(ns, account) <=> \E rk : P(rk) /\ Q(rk)
      BY <3>1
    <3>5. \A rk : P(rk) <=> \E r \in Range(objects) : PR(r) /\ Key(r) = rk
      BY <3>2
    <3>6. \A rk : Q(rk) <=> \E b \in Range(objects) : QB(b) /\ RoleOf(b) = rk
      BY <3>3
    <3>7. (\E rk : P(rk) /\ Q(rk)) <=>
            \E r \in Range(objects), b \in Range(objects) : PR(r) /\ QB(b) /\ RoleOf(b) = Key(r)
      <4> HIDE DEF P, Q, PR, QB
      <4>1. QED
        BY <3>5, <3>6
    <3> HIDE DEF P, Q
    <3>8. QED
      BY <3>4, <3>7
  <2>7. ASSUME NEW r \in Range(objects), r.kind \in Roles, NEW rule \in r.rules
        PROVE  Permissions(rule) = rule.groups \X rule.resources \X rule.verbs
    <3>1. rule.groups = {} => rule.resources = {}
      BY <2>1, <2>7 DEF Admitted, Roles
    <3>2. QED
      BY <3>1 DEF Permissions, GroupsOf
  <2>8. ASSUME NEW perm
        PROVE  perm \in PermittedByRules(ns, account) <=>
                 \E r \in Range(objects), b \in Range(objects) :
                   /\ Binds(b, r, ns, account)
                   /\ \E rule \in r.rules : perm \in rule.groups \X rule.resources \X rule.verbs
    <3> DEFINE bound == {r \in Range(objects) :
                           \E b \in Range(objects) : Binds(b, r, ns, account)}
               rules == UNION {r.rules : r \in bound}
               Gives3(rule) == rule.groups \X rule.resources \X rule.verbs
    <3>1. PermittedByRules(ns, account) = UNION {Gives3(rule) : rule \in rules}
      BY DEF PermittedByRules
    <3> HIDE DEF Gives3
    <3>2. perm \in PermittedByRules(ns, account) <=>
            \E r \in bound : \E rule \in r.rules : perm \in Gives3(rule)
      BY <3>1
    <3>3. QED
      BY <3>2 DEF Gives3
  <2>9. ASSUME NEW r \in Range(objects), NEW b \in Range(objects), Binds(b, r, ns, account)
        PROVE  r.kind \in Roles /\ b.kind \in RoleBindings
    BY <2>1, <2>9 DEF Binds, Admitted, Roles, RoleBindings
  <2>10. \A perm : perm \in PermittedByFacts(ns, account) <=> perm \in PermittedByRules(ns, account)
    BY <2>1, <2>6, <2>7, <2>8, <2>9, FactsBind
  <2>11. QED
    BY <2>10
<1>2. K8sInit => ListInv /\ FiledInv /\ Fit
  BY ListInit, FiledInit, AdmittedStay
<1>3. ListInv /\ FiledInv /\ Fit /\ [K8sNext]_k8sVars => ListInv' /\ FiledInv' /\ Fit'
  BY ListStep, FiledStep, AdmittedStay
<1> HIDE DEF Fit
<1>4. QED
  BY <1>1, <1>2, <1>3, PTL DEF K8sSpec

-----------------------------------------------------------------------------
(***************************************************************************)
(* Placement.                                                              *)
(***************************************************************************)
\* The listing began with these objects.
Began(objs) ==
  /\ objs \in Clusters
  /\ lasting \subseteq objs /\ objs \subseteq ever /\ ever \subseteq objs \cup Arrivals

PlacedInv ==
  /\ changes \in Nat
  /\ cluster = {} /\ changes = 0 => pods = <<>>
  /\ cluster # {} \/ changes # 0 => \E objs : Began(objs)
  /\ IsFiniteSet(Range(pods)) /\ pods \in Orders(Range(pods))
  /\ \A p \in Range(pods) : p \in ever /\ p.kind = "Pod"

LEMMA NoneAreInOrder ==
  IsFiniteSet(Range(<<>>)) /\ <<>> \in Orders(Range(<<>>)) /\ Range(<<>>) = {}
<1>1. Range(<<>>) = {}
  BY DEF Range
<1>2. IsFiniteSet({}) /\ Cardinality({}) = 0
  BY FS_EmptySet
<1>3. <<>> \in [1 .. 0 -> {}]
  OBVIOUS
<1>4. QED
  BY <1>1, <1>2, <1>3 DEF Orders

LEMMA PlacedInit == K8sInit => PlacedInv
<1> SUFFICES ASSUME K8sInit PROVE PlacedInv
  OBVIOUS
<1>1. /\ cluster \in Clusters \cup {{}} /\ changes = 0 /\ ever = cluster /\ lasting = cluster
      /\ pods = <<>>
  BY DEF K8sInit
<1>2. cluster # {} => Began(cluster)
  BY <1>1 DEF Began
<1>3. QED
  BY <1>1, <1>2, NoneAreInOrder DEF PlacedInv

LEMMA PlacedStep == ListInv /\ PlacedInv /\ [K8sNext]_k8sVars => PlacedInv'
<1> SUFFICES ASSUME ListInv, PlacedInv, [K8sNext]_k8sVars PROVE PlacedInv'
  OBVIOUS
<1>1. ASSUME NEW x \in Arrivals, Appears(x) PROVE PlacedInv'
  <2>1. /\ cluster # {} /\ ever' = ever \cup {x} /\ changes' = changes + 1
        /\ UNCHANGED <<lasting, pods>>
    BY <1>1 DEF Appears
  <2>2. \A objs : Began(objs) => Began(objs)'
    BY <2>1 DEF Began
  <2>3. QED
    BY <2>1, <2>2 DEF PlacedInv
<1>2. ASSUME NEW x \in cluster, Disappears(x) PROVE PlacedInv'
  <2>1. /\ lasting' = lasting \ {x} /\ changes' = changes + 1 /\ UNCHANGED <<ever, pods>>
    BY <1>2 DEF Disappears
  <2>2. \A objs : Began(objs) => Began(objs)'
    BY <2>1 DEF Began
  <2>3. changes' # 0 /\ changes' \in Nat
    BY <2>1 DEF PlacedInv
  <2>4. QED
    BY <1>2, <2>1, <2>2, <2>3 DEF PlacedInv
<1>3. CASE List
  <2> DEFINE of == {o \in cluster : o.kind = Head(todo)}
  <2>1. cluster # {} /\ UNCHANGED <<cluster, changes, ever, lasting>>
    BY <1>3 DEF List
  <2>2. PICK seq \in Orders(of) : IF Head(todo) = "Pod" THEN pods' = seq ELSE UNCHANGED pods
    BY <1>3 DEF List
  <2>3. \A objs : Began(objs) => Began(objs)'
    BY <2>1 DEF Began
  <2>4. CASE Head(todo) = "Pod"
    <3>1. IsFiniteSet(of) /\ of \subseteq ever
      <4>1. IsFiniteSet(cluster) /\ cluster \subseteq ever
        BY DEF ListInv, ListTypes
      <4>2. of \in SUBSET cluster
        OBVIOUS
      <4> HIDE DEF of
      <4>3. QED
        BY <4>1, <4>2, FS_Subset
    <3>2. pods' = seq /\ Range(seq) = of
      BY <2>2, <2>4 DEF Orders
    <3>3. \A p \in of : p.kind = "Pod"
      BY <2>4
    <3> HIDE DEF of
    <3>4. IsFiniteSet(Range(pods')) /\ pods' \in Orders(Range(pods'))
      BY <2>2, <3>1, <3>2
    <3>5. \A p \in Range(pods') : p \in ever' /\ p.kind = "Pod"
      BY <2>1, <3>1, <3>2, <3>3
    <3>6. QED
      BY <2>1, <2>3, <3>4, <3>5 DEF PlacedInv
  <2>5. CASE Head(todo) # "Pod"
    BY <2>1, <2>2, <2>3, <2>5 DEF PlacedInv
  <2>6. QED
    BY <2>4, <2>5
<1>4. CASE ListFails \/ BuildSnapshot \/ UNCHANGED k8sVars
  <2>1. UNCHANGED <<cluster, changes, ever, lasting, pods>>
    BY <1>4 DEF ListFails, BuildSnapshot, k8sVars
  <2>2. \A objs : Began(objs) => Began(objs)'
    BY <2>1 DEF Began
  <2>3. QED
    BY <2>1, <2>2 DEF PlacedInv
<1>5. CASE ReadManifests
  <2>1. cluster = {} /\ changes = 0 /\ UNCHANGED <<cluster, changes, pods>>
    BY <1>5 DEF ReadManifests
  <2>2. pods = <<>>
    BY <2>1 DEF PlacedInv
  <2>3. QED
    BY <2>1, <2>2, NoneAreInOrder DEF PlacedInv
<1>6. QED
  BY <1>1, <1>2, <1>3, <1>4, <1>5 DEF K8sNext

\* What is next above an object, of those there have been.
Above(b) == {a \in ever : b.owner = <<a.kind, a.name>> /\ Key(a)[2] = Key(b)[2]}

LEMMA ControllersAre ==
  ASSUME NEW p, NEW a
  PROVE  a \in Controllers(p) <=>
           \/ a \in Above(p)
           \/ \E b \in Above(p) : b.kind \in {"Pod", "ReplicaSet", "Job"} /\ a \in Above(b)
<1> DEFINE Owned == {o \in ever : o.kind \in {"Pod", "ReplicaSet", "Job"}}
           two == UNION {Above(b) : b \in Above(p) \cap Owned}
<1>1. Controllers(p) = Above(p) \cup two
  BY DEF Controllers, Above
<1>2. a \in two <=>
        \E b \in Above(p) : b.kind \in {"Pod", "ReplicaSet", "Job"} /\ a \in Above(b)
  <2>1. Above(p) \subseteq ever
    BY DEF Above
  <2> HIDE DEF Above
  <2>2. QED
    BY <2>1
<1> HIDE DEF two
<1>3. QED
  BY <1>1, <1>2

\* The workload that is attributed what refers to ref.
Attributed(index, ns, ref) ==
  LET job == <<"Job", ns, ref[2]>>
  IN IF ref[1] = "Job" /\ job \in DOMAIN index
          /\ index[job].owner # Nothing /\ index[job].owner[1] = "CronJob"
     THEN <<"CronJob", ns, index[job].owner[2]>> ELSE <<ref[1], ns, ref[2]>>

LEMMA PodNamespace ==
  ASSUME NEW p, p.kind = "Pod"
  PROVE  (IF p.ns = Nothing THEN "default" ELSE p.ns) = Key(p)[2]
  BY DEF Key, ClusterKinds

LEMMA OwnedDirectly ==
  ASSUME NEW index, NEW p, p.kind = "Pod", p.owner # Nothing, p.owner[1] # "ReplicaSet"
  PROVE  PodOwner(index, p) =
           IF p.owner[1] \in WorkloadKinds THEN Attributed(index, Key(p)[2], p.owner)
           ELSE Nothing
<1> DEFINE ns == Key(p)[2]
<1>1. Through(index, ns, Through(index, ns, p.owner)) = p.owner
  BY DEF Through
<1>2. QED
  BY <1>1, PodNamespace DEF PodOwner, Attributed

LEMMA OwnedThrough ==
  ASSUME NEW index, NEW p, p.kind = "Pod", p.owner # Nothing, p.owner[1] = "ReplicaSet"
  PROVE  LET ns == Key(p)[2]
             rs == <<"ReplicaSet", ns, p.owner[2]>>
             ref == index[rs].owner
         IN /\ rs \notin DOMAIN index \/ ref = Nothing => PodOwner(index, p) = Nothing
            /\ rs \in DOMAIN index /\ ref # Nothing /\ ref[1] # "ReplicaSet" =>
                 PodOwner(index, p) =
                   IF ref[1] \in WorkloadKinds THEN Attributed(index, ns, ref) ELSE Nothing
<1> DEFINE ns == Key(p)[2]
           rs == <<"ReplicaSet", ns, p.owner[2]>>
           ref == index[rs].owner
<1>1. Through(index, ns, p.owner) = IF rs \in DOMAIN index THEN ref ELSE Nothing
  BY DEF Through
<1>2. Through(index, ns, Nothing) = Nothing
  BY DEF Through
<1>3. ref # Nothing /\ ref[1] # "ReplicaSet" => Through(index, ns, ref) = ref
  BY DEF Through
<1>4. ASSUME NEW to, Through(index, ns, Through(index, ns, p.owner)) = to
      PROVE  PodOwner(index, p) =
               IF to = Nothing \/ to[1] \notin WorkloadKinds THEN Nothing
               ELSE Attributed(index, ns, to)
  BY <1>4, PodNamespace DEF PodOwner, Attributed
<1> HIDE DEF ns, ref, rs
<1>5. rs \notin DOMAIN index \/ ref = Nothing => PodOwner(index, p) = Nothing
  BY <1>1, <1>2, <1>4
<1>6. rs \in DOMAIN index /\ ref # Nothing /\ ref[1] # "ReplicaSet" =>
        PodOwner(index, p) =
          IF ref[1] \in WorkloadKinds THEN Attributed(index, ns, ref) ELSE Nothing
  BY <1>1, <1>3, <1>4
<1>7. QED
  BY <1>5, <1>6 DEF ns, ref, rs

LEMMA NoOwnerNoPlace ==
  ASSUME NEW index, NEW p, p.owner = Nothing
  PROVE  PodOwner(index, p) = Nothing
  BY DEF PodOwner, Through

LEMMA KeyParts ==
  ASSUME NEW o
  PROVE  Key(o) = <<o.kind, Key(o)[2], o.name>>
  BY DEF Key

\* What the owners of objects there have been are like.
OwnersInv ==
  /\ \A o \in ever :
       /\ Nothing \notin {<<o.kind, o.name>>, Key(o)}
       /\ o.owner # Nothing =>
            /\ o.owner = <<o.owner[1], o.owner[2]>>
            /\ o.kind = "Pod" => o.owner[1] # "Pod"
            /\ o.kind = "ReplicaSet" => o.owner[1] \notin {"ReplicaSet", "Job"}
            /\ o.kind = "Job" => o.owner[1] \notin WorkloadKinds \ {"CronJob"}
  /\ \A a, b \in ever : a.kind = "Job" /\ Key(a) = Key(b) => a.owner = b.owner
  /\ \A j \in lasting : j.kind = "Job" /\ j.owner # Nothing /\ j.owner[1] = "CronJob" =>
       \E c \in Above(j) : c.kind = "CronJob"

LEMMA OwnersHold ==
  ASSUME ControllersOwn, NEW objs, Began(objs)
  PROVE  OwnersInv
<1>1. /\ objs \in Clusters /\ lasting \subseteq objs /\ objs \subseteq ever
      /\ ever \subseteq objs \cup Arrivals
  BY DEF Began
<1>2. \A o \in ever : Placed(o)
  BY <1>1, K8sAssumption DEF Placed
<1> DEFINE all == objs \cup Arrivals
<1>3. /\ \A o \in all :
           /\ Nothing \notin {<<o.kind, o.name>>, Key(o)}
           /\ o.owner # Nothing =>
                /\ o.owner = <<o.owner[1], o.owner[2]>>
                /\ o.kind = "Pod" => o.owner[1] # "Pod"
                /\ o.kind = "ReplicaSet" => o.owner[1] \notin {"ReplicaSet", "Job"}
                /\ o.kind = "Job" => o.owner[1] \notin WorkloadKinds \ {"CronJob"}
      /\ \A a, b \in all :
           a.kind = "Job" /\ <<a.kind, a.ns, a.name>> = <<b.kind, b.ns, b.name>> =>
             a.owner = b.owner
      /\ \A j \in objs : j.kind = "Job" /\ j.owner # Nothing /\ j.owner[1] = "CronJob" =>
           \E c \in objs : <<c.kind, c.ns, c.name>> = <<"CronJob", j.ns, j.owner[2]>>
  BY <1>1 DEF ControllersOwn, OwnersAreControllers
<1>4. \A a, b \in ever : a.kind = "Job" /\ Key(a) = Key(b) => a.owner = b.owner
  BY <1>1, <1>2, <1>3, KeysTell
<1>5. ASSUME NEW j \in lasting, j.kind = "Job", j.owner # Nothing, j.owner[1] = "CronJob"
      PROVE  \E c \in Above(j) : c.kind = "CronJob"
  <2>1. PICK c \in objs : c.kind = "CronJob" /\ c.ns = j.ns /\ c.name = j.owner[2]
    BY <1>1, <1>3, <1>5
  <2>2. Key(c)[2] = Key(j)[2]
    BY <1>5, <2>1 DEF Key, ClusterKinds
  <2>3. j.owner = <<c.kind, c.name>>
    BY <1>1, <1>3, <1>5, <2>1
  <2>4. QED
    BY <1>1, <2>1, <2>2, <2>3 DEF Above
<1>6. QED
  BY <1>1, <1>3, <1>4, <1>5 DEF OwnersInv

\* A job that is filed and is of no CronJob.
OfNoCron(j) == j.owner = Nothing \/ j.owner[1] # "CronJob"

LEMMA AttributedIsAbove ==
  ASSUME OwnersInv, NEW index,
         \A key \in DOMAIN index : index[key] \in ever /\ Key(index[key]) = key,
         NEW b \in ever, b.owner # Nothing, NEW w \in ever, Key(w) \in DOMAIN index,
         Attributed(index, Key(b)[2], b.owner) = Key(w)
  PROVE  \/ w \in Above(b) /\ (w.kind = "Job" => OfNoCron(w))
         \/ /\ w.kind = "CronJob" /\ b.owner[1] = "Job"
            /\ \E j \in Above(b) : j.kind = "Job" /\ w \in Above(j)
<1> DEFINE ns == Key(b)[2]
           job == <<"Job", ns, b.owner[2]>>
           j == index[job]
<1>1. b.owner = <<b.owner[1], b.owner[2]>>
  BY DEF OwnersInv
<1>2. w.kind = Key(w)[1] /\ w.name = Key(w)[3]
  BY KeyParts
<1>3. CASE b.owner[1] = "Job" /\ job \in DOMAIN index /\ j.owner # Nothing
             /\ j.owner[1] = "CronJob"
  <2>1. Key(w) = <<"CronJob", ns, j.owner[2]>>
    BY <1>3 DEF Attributed
  <2>2. j \in ever /\ Key(j) = job
    BY <1>3
  <2>3. j.kind = "Job" /\ j.name = b.owner[2] /\ Key(j)[2] = ns
    BY <2>2, KeyParts
  <2>4. j \in Above(b)
    BY <1>1, <1>3, <2>2, <2>3 DEF Above
  <2>5. j.owner = <<j.owner[1], j.owner[2]>>
    BY <1>3, <2>2 DEF OwnersInv
  <2>6. w \in Above(j)
    BY <1>2, <1>3, <2>1, <2>3, <2>5 DEF Above
  <2>7. QED
    BY <1>2, <1>3, <2>1, <2>3, <2>4, <2>6
<1>4. CASE ~ (b.owner[1] = "Job" /\ job \in DOMAIN index /\ j.owner # Nothing
                /\ j.owner[1] = "CronJob")
  <2>1. Key(w) = <<b.owner[1], ns, b.owner[2]>>
    BY <1>4 DEF Attributed
  <2>2. w \in Above(b)
    BY <1>1, <1>2, <2>1 DEF Above
  <2>3. ASSUME w.kind = "Job" PROVE OfNoCron(w)
    <3>1. Key(w) = job /\ job \in DOMAIN index /\ b.owner[1] = "Job"
      BY <1>2, <2>1, <2>3
    <3>2. j \in ever /\ Key(j) = Key(w)
      BY <3>1
    <3>3. j.owner = w.owner
      BY <2>3, <3>2 DEF OwnersInv
    <3>4. QED
      BY <1>4, <3>1, <3>3 DEF OfNoCron
  <2>4. QED
    BY <2>2, <2>3
<1>5. QED
  BY <1>3, <1>4

LEMMA PlacedByItsOwners ==
  ASSUME OwnersInv, NEW index,
         \A key \in DOMAIN index : index[key] \in ever /\ Key(index[key]) = key,
         NEW p \in ever, p.kind = "Pod", NEW w \in ever, w.kind \in WorkloadKinds,
         Key(w) \in DOMAIN index, PodOwner(index, p) = Key(w)
  PROVE  w \in TopOwners(p)
<1>1. Key(w) # Nothing /\ p.owner # Nothing
  BY NoOwnerNoPlace DEF OwnersInv
<1>2. p.owner = <<p.owner[1], p.owner[2]>>
  BY <1>1 DEF OwnersInv
<1>3. w \in Controllers(p) /\ (w.kind = "Job" => w \in Above(p) /\ OfNoCron(w))
  <2>1. CASE p.owner[1] # "ReplicaSet"
    <3>1. Attributed(index, Key(p)[2], p.owner) = Key(w)
      BY <1>1, <2>1, OwnedDirectly
    <3>2. \/ w \in Above(p) /\ (w.kind = "Job" => OfNoCron(w))
          \/ w.kind = "CronJob" /\ \E j \in Above(p) : j.kind = "Job" /\ w \in Above(j)
      BY <1>1, <3>1, AttributedIsAbove
    <3>3. QED
      BY <3>2, ControllersAre
  <2>2. CASE p.owner[1] = "ReplicaSet"
    <3> DEFINE rs == <<"ReplicaSet", Key(p)[2], p.owner[2]>>
               r == index[rs]
    <3>1. rs \in DOMAIN index /\ r.owner # Nothing
      BY <1>1, <2>2, OwnedThrough
    <3>2. r \in ever /\ Key(r) = rs
      BY <3>1
    <3>3. r.kind = "ReplicaSet" /\ r.name = p.owner[2] /\ Key(r)[2] = Key(p)[2]
      BY <3>2, KeyParts
    <3>4. r.owner[1] \notin {"ReplicaSet", "Job"}
      BY <3>1, <3>2, <3>3 DEF OwnersInv
    <3>5. r \in Above(p)
      BY <1>2, <2>2, <3>2, <3>3 DEF Above
    <3>6. Attributed(index, Key(r)[2], r.owner) = Key(w)
      <4> HIDE DEF r
      <4>1. PodOwner(index, p) =
              IF r.owner[1] \in WorkloadKinds THEN Attributed(index, Key(p)[2], r.owner)
              ELSE Nothing
        BY <1>1, <2>2, <3>1, <3>4, OwnedThrough DEF r
      <4>2. QED
        BY <1>1, <3>3, <4>1
    <3> HIDE DEF r, rs
    <3>7. w \in Above(r)
      BY <3>1, <3>2, <3>4, <3>6, AttributedIsAbove
    <3>8. w.kind # "Job"
      BY <3>4, <3>7 DEF Above
    <3>9. QED
      BY <3>3, <3>5, <3>7, <3>8, ControllersAre
  <2>3. QED
    BY <2>1, <2>2
<1>4. ASSUME w.kind = "Job", NEW c \in Controllers(p), c.kind = "CronJob" PROVE FALSE
  <2>1. w \in Above(p) /\ OfNoCron(w)
    BY <1>3, <1>4
  <2>2. p.owner = <<"Job", w.name>> /\ Key(w)[2] = Key(p)[2]
    BY <1>4, <2>1 DEF Above
  <2>3. c \notin Above(p)
    BY <1>4, <2>2 DEF Above
  <2>4. PICK b \in Above(p) : c \in Above(b)
    BY <2>3, ControllersAre
  <2>5. b \in ever /\ b.kind = "Job" /\ b.name = w.name /\ Key(b)[2] = Key(w)[2]
    BY <2>2, <2>4 DEF Above
  <2>6. Key(b) = Key(w)
    BY <1>4, <2>5, KeyParts
  <2>7. w.owner = <<c.kind, c.name>> /\ c \in ever
    BY <2>4, <2>5, <2>6 DEF OwnersInv, Above
  <2>8. w.owner # Nothing
    BY <2>7 DEF OwnersInv
  <2>9. QED
    BY <1>4, <2>1, <2>7, <2>8 DEF OfNoCron
<1>5. QED
  BY <1>3, <1>4 DEF TopOwners

LEMMA OwnersPlaceIt ==
  ASSUME OwnersInv, NEW index, NEW p \in ever, p.kind = "Pod", NEW w \in TopOwners(p),
         \A c \in Controllers(p) :
           c \in lasting /\ (c.kind # "Pod" => Key(c) \in DOMAIN index /\ index[Key(c)] = c)
  PROVE  Key(w) \in DOMAIN index /\ PodOwner(index, p) = Key(w)
<1> DEFINE ns == Key(p)[2]
<1>1. /\ w \in Controllers(p) /\ w.kind \in WorkloadKinds
      /\ w.kind = "Job" => \A c \in Controllers(p) : c.kind # "CronJob"
  BY DEF TopOwners
<1>2. w.kind \notin {"Pod", "ReplicaSet"}
  BY <1>1 DEF WorkloadKinds
<1>3. Key(w) \in DOMAIN index /\ index[Key(w)] = w
  BY <1>1, <1>2
<1>4. CASE w \in Above(p)
  <2>1. w \in ever /\ p.owner = <<w.kind, w.name>> /\ Key(w)[2] = ns
    BY <1>4 DEF Above
  <2>2. p.owner # Nothing
    BY <2>1 DEF OwnersInv
  <2>3. PodOwner(index, p) = Attributed(index, ns, p.owner)
    BY <1>1, <1>2, <2>1, <2>2, OwnedDirectly
  <2>4. Key(w) = <<w.kind, ns, w.name>>
    BY <2>1, KeyParts
  <2>5. w.kind = "Job" => OfNoCron(w)
    <3> SUFFICES ASSUME w.kind = "Job", w.owner # Nothing, w.owner[1] = "CronJob"
                 PROVE  FALSE
      BY DEF OfNoCron
    <3>1. w \in lasting
      BY <1>1
    <3>2. PICK c \in Above(w) : c.kind = "CronJob"
      BY <3>1 DEF OwnersInv
    <3>3. c \in Controllers(p)
      BY <1>4, <3>2, ControllersAre
    <3>4. QED
      BY <1>1, <3>2, <3>3
  <2>6. Attributed(index, ns, p.owner) = <<w.kind, ns, w.name>>
    BY <1>3, <2>1, <2>4, <2>5 DEF Attributed, OfNoCron
  <2>7. QED
    BY <1>3, <2>3, <2>4, <2>6
<1>5. CASE w \notin Above(p)
  <2>1. PICK b \in Above(p) : b.kind \in {"Pod", "ReplicaSet", "Job"} /\ w \in Above(b)
    BY <1>1, <1>5, ControllersAre
  <2>2. b \in ever /\ p.owner = <<b.kind, b.name>> /\ Key(b)[2] = ns
    BY <2>1 DEF Above
  <2>3. w \in ever /\ b.owner = <<w.kind, w.name>> /\ Key(w)[2] = ns
    BY <2>1, <2>2 DEF Above
  <2>4. p.owner # Nothing /\ b.owner # Nothing
    BY <2>2, <2>3 DEF OwnersInv
  <2>5. b.kind # "Pod"
    <3>1. p.owner[1] = b.kind
      BY <2>2
    <3>2. p.owner[1] # "Pod"
      BY <2>4 DEF OwnersInv
    <3>3. QED
      BY <3>1, <3>2
  <2>6. Key(b) \in DOMAIN index /\ index[Key(b)] = b
    BY <2>1, <2>5, ControllersAre
  <2>7. Key(b) = <<b.kind, ns, b.name>> /\ Key(w) = <<w.kind, ns, w.name>>
    BY <2>2, <2>3, KeyParts
  <2>8. CASE b.kind = "ReplicaSet"
    <3>1. w.kind # "Job"
      <4>1. b.owner[1] = w.kind
        BY <2>3
      <4>2. b.owner[1] # "Job"
        BY <2>2, <2>4, <2>8 DEF OwnersInv
      <4>3. QED
        BY <4>1, <4>2
    <3>2. PodOwner(index, p) = Attributed(index, ns, b.owner)
      <4>1. p.owner[1] = "ReplicaSet" /\ <<"ReplicaSet", Key(p)[2], p.owner[2]>> = Key(b)
        <5>1. p.owner[1] = b.kind /\ p.owner[2] = b.name
          BY <2>2
        <5>2. QED
          BY <2>7, <2>8, <5>1
      <4>2. b.owner[1] # "ReplicaSet" /\ b.owner[1] \in WorkloadKinds
        BY <1>1, <1>2, <2>3
      <4>3. QED
        BY <2>4, <2>6, <4>1, <4>2, OwnedThrough
    <3>3. Attributed(index, ns, b.owner) = <<w.kind, ns, w.name>>
      BY <2>3, <3>1 DEF Attributed
    <3>4. QED
      BY <1>3, <2>7, <3>2, <3>3
  <2>9. CASE b.kind = "Job"
    <3>1. w.kind = "CronJob"
      <4>1. b.owner[1] = w.kind
        BY <2>3
      <4>2. QED
        BY <1>1, <2>2, <2>4, <2>9, <4>1 DEF OwnersInv
    <3>2. PodOwner(index, p) = Attributed(index, ns, p.owner)
      BY <2>2, <2>4, <2>9, OwnedDirectly DEF WorkloadKinds
    <3>3. Attributed(index, ns, p.owner) = <<"CronJob", ns, w.name>>
      BY <2>2, <2>3, <2>4, <2>6, <2>7, <2>9, <3>1 DEF Attributed
    <3>4. QED
      BY <1>3, <2>7, <3>1, <3>2, <3>3
  <2>10. QED
    BY <2>1, <2>5, <2>8, <2>9
<1>6. QED
  BY <1>4, <1>5

\* The pods on a node that are attributed to a workload, and what a snapshot
\* says of their number.
OnNode(index, S, key, n) == {p \in S : PodOwner(index, p) = key /\ p.node = n}
Replicas(key, n, count) == <<key, "replicasOnNode", <<n, count>>>>
OfReplicas(x, key, n) == x[1] = key /\ x[2] = "replicasOnNode" /\ x[3][1] = n

LEMMA ReplicasSaid ==
  ASSUME NEW S, IsFiniteSet(S), NEW podSeq \in Orders(S), NEW seq, NEW failedKinds,
         NEW w, w.kind \in WorkloadKinds, NEW n, n # Nothing, NEW x
  PROVE  x \in SnapshotOf(seq, podSeq, failedKinds).snapshot /\ OfReplicas(x, Key(w), n) <=>
           /\ Key(w) \in DOMAIN Index(seq) /\ OnNode(Index(seq), S, Key(w), n) # {}
           /\ x = Replicas(Key(w), n, Cardinality(OnNode(Index(seq), S, Key(w), n)))
<1> DEFINE index == Index(seq)
           On(m) == OnNode(index, S, Key(w), m)
           facts == SnapshotOf(seq, podSeq, failedKinds).snapshot
           mine(key) == {p \in S : PodOwner(index, p) = key /\ p.node # Nothing}
           Count(key, m) == Cardinality({p \in mine(key) : p.node = m})
<1>1. \A key : x \in PlacementFacts(index, podSeq, key) /\ x[2] = "replicasOnNode" <=>
        \E p \in mine(key) : x = <<key, "replicasOnNode", <<p.node, Count(key, p.node)>>>>
  <2> SUFFICES ASSUME NEW key
               PROVE  x \in PlacementFacts(index, podSeq, key) /\ x[2] = "replicasOnNode" <=>
                        \E p \in mine(key) :
                          x = <<key, "replicasOnNode", <<p.node, Count(key, p.node)>>>>
    OBVIOUS
  <2>1. PlacementFacts(index, podSeq, key) = PlacementOf(index, S, key)
    BY PlacementOfSet
  <2>2. x \in PlacementOf(index, S, key) <=>
          \E p \in mine(key) :
            x \in {<<key, "scheduledOn", <<"Node", Nothing, p.node>>>>,
                   <<key, "replicasOnNode", <<p.node, Count(key, p.node)>>>>}
    BY DEF PlacementOf
  <2> HIDE DEF mine, Count
  <2>3. QED
    BY <2>1, <2>2
<1>2. x[2] = "replicasOnNode" =>
        (x \in facts <=>
           \E key \in DOMAIN index :
             /\ key[1] \in WorkloadKinds /\ x \in PlacementFacts(index, podSeq, key)
             /\ x[2] = "replicasOnNode")
  <2> SUFFICES ASSUME x[2] = "replicasOnNode"
               PROVE  x \in facts <=>
                        \E key \in DOMAIN index :
                          /\ key[1] \in WorkloadKinds /\ x \in PlacementFacts(index, podSeq, key)
                          /\ x[2] = "replicasOnNode"
    OBVIOUS
  <2>1. x[2] \in Words \ {"contains"} /\ x[2] \notin LetsIn \cup Gives \cup {"permits"}
    BY DEF Words, LetsIn, Gives
  <2>2. x \in facts <=>
          \E key \in DOMAIN index :
            \/ /\ key[1] \in WorkloadKinds /\ x \in PlacementFacts(index, podSeq, key)
               /\ x[2] = "replicasOnNode"
            \/ key[1] = "NetworkPolicy" /\ x \in PolicyFacts(index, key) /\ x[2] \in LetsIn
            \/ key[1] \in {"Role", "ClusterRole"} /\ x \in RoleFacts(index, key)
            \/ key[1] \in {"RoleBinding", "ClusterRoleBinding"} /\ x \in BindingFacts(index, key)
    BY <2>1, SnapshotSays
  <2>3. \A key : x \notin RoleFacts(index, key)
    BY <2>1, RolesDoNot DEF Silent, Words, LetsIn, Gives
  <2>4. \A key : x \notin BindingFacts(index, key)
    BY <2>1, OthersDoNot DEF Silent, Words, LetsIn, Gives
  <2> HIDE DEF index, facts
  <2>5. QED
    BY <2>1, <2>2, <2>3, <2>4
<1>3. Key(w)[1] \in WorkloadKinds
  BY KeyParts
<1>4. On(n) = {p \in mine(Key(w)) : p.node = n}
  BY DEF OnNode
<1>5. Count(Key(w), n) = Cardinality(On(n))
  BY <1>4
<1> HIDE DEF index, facts, mine, Count, On
<1>6. ASSUME x \in facts, x[1] = Key(w), x[2] = "replicasOnNode", x[3][1] = n
      PROVE  /\ Key(w) \in DOMAIN index /\ On(n) # {}
             /\ x = <<Key(w), "replicasOnNode", <<n, Cardinality(On(n))>>>>
  <2>1. PICK key \in DOMAIN index : x \in PlacementFacts(index, podSeq, key)
    BY <1>2, <1>6
  <2>2. PICK p \in mine(key) : x = <<key, "replicasOnNode", <<p.node, Count(key, p.node)>>>>
    BY <1>1, <1>6, <2>1
  <2>3. key = Key(w) /\ p.node = n
    BY <1>6, <2>2
  <2>4. p \in On(n)
    BY <1>4, <2>2, <2>3
  <2>5. QED
    BY <1>5, <2>2, <2>3, <2>4
<1>7. ASSUME Key(w) \in DOMAIN index, On(n) # {},
             x = <<Key(w), "replicasOnNode", <<n, Cardinality(On(n))>>>>
      PROVE  x \in facts /\ x[1] = Key(w) /\ x[2] = "replicasOnNode" /\ x[3][1] = n
  <2>1. PICK p \in mine(Key(w)) : p.node = n
    BY <1>4, <1>7
  <2>2. x = <<Key(w), "replicasOnNode", <<p.node, Count(Key(w), p.node)>>>>
    BY <1>5, <1>7, <2>1
  <2>3. x \in PlacementFacts(index, podSeq, Key(w)) /\ x[2] = "replicasOnNode"
    BY <1>1, <2>1, <2>2
  <2>4. x \in facts
    BY <1>2, <1>3, <1>7, <2>3
  <2>5. QED
    BY <1>7, <2>4
<1>8. QED
  BY <1>6, <1>7 DEF index, facts, On, OfReplicas, Replicas

\* However the controllers make and delete objects while the kinds are listed,
\* and whatever kinds fail: a workload is said to have no more replicas on a
\* node than pods that were there are its own, and no less than those whose
\* owners were all there and listed (pod_owner, "Resolve pod ... owning workload
\* (kind, ns, name) through ReplicaSets and Jobs").
THEOREM PlacementIsTrue ==
  ASSUME KeysOnce, ControllersOwn
  PROVE  K8sSpec => []PlacementIsOfPods
<1>1. ListInv /\ FiledInv /\ PlacedInv => PlacementIsOfPods
  <2> SUFFICES ASSUME ListInv, FiledInv, PlacedInv, SnapshotBuilt,
                      NEW w \in {o \in ever : o.kind \in WorkloadKinds},
                      NEW n \in {p.node : p \in Range(pods)}, n # Nothing
               PROVE  LET mine == {p \in Range(pods) : p.node = n /\ w \in TopOwners(p)}
                          sure == {p \in mine : Controllers(p) \subseteq lasting
                                     /\ \A c \in Controllers(p) : c.kind \notin failed}
                          said == {f[3][2] : f \in {g \in snap.snapshot :
                             g[1] = Key(w) /\ g[2] = "replicasOnNode" /\ g[3][1] = n}}
                          contained == <<Snap, "contains", Key(w)>> \in snap.snapshot
                      IN /\ said \subseteq 1 .. Cardinality(mine)
                         /\ contained /\ sure # {} => \E c \in said : c >= Cardinality(sure)
    BY DEF PlacementIsOfPods
  <2> DEFINE mine == {p \in Range(pods) : p.node = n /\ w \in TopOwners(p)}
             sure == {p \in mine : Controllers(p) \subseteq lasting
                        /\ \A c \in Controllers(p) : c.kind \notin failed}
             told == {g \in snap.snapshot :
                        g[1] = Key(w) /\ g[2] = "replicasOnNode" /\ g[3][1] = n}
             said == {f[3][2] : f \in told}
             index == Index(objects)
             on == OnNode(index, Range(pods), Key(w), n)
             fact == Replicas(Key(w), n, Cardinality(on))
  <2>1. /\ objects \in Seq(ever) /\ objects \in Seq(Range(objects)) /\ Distinct(Range(objects))
        /\ Range(objects) \subseteq ever
        /\ todo = <<>> /\ snap = SnapshotOf(objects, pods, failed)
    <3>1. objects \in Seq(ever) /\ todo = <<>> /\ snap = SnapshotOf(objects, pods, failed)
      BY DEF ListInv, ListTypes
    <3>2. objects \in Seq(Range(objects))
      BY <3>1, OwnRange
    <3>3. Range(objects) \subseteq ever
      BY <3>1, ElementsAreOf DEF Range
    <3>4. QED
      BY <3>1, <3>2, <3>3 DEF FiledInv
  <2>2. OwnersInv
    <3>1. pods # <<>>
      BY NoneAreInOrder
    <3>2. PICK objs : Began(objs)
      BY <3>1 DEF PlacedInv
    <3>3. QED
      BY <3>2, OwnersHold
  <2>3. /\ IsFiniteSet(Range(pods)) /\ pods \in Orders(Range(pods))
        /\ \A p \in Range(pods) : p \in ever /\ p.kind = "Pod"
    BY DEF PlacedInv
  <2>4. /\ \A o \in Range(objects) : o.kind \notin {"", "Pod"} =>
             Key(o) \in DOMAIN index /\ index[Key(o)] = o
        /\ \A key \in DOMAIN index : \E o \in Range(objects) :
             o.kind \notin {"", "Pod"} /\ Key(o) = key /\ index[key] = o
    BY <2>1, IndexFiles
  <2>5. \A x : x \in told <=> Key(w) \in DOMAIN index /\ on # {} /\ x = fact
    <3> SUFFICES ASSUME NEW x
                 PROVE  x \in told <=> Key(w) \in DOMAIN index /\ on # {} /\ x = fact
      OBVIOUS
    <3>1. x \in SnapshotOf(objects, pods, failed).snapshot /\ OfReplicas(x, Key(w), n) <=>
            /\ Key(w) \in DOMAIN index /\ on # {} /\ x = fact
      <4>1. w.kind \in WorkloadKinds
        OBVIOUS
      <4>2. IsFiniteSet(Range(pods)) /\ pods \in Orders(Range(pods))
        BY <2>3
      <4>3. QED
        BY <4>1, <4>2, ReplicasSaid
    <3>2. snap.snapshot = SnapshotOf(objects, pods, failed).snapshot
      BY <2>1
    <3> HIDE DEF index, on, fact
    <3>3. QED
      BY <3>1, <3>2 DEF OfReplicas
  <2> HIDE DEF index, told
  <2>6. \A key \in DOMAIN index : index[key] \in ever /\ Key(index[key]) = key
    BY <2>1, <2>4
  <2>7. Key(w) \in DOMAIN index => on \subseteq mine
    BY <2>2, <2>3, <2>6, PlacedByItsOwners DEF OnNode
  <2>8. sure # {} => Key(w) \in DOMAIN index /\ sure \subseteq on
    <3>1. ASSUME NEW o \in lasting, o.kind \notin failed \cup {"Pod"}
          PROVE  Key(o) \in DOMAIN index /\ index[Key(o)] = o
      <4>1. Covered(o) /\ Range(todo) = {}
        BY <2>1 DEF ListInv, Range
      <4>2. o \in Range(objects) /\ o.kind # ""
        BY <3>1, <4>1 DEF Covered
      <4>3. QED
        BY <2>4, <3>1, <4>2
    <3>2. ASSUME NEW p \in sure
          PROVE  Key(w) \in DOMAIN index /\ PodOwner(index, p) = Key(w)
      <4>1. p \in ever /\ p.kind = "Pod" /\ w \in TopOwners(p)
        BY <2>3
      <4>2. \A c \in Controllers(p) : c \in lasting /\ c.kind \notin failed
        OBVIOUS
      <4> HIDE DEF sure
      <4>3. \A c \in Controllers(p) :
              c \in lasting /\ (c.kind # "Pod" => Key(c) \in DOMAIN index /\ index[Key(c)] = c)
        BY <3>1, <4>2
      <4>4. QED
        BY <2>2, <4>1, <4>3, OwnersPlaceIt
    <3>3. QED
      BY <3>2 DEF OnNode
  <2>9. /\ IsFiniteSet(mine) /\ IsFiniteSet(on) /\ IsFiniteSet(sure)
        /\ Cardinality(mine) \in Nat /\ Cardinality(on) \in Nat /\ Cardinality(sure) \in Nat
    <3>1. mine \in SUBSET Range(pods) /\ on \in SUBSET Range(pods) /\ sure \in SUBSET Range(pods)
      BY DEF OnNode
    <3> HIDE DEF mine, on, sure
    <3>2. IsFiniteSet(mine) /\ IsFiniteSet(on) /\ IsFiniteSet(sure)
      BY <2>3, <3>1, FS_Subset
    <3>3. QED
      BY <3>2, FS_CardinalityType
  <2>10. \A c : c \in said <=> Key(w) \in DOMAIN index /\ on # {} /\ c = Cardinality(on)
    <3> HIDE DEF on
    <3>1. fact[3][2] = Cardinality(on)
      BY DEF Replicas
    <3> HIDE DEF fact
    <3>2. QED
      BY <2>5, <3>1
  <2> HIDE DEF mine, on, sure, said
  <2>11. said \subseteq 1 .. Cardinality(mine)
    <3> SUFFICES ASSUME NEW c \in said PROVE c \in 1 .. Cardinality(mine)
      OBVIOUS
    <3>1. Key(w) \in DOMAIN index /\ on # {} /\ c = Cardinality(on)
      BY <2>10
    <3>2. Cardinality(on) <= Cardinality(mine)
      BY <2>7, <2>9, <3>1, FS_Subset
    <3>3. Cardinality(on) # 0
      BY <2>9, <3>1, FS_EmptySet
    <3>4. QED
      BY <2>9, <3>1, <3>2, <3>3
  <2>12. ASSUME sure # {} PROVE \E c \in said : c >= Cardinality(sure)
    <3>1. Key(w) \in DOMAIN index /\ sure \subseteq on
      BY <2>8, <2>12
    <3>2. Cardinality(on) \in said
      BY <2>10, <2>12, <3>1
    <3>3. Cardinality(sure) <= Cardinality(on)
      BY <2>9, <3>1, FS_Subset
    <3>4. QED
      BY <2>9, <3>2, <3>3
  <2>13. QED
    BY <2>11, <2>12 DEF mine, sure, said, told
<1>2. QED
  BY <1>1, ListInit, ListStep, FiledInit, FiledStep, PlacedInit, PlacedStep, PTL DEF K8sSpec
=============================================================================
