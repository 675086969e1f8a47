-------------------------- MODULE LockGraphProofs --------------------------
(***************************************************************************)
(* Proofs about LockGraph, for every lock that Nix accepts: its inputs     *)
(* lead to the pins that Nix fetches for them.                             *)
(*                                                                         *)
(* Three functions of the paths of a lock are compared: Find, what Nix     *)
(* makes of a path; Cursor, what resolve_follows does; and CursorOf, which *)
(* is Find on the paths that resolve_follows goes along (Reached, a least  *)
(* fixed point) and Missing on the others.  LockAssumption orders the      *)
(* paths: a set of them has one that goes through none of the set, and     *)
(* such a path of a set of counterexamples is what each lemma refutes.     *)
(* CursorOf does the steps of Cursor, and nothing else can: CursorIs.  So  *)
(* a follows edge joins inputs that mean the same node (ResolvedIs), and   *)
(* where every hop of a path is Shallow there is one (Resolves).           *)
(*                                                                         *)
(* LockInv says that every edge is what the lock says, and that those of a *)
(* described node are all there.  Along the edges, the inputs that mean    *)
(* the same are closed (AlongMeansTheSame): no input leads to another's    *)
(* pin; and an input that led nowhere would follow a path that does not    *)
(* end (LeadsSomewhere).                                                   *)
(***************************************************************************)
EXTENDS LockGraph, SequenceTheorems, TLAPS

-----------------------------------------------------------------------------
(***************************************************************************)
(* Locks and the paths in them.                                            *)
(***************************************************************************)
\* What LockAssumption says of the inputs of a lock, and of what Nix finds.
InputsLead(l) ==
  /\ l.root \in DOMAIN l.nodes /\ Missing \notin DOMAIN l.nodes
  /\ \A id \in DOMAIN l.nodes : \A n \in DOMAIN Inputs(l, id) :
       /\ Inputs(l, id)[n] # Missing
       /\ IsFollows(Inputs(l, id)[n]) => Inputs(l, id)[n].path \in Seq(STRING)
       /\ ~ IsFollows(Inputs(l, id)[n]) => Inputs(l, id)[n].node \in DOMAIN l.nodes

Finds(l, F) ==
  /\ F \in [Leading(l) -> DOMAIN l.nodes]
  /\ \A path \in Leading(l) :
       /\ path # <<>> => Final(path) \in DOMAIN Inputs(l, F[Before(path)])
       /\ F[path] = FindStep(l, F, path)
  /\ \A S \in SUBSET Leading(l) :
       S # {} => \E path \in S : GoesThrough(l, F, path) \cap S = {}

\* LockAssumption by these names.
LEMMA Accepted ==
  ASSUME NEW l \in Locks
  PROVE  InputsLead(l) /\ \E F : Finds(l, F)
BY LockAssumption DEF InputsLead, Finds

\* What it is to be a follows path, and to begin one.
LEMMA FollowedIs ==
  ASSUME NEW l, NEW path
  PROVE  path \in Followed(l) <=>
           \E id \in DOMAIN l.nodes : \E n \in DOMAIN Inputs(l, id) :
             IsFollows(Inputs(l, id)[n]) /\ path = Inputs(l, id)[n].path
BY DEF Followed

LEMMA FollowedIsPath ==
  ASSUME NEW l \in Locks, NEW path \in Followed(l)
  PROVE  path \in Seq(STRING)
BY Accepted, FollowedIs DEF InputsLead

LEMMA LeadingIs ==
  ASSUME NEW l, NEW p
  PROVE  p \in Leading(l) <=>
           p = <<>> \/ \E path \in Followed(l) : \E k \in 0 .. Len(path) : p = SubSeq(path, 1, k)
BY DEF Leading

\* What a path begins with, but its last name, is what it begins with.
LEMMA Prefix ==
  ASSUME NEW path \in Seq(STRING), NEW k \in 1 .. Len(path)
  PROVE  /\ SubSeq(path, 1, k) # <<>>
         /\ Before(SubSeq(path, 1, k)) = SubSeq(path, 1, k - 1)
         /\ Final(SubSeq(path, 1, k)) = path[k]
<1>. DEFINE s == SubSeq(path, 1, k)
<1>1. Len(path) \in Nat /\ k \in Int /\ \A i \in 1 .. k : path[i] \in STRING
  BY LenProperties, ElementOfSeq
<1>2. s \in Seq(STRING) /\ Len(s) = k /\ \A i \in 1 .. k : s[i] = path[i]
  BY <1>1, SubSeqProperties
<1>3. s # <<>> /\ Final(s) = path[k]
  BY <1>1, <1>2 DEF Final
<1>4. SubSeq(s, 1, k - 1) = SubSeq(path, 1, k - 1)
  <2>1. CASE k = 1
    BY <2>1, SubSeqEmpty
  <2>2. CASE k # 1
    <3>1. /\ 1 \in 1 .. Len(path) /\ k \in 1 .. Len(path)
          /\ 1 \in 1 .. k - 1 + 1 /\ k - 1 \in 1 .. k - 1 + 1
      BY <1>1, <2>2
    <3>2. SubSeq(SubSeq(path, 1, k), 1, k - 1) = SubSeq(path, 1 + 1 - 1, 1 + (k - 1) - 1)
      BY <3>1, SubSeqOfSubSeq
    <3>. QED BY <1>1, <3>2
  <2>. QED BY <2>1, <2>2
<1>. QED BY <1>2, <1>3, <1>4 DEF Before

\* The paths that Find and Cursor are functions of have all that they begin with.
LEMMA FollowedLeads ==
  ASSUME NEW l \in Locks, NEW path \in Followed(l)
  PROVE  path \in Leading(l)
<1>1. path \in Seq(STRING)
  BY FollowedIsPath
<1>2. path = SubSeq(path, 1, Len(path)) /\ Len(path) \in 0 .. Len(path)
  BY <1>1, SubSeqFull, LenProperties
<1>. QED BY <1>2, LeadingIs

LEMMA BeforeLeads ==
  ASSUME NEW l \in Locks, NEW p \in Leading(l), p # <<>>
  PROVE  Before(p) \in Leading(l)
<1>0. PICK path \in Followed(l) : \E k \in 0 .. Len(path) : p = SubSeq(path, 1, k)
  BY LeadingIs
<1>1. PICK k \in 0 .. Len(path) : p = SubSeq(path, 1, k)
  BY <1>0
<1>2. path \in Seq(STRING) /\ Len(path) \in Nat
  BY FollowedIsPath, LenProperties
<1>3. k # 0
  BY <1>1, <1>2, SubSeqEmpty
<1>4. Before(p) = SubSeq(path, 1, k - 1)
  BY <1>1, <1>2, <1>3, Prefix
<1>5. k - 1 \in 0 .. Len(path)
  BY <1>2, <1>3
<1>6. \E j \in 0 .. Len(path) : Before(p) = SubSeq(path, 1, j)
  BY <1>4, <1>5
<1>. QED BY <1>6, LeadingIs

LEMMA NothingLeads == \A l : <<>> \in Leading(l)
BY DEF Leading

-----------------------------------------------------------------------------
(***************************************************************************)
(* What Nix finds.                                                         *)
(***************************************************************************)
\* What Find is: the recursion of Nix ends with the answers LockAssumption has.
LEMMA FindFinds ==
  ASSUME NEW l \in Locks
  PROVE  Finds(l, Find(l))
<1>1. PICK G : Finds(l, G)
  BY Accepted
<1>. DEFINE F == Find(l)
<1>2. G = [path \in Leading(l) |-> FindStep(l, G, path)]
  BY <1>1 DEF Finds
<1>3. F = [path \in Leading(l) |-> FindStep(l, F, path)]
  BY <1>2 DEF Find
<1>. HIDE DEF F
<1>. DEFINE Bad == {path \in Leading(l) : F[path] # G[path]}
<1>4. Bad = {}
  <2>1. SUFFICES ASSUME NEW path \in Bad, GoesThrough(l, G, path) \cap Bad = {} PROVE FALSE
    BY <1>1 DEF Finds
  <2>2. path \in Leading(l) /\ F[path] = FindStep(l, F, path) /\ G[path] = FindStep(l, G, path)
    BY <1>1, <1>3 DEF Finds
  <2>3. path # <<>>
    BY <2>2 DEF FindStep
  <2>4. Before(path) \in Leading(l) /\ Before(path) \in GoesThrough(l, G, path)
    BY <2>2, <2>3, BeforeLeads DEF GoesThrough
  <2>5. F[Before(path)] = G[Before(path)]
    BY <2>1, <2>4
  <2>. DEFINE cur == G[Before(path)]
              target == Inputs(l, cur)[Final(path)]
  <2>6. cur \in DOMAIN l.nodes /\ cur # Missing /\ Final(path) \in DOMAIN Inputs(l, cur)
    BY <1>1, <2>2, <2>3, <2>4, Accepted DEF Finds, InputsLead
  <2>7. ~ IsFollows(target)
    <3>1. SUFFICES ASSUME IsFollows(target) PROVE FALSE
      OBVIOUS
    <3>2. target.path \in Followed(l) /\ target.path \in GoesThrough(l, G, path)
      BY <2>3, <2>6, <3>1, FollowedIs DEF GoesThrough, Named
    <3>3. F[target.path] = G[target.path]
      BY <2>1, <3>2, FollowedLeads
    <3>. QED BY <2>1, <2>2, <2>3, <2>5, <2>6, <3>1, <3>3 DEF FindStep
  <2>. QED BY <2>1, <2>2, <2>3, <2>5, <2>6, <2>7 DEF FindStep
<1>5. F = G
  BY <1>2, <1>3, <1>4
<1>. QED BY <1>1, <1>5 DEF F

\* What Nix finds on the way along a path: the input it names is one.
LEMMA NamedIs ==
  ASSUME NEW l \in Locks, NEW p \in Leading(l), p # <<>>
  PROVE  /\ Before(p) \in Leading(l) /\ Find(l)[Before(p)] \in DOMAIN l.nodes
         /\ Find(l)[Before(p)] # Missing /\ Find(l)[p] # Missing
         /\ Final(p) \in DOMAIN Inputs(l, Find(l)[Before(p)])
         /\ Named(l, Find(l), p) = Inputs(l, Find(l)[Before(p)])[Final(p)]
         /\ Named(l, Find(l), p) # Missing
         /\ Find(l)[p] = IF IsFollows(Named(l, Find(l), p)) THEN Find(l)[Named(l, Find(l), p).path]
                         ELSE Named(l, Find(l), p).node
         /\ IsFollows(Named(l, Find(l), p)) =>
              /\ Named(l, Find(l), p).path \in Followed(l)
              /\ Named(l, Find(l), p).path \in Leading(l)
<1>. DEFINE F == Find(l)
            cur == F[Before(p)]
            target == Named(l, F, p)
<1>1. Finds(l, F) /\ InputsLead(l)
  BY FindFinds, Accepted
<1>. HIDE DEF F
<1>2. Before(p) \in Leading(l)
  BY BeforeLeads
<1>3. cur \in DOMAIN l.nodes /\ F[p] \in DOMAIN l.nodes /\ Missing \notin DOMAIN l.nodes
  BY <1>1, <1>2 DEF Finds, InputsLead
<1>4. Final(p) \in DOMAIN Inputs(l, cur) /\ F[p] = FindStep(l, F, p)
  BY <1>1 DEF Finds
<1>5. target = Inputs(l, cur)[Final(p)]
  BY DEF Named
<1>6. target # Missing
  BY <1>1, <1>3, <1>4, <1>5 DEF InputsLead
<1>7. IsFollows(target) => target.path \in Followed(l)
  BY <1>3, <1>4, <1>5, FollowedIs
<1>8. F[p] = IF IsFollows(target) THEN F[target.path] ELSE target.node
  BY <1>3, <1>4, <1>5 DEF FindStep
<1>9. IsFollows(target) => target.path \in Leading(l)
  BY <1>7, FollowedLeads
<1>. QED BY <1>2, <1>3, <1>4, <1>5, <1>6, <1>7, <1>8, <1>9 DEF F

-----------------------------------------------------------------------------
(***************************************************************************)
(* What resolve_follows finds.                                             *)
(***************************************************************************)
\* A step of resolve_follows where it has, so far, gone where Nix goes.
LEMMA StepIs ==
  ASSUME NEW l \in Locks, NEW W, NEW p \in Leading(l), p # <<>>
  PROVE  LET target == Named(l, Find(l), p)
             named == Named(l, Find(l), target.path)
         IN /\ W[Before(p)] = Missing => CursorStep(l, W, p) = Missing
            /\ W[Before(p)] = Find(l)[Before(p)] =>
                 /\ ~ IsFollows(target) => CursorStep(l, W, p) = Find(l)[p]
                 /\ IsFollows(target) /\ target.path = <<>> => CursorStep(l, W, p) = Missing
                 /\ IsFollows(target) /\ target.path # <<>> =>
                      /\ W[Before(target.path)] = Missing => CursorStep(l, W, p) = Missing
                      /\ W[Before(target.path)] = Find(l)[Before(target.path)] =>
                           CursorStep(l, W, p) = IF IsFollows(named) THEN Missing ELSE Find(l)[p]
<1>. DEFINE F == Find(l)
            target == Named(l, F, p)
            named == Named(l, F, target.path)
<1>1. W[Before(p)] = Missing => CursorStep(l, W, p) = Missing
  BY DEF CursorStep
<1>2. /\ F[Before(p)] # Missing /\ Final(p) \in DOMAIN Inputs(l, F[Before(p)])
      /\ target = Inputs(l, F[Before(p)])[Final(p)] /\ target # Missing
      /\ F[p] = IF IsFollows(target) THEN F[target.path] ELSE target.node
      /\ IsFollows(target) => target.path \in Leading(l)
  BY NamedIs
<1>3. IsFollows(target) /\ target.path # <<>> =>
        /\ F[Before(target.path)] # Missing
        /\ Final(target.path) \in DOMAIN Inputs(l, F[Before(target.path)])
        /\ named = Inputs(l, F[Before(target.path)])[Final(target.path)] /\ named # Missing
        /\ F[target.path] = IF IsFollows(named) THEN F[named.path] ELSE named.node
  <2>. SUFFICES ASSUME IsFollows(target), target.path # <<>> PROVE
        /\ F[Before(target.path)] # Missing
        /\ Final(target.path) \in DOMAIN Inputs(l, F[Before(target.path)])
        /\ named = Inputs(l, F[Before(target.path)])[Final(target.path)] /\ named # Missing
        /\ F[target.path] = IF IsFollows(named) THEN F[named.path] ELSE named.node
    OBVIOUS
  <2>1. target.path \in Leading(l)
    BY <1>2
  <2>. HIDE DEF target
  <2>. QED BY <2>1, NamedIs
<1>. HIDE DEF F, target, named
<1>4. W[Before(p)] = F[Before(p)] /\ ~ IsFollows(target) => CursorStep(l, W, p) = F[p]
  BY <1>2 DEF CursorStep
<1>5. W[Before(p)] = F[Before(p)] /\ IsFollows(target) /\ target.path = <<>>
        => CursorStep(l, W, p) = Missing
  BY <1>2 DEF CursorStep
<1>6. W[Before(p)] = F[Before(p)] /\ IsFollows(target) /\ target.path # <<>>
        /\ W[Before(target.path)] = Missing
        => CursorStep(l, W, p) = Missing
  BY <1>2 DEF CursorStep
<1>7. W[Before(p)] = F[Before(p)] /\ IsFollows(target) /\ target.path # <<>>
        /\ W[Before(target.path)] = F[Before(target.path)]
        => CursorStep(l, W, p) = IF IsFollows(named) THEN Missing ELSE F[p]
  BY <1>2, <1>3 DEF CursorStep
<1>. QED BY <1>1, <1>4, <1>5, <1>6, <1>7 DEF F, target, named

\* The paths that resolve_follows goes along, once it does those of D.
Derived(l, D, p) ==
  \/ p = <<>>
  \/ /\ p # <<>> /\ Before(p) \in D
     /\ LET target == Named(l, Find(l), p)
        IN IsFollows(target) =>
             /\ target.path # <<>> /\ Before(target.path) \in D
             /\ ~ IsFollows(Named(l, Find(l), target.path))

ClosedUnder(l, S) == \A p \in Leading(l) : Derived(l, S, p) => p \in S
Reached(l) == {p \in Leading(l) : \A S \in SUBSET Leading(l) : ClosedUnder(l, S) => p \in S}

\* Reached is a fixed point, the least one.
LEMMA DerivedGrows ==
  ASSUME NEW l, NEW A, NEW B, A \subseteq B, NEW p, Derived(l, A, p)
  PROVE  Derived(l, B, p)
BY DEF Derived

LEMMA ReachedIs ==
  ASSUME NEW l, NEW p \in Leading(l)
  PROVE  p \in Reached(l) <=> Derived(l, Reached(l), p)
<1>1. ClosedUnder(l, Reached(l))
  <2>1. SUFFICES ASSUME NEW q \in Leading(l), Derived(l, Reached(l), q),
                        NEW S \in SUBSET Leading(l), ClosedUnder(l, S)
                 PROVE  q \in S
    BY DEF ClosedUnder, Reached
  <2>2. Reached(l) \subseteq S
    BY <2>1 DEF Reached
  <2>. QED BY <2>1, <2>2, DerivedGrows DEF ClosedUnder
<1>. DEFINE Next == {q \in Leading(l) : Derived(l, Reached(l), q)}
<1>2. ClosedUnder(l, Next)
  <2>1. Next \subseteq Reached(l)
    BY <1>1 DEF ClosedUnder
  <2>. QED BY <2>1, DerivedGrows DEF ClosedUnder
<1>3. Reached(l) \subseteq Next
  BY <1>2 DEF Reached
<1>. QED BY <1>1, <1>3 DEF ClosedUnder

\* resolve_follows goes where Nix goes, or gives up.
CursorOf(l) == [p \in Leading(l) |-> IF p \in Reached(l) THEN Find(l)[p] ELSE Missing]

\* The path of no names leads to the root.
LEMMA NothingIsFound ==
  ASSUME NEW l \in Locks
  PROVE  Find(l)[<<>>] = l.root
BY FindFinds, NothingLeads DEF Finds, FindStep

\* CursorOf does the steps of Cursor, and no other function does.
LEMMA CursorOfSteps ==
  ASSUME NEW l \in Locks, NEW p \in Leading(l)
  PROVE  CursorOf(l)[p] = CursorStep(l, CursorOf(l), p)
<1>. DEFINE F == Find(l)
            W == CursorOf(l)
            target == Named(l, F, p)
<1>1. \A x \in Leading(l) : W[x] = IF x \in Reached(l) THEN F[x] ELSE Missing
  BY DEF CursorOf
<1>2. CASE p = <<>>
  <2>1. p \in Reached(l)
    BY <1>2, ReachedIs DEF Derived
  <2>2. CursorStep(l, W, p) = l.root
    BY <1>2 DEF CursorStep
  <2>. QED BY <1>1, <1>2, <2>1, <2>2, NothingIsFound
<1>3. CASE p # <<>>
  <2>1. Before(p) \in Leading(l) /\ (IsFollows(target) => target.path \in Leading(l))
    BY <1>3, NamedIs
  <2>2. IsFollows(target) /\ target.path # <<>> => Before(target.path) \in Leading(l)
    BY <2>1, BeforeLeads
  <2>3. p \in Reached(l) <=>
          /\ Before(p) \in Reached(l)
          /\ IsFollows(target) => target.path # <<>> /\ Before(target.path) \in Reached(l)
                                    /\ ~ IsFollows(Named(l, F, target.path))
    BY <1>3, ReachedIs DEF Derived
  <2>4. W[p] = IF p \in Reached(l) THEN F[p] ELSE Missing
    BY <1>1
  <2>5. W[Before(p)] = IF Before(p) \in Reached(l) THEN F[Before(p)] ELSE Missing
    BY <1>1, <2>1
  <2>6. IsFollows(target) /\ target.path # <<>> =>
          W[Before(target.path)] =
            IF Before(target.path) \in Reached(l) THEN F[Before(target.path)] ELSE Missing
    BY <1>1, <2>2
  <2>7. /\ W[Before(p)] = Missing => CursorStep(l, W, p) = Missing
        /\ W[Before(p)] = F[Before(p)] =>
             /\ ~ IsFollows(target) => CursorStep(l, W, p) = F[p]
             /\ IsFollows(target) /\ target.path = <<>> => CursorStep(l, W, p) = Missing
             /\ IsFollows(target) /\ target.path # <<>> =>
                  /\ W[Before(target.path)] = Missing => CursorStep(l, W, p) = Missing
                  /\ W[Before(target.path)] = F[Before(target.path)] =>
                       CursorStep(l, W, p) =
                         IF IsFollows(Named(l, F, target.path)) THEN Missing ELSE F[p]
    BY <1>3, StepIs
  <2>. HIDE DEF W, F, target
  <2>8. W[p] = CursorStep(l, W, p)
    BY <2>3, <2>4, <2>5, <2>6, <2>7
  <2>. QED BY <2>8 DEF W
<1>. QED BY <1>2, <1>3

LEMMA CursorIs ==
  ASSUME NEW l \in Locks
  PROVE  Cursor(l) = CursorOf(l)
<1>. DEFINE W == CursorOf(l)
            C == Cursor(l)
            F == Find(l)
<1>1. W = [p \in Leading(l) |-> CursorStep(l, W, p)]
  <2>1. \A p \in Leading(l) : W[p] = CursorStep(l, W, p)
    BY CursorOfSteps
  <2>2. W = [p \in Leading(l) |-> W[p]]
    BY DEF CursorOf
  <2>. HIDE DEF W
  <2>. QED BY <2>1, <2>2
<1>2. C = [p \in Leading(l) |-> CursorStep(l, C, p)]
  <2>. HIDE DEF W
  <2>. QED BY <1>1 DEF Cursor
<1>3. \A p \in Leading(l) : W[p] = F[p] \/ W[p] = Missing
  BY DEF CursorOf
<1>4. Finds(l, F)
  BY FindFinds
<1>. HIDE DEF W, C, F
<1>. DEFINE Bad == {p \in Leading(l) : C[p] # W[p]}
            T == {p \in Leading(l) : p \in Bad \/ (p # <<>> /\ Before(p) \in Bad)}
<1>5. ASSUME NEW p \in T, GoesThrough(l, F, p) \cap T = {} PROVE FALSE
  <2>1. p \in Leading(l) /\ C[p] = CursorStep(l, C, p) /\ W[p] = CursorStep(l, W, p)
    BY <1>1, <1>2
  <2>2. C[p] # W[p] \/ (p # <<>> /\ Before(p) \in Bad)
    OBVIOUS
  <2>3. p # <<>>
    BY <2>1, <2>2 DEF CursorStep
  <2>4. Before(p) \in Leading(l) /\ Before(p) \in GoesThrough(l, F, p)
    BY <2>1, <2>3, BeforeLeads DEF GoesThrough
  <2>5. C[Before(p)] = W[Before(p)] /\ C[p] # W[p]
    BY <1>5, <2>2, <2>4
  <2>. DEFINE target == Named(l, F, p)
  <2>6. IsFollows(target) /\ target.path # <<>> =>
          C[Before(target.path)] = W[Before(target.path)] /\ Before(target.path) \in Leading(l)
    <3>1. SUFFICES ASSUME IsFollows(target), target.path # <<>>
                   PROVE  /\ C[Before(target.path)] = W[Before(target.path)]
                          /\ Before(target.path) \in Leading(l)
      OBVIOUS
    <3>2. target.path \in Leading(l)
      BY <2>1, <2>3, <3>1, NamedIs DEF F
    <3>3. target.path \in GoesThrough(l, F, p)
      BY <2>3, <3>1 DEF GoesThrough
    <3>4. Before(target.path) \in Leading(l)
      BY <3>1, <3>2, BeforeLeads
    <3>. HIDE DEF target
    <3>. QED BY <1>5, <3>1, <3>2, <3>3, <3>4
  <2>7. ASSUME NEW X
        PROVE /\ X[Before(p)] = Missing => CursorStep(l, X, p) = Missing
              /\ X[Before(p)] = F[Before(p)] =>
                   /\ ~ IsFollows(target) => CursorStep(l, X, p) = F[p]
                   /\ IsFollows(target) /\ target.path = <<>> => CursorStep(l, X, p) = Missing
                   /\ IsFollows(target) /\ target.path # <<>> =>
                        /\ X[Before(target.path)] = Missing => CursorStep(l, X, p) = Missing
                        /\ X[Before(target.path)] = F[Before(target.path)] =>
                             CursorStep(l, X, p) =
                               IF IsFollows(Named(l, F, target.path)) THEN Missing ELSE F[p]
    BY <2>1, <2>3, StepIs DEF F
  <2>8. (W[Before(p)] = F[Before(p)] \/ W[Before(p)] = Missing)
    BY <1>3, <2>4
  <2>9. IsFollows(target) /\ target.path # <<>> =>
          W[Before(target.path)] = F[Before(target.path)] \/ W[Before(target.path)] = Missing
    BY <1>3, <2>6
  <2>. HIDE DEF target
  <2>. QED BY <2>1, <2>5, <2>6, <2>7, <2>8, <2>9
<1>6. T = {}
  BY <1>4, <1>5 DEF Finds
<1>7. \A p \in Leading(l) : C[p] = W[p]
  BY <1>6
<1>. QED BY <1>1, <1>2, <1>7 DEF C, W

\* So where resolve_follows gets, Nix gets.
LEMMA CursorGoes ==
  ASSUME NEW l \in Locks, NEW p \in Leading(l), Cursor(l)[p] # Missing
  PROVE  Cursor(l)[p] = Find(l)[p]
BY CursorIs DEF CursorOf

\* Along paths of one hop it goes all the way.
LEMMA CursorGoesAll ==
  ASSUME NEW l \in Locks, \A q \in Followed(l) : Shallow(l, q), NEW path \in Followed(l)
  PROVE  path # <<>> /\ Cursor(l)[Before(path)] = Find(l)[Before(path)]
<1>. DEFINE F == Find(l)
            IsWay(p) == \E q \in Followed(l) : \E k \in 0 .. Len(q) - 1 : p = SubSeq(q, 1, k)
            Bad == {p \in Leading(l) : IsWay(p) /\ p \notin Reached(l)}
            T == {p \in Leading(l) : p \in Bad \/ (p # <<>> /\ Before(p) \in Bad)}
<1>1. ASSUME NEW q \in Followed(l)
      PROVE  q # <<>> /\ q \in Seq(STRING) /\ Len(q) \in Nat \ {0} /\ IsWay(Before(q))
  <2>1. q # <<>> /\ q \in Seq(STRING)
    BY FollowedIsPath DEF Shallow
  <2>2. Len(q) \in Nat /\ Len(q) # 0
    BY <2>1, LenProperties, EmptySeq
  <2>3. Len(q) - 1 \in 0 .. Len(q) - 1 /\ Before(q) = SubSeq(q, 1, Len(q) - 1)
    BY <2>2 DEF Before
  <2>. QED BY <2>1, <2>2, <2>3
<1>2. ASSUME NEW p \in T, GoesThrough(l, F, p) \cap T = {} PROVE FALSE
  <2>1. p \in Leading(l) /\ (p \in Bad \/ (p # <<>> /\ Before(p) \in Bad))
    OBVIOUS
  <2>2. p # <<>> => Before(p) \in Leading(l) /\ Before(p) \in GoesThrough(l, F, p)
    BY <2>1, BeforeLeads DEF GoesThrough
  <2>3. p \in Bad
    BY <1>2, <2>1, <2>2
  <2>4. p # <<>>
    BY <2>3, ReachedIs DEF Derived
  <2>5. PICK q \in Followed(l) : \E k \in 0 .. Len(q) - 1 : p = SubSeq(q, 1, k)
    BY <2>3
  <2>6. PICK k \in 0 .. Len(q) - 1 : p = SubSeq(q, 1, k)
    BY <2>5
  <2>7. q \in Seq(STRING) /\ Len(q) \in Nat
    BY <1>1
  <2>8. k \in 1 .. Len(q) - 1 /\ k \in 1 .. Len(q) /\ k - 1 \in 0 .. Len(q) - 1
    BY <2>4, <2>6, <2>7, SubSeqEmpty
  <2>9. Before(p) = SubSeq(q, 1, k - 1)
    BY <2>6, <2>7, <2>8, Prefix
  <2>10. IsWay(Before(p))
    BY <2>8, <2>9
  <2>11. Before(p) \in Reached(l)
    BY <1>2, <2>2, <2>4, <2>10
  <2>. DEFINE target == Named(l, F, p)
  <2>12. IsFollows(target) => target.path # <<>> /\ ~ IsFollows(Named(l, F, target.path))
    BY <2>6, <2>8 DEF Shallow
  <2>13. IsFollows(target) => target.path \in Followed(l) /\ target.path \in Leading(l)
    BY <2>4, NamedIs
  <2>14. IsFollows(target) => Before(target.path) \in Reached(l)
    <3>1. SUFFICES ASSUME IsFollows(target) PROVE Before(target.path) \in Reached(l)
      OBVIOUS
    <3>2. target.path \in GoesThrough(l, F, p)
      BY <2>4, <3>1 DEF GoesThrough
    <3>. HIDE DEF target
    <3>3. IsWay(Before(target.path)) /\ target.path # <<>>
      BY <1>1, <2>13, <3>1
    <3>4. Before(target.path) \in Leading(l)
      BY <2>13, <3>1, <3>3, BeforeLeads
    <3>5. target.path \notin T
      BY <1>2, <3>2
    <3>. HIDE DEF IsWay
    <3>. QED BY <2>13, <3>1, <3>3, <3>4, <3>5
  <2>15. Derived(l, Reached(l), p)
    BY <2>4, <2>11, <2>12, <2>14 DEF Derived
  <2>. QED BY <2>3, <2>15, ReachedIs
<1>3. T = {}
  <2>. HIDE DEF T
  <2>1. T \in SUBSET Leading(l)
    BY DEF T
  <2>. QED BY <1>2, <2>1, FindFinds DEF Finds
<1>4. path # <<>> /\ Before(path) \in Leading(l) /\ IsWay(Before(path))
  BY <1>1, FollowedLeads, BeforeLeads
<1>. HIDE DEF IsWay
<1>5. Before(path) \in Reached(l)
  BY <1>3, <1>4
<1>. QED BY <1>4, <1>5, CursorIs DEF CursorOf

\* The input that resolve_follows finds is an input, and means what the path does.
LEMMA ResolvedIs ==
  ASSUME NEW l \in Locks, NEW q \in Followed(l), NEW end \in resolve_follows(l, q)
  PROVE  /\ q # <<>> /\ end = <<Find(l)[Before(q)], Final(q)>>
         /\ end[1] \in DOMAIN l.nodes /\ end[2] \in DOMAIN Inputs(l, end[1])
         /\ Meant(l, end[1], end[2]) = Find(l)[q]
         /\ Inputs(l, end[1])[end[2]] = Named(l, Find(l), q)
<1>1. q # <<>> /\ q \in Leading(l)
  BY FollowedLeads DEF resolve_follows
<1>2. Before(q) \in Leading(l)
  BY <1>1, BeforeLeads
<1>3. Cursor(l)[Before(q)] # Missing /\ end = <<Cursor(l)[Before(q)], Final(q)>>
  BY <1>1 DEF resolve_follows
<1>4. end = <<Find(l)[Before(q)], Final(q)>>
  BY <1>2, <1>3, CursorGoes
<1>5. end[1] = Find(l)[Before(q)] /\ end[2] = Final(q)
  BY <1>4
<1>6. /\ Find(l)[Before(q)] \in DOMAIN l.nodes
      /\ Final(q) \in DOMAIN Inputs(l, Find(l)[Before(q)])
      /\ Named(l, Find(l), q) = Inputs(l, Find(l)[Before(q)])[Final(q)]
      /\ Find(l)[q] = IF IsFollows(Named(l, Find(l), q)) THEN Find(l)[Named(l, Find(l), q).path]
                      ELSE Named(l, Find(l), q).node
  BY <1>1, NamedIs
<1>7. Meant(l, end[1], end[2]) = Find(l)[q]
  BY <1>5, <1>6 DEF Meant
<1>. QED BY <1>1, <1>4, <1>5, <1>6, <1>7

\* Of paths of one hop it misses none.
LEMMA Resolves ==
  ASSUME NEW l \in Locks, \A q \in Followed(l) : Shallow(l, q), NEW path \in Followed(l)
  PROVE  resolve_follows(l, path) # {}
<1>1. path # <<>> /\ Cursor(l)[Before(path)] = Find(l)[Before(path)]
  BY CursorGoesAll
<1>2. Find(l)[Before(path)] # Missing
  BY <1>1, NamedIs, FollowedLeads
<1>. QED BY <1>1, <1>2 DEF resolve_follows

-----------------------------------------------------------------------------
(***************************************************************************)
(* The graph.                                                              *)
(***************************************************************************)
\* What the graph has is what the lock says, and of a node that is described
\* all of it.
IsInput(l, x) == \E id \in DOMAIN l.nodes : \E n \in DOMAIN Inputs(l, id) : x = <<id, n>>

SaysPin(l, e) ==
  \E id \in DOMAIN l.nodes : \E n \in DOMAIN Inputs(l, id) :
    /\ ~ IsFollows(Inputs(l, id)[n])
    /\ e = <<<<id, n>>, PinOf(l, Inputs(l, id)[n].node)>>
SaysFollows(l, e) ==
  \E id \in DOMAIN l.nodes : \E n \in DOMAIN Inputs(l, id) :
    /\ IsFollows(Inputs(l, id)[n])
    /\ e[1] = <<id, n>> /\ e[2] \in resolve_follows(l, Inputs(l, id)[n].path)

EdgesOf(l, id, pins, edges) ==
  \A n \in DOMAIN Inputs(l, id) :
    LET target == Inputs(l, id)[n]
    IN /\ ~ IsFollows(target) /\ HasPin(l, target.node) =>
            <<<<id, n>>, PinOf(l, target.node)>> \in pins
       /\ IsFollows(target) =>
            \A end \in resolve_follows(l, target.path) : <<<<id, n>>, end>> \in edges

LockInv ==
  /\ lock \in Locks /\ left \subseteq DOMAIN lock.nodes
  /\ \A x \in locks : IsInput(lock, x[2])
  /\ \A e \in pinned : SaysPin(lock, e)
  /\ \A e \in follows : SaysFollows(lock, e)
  /\ \A id \in DOMAIN lock.nodes \ left : HasPin(lock, id) => EdgesOf(lock, id, pinned, follows)

\* Edges are only added, and those of a node all at once.
LEMMA EdgesGrow ==
  ASSUME NEW l, NEW id, NEW P1, NEW P2, NEW F1, NEW F2, P1 \subseteq P2, F1 \subseteq F2,
         EdgesOf(l, id, P1, F1)
  PROVE  EdgesOf(l, id, P2, F2)
BY DEF EdgesOf

LEMMA DescribeKeeps ==
  ASSUME LockInv, NEW id \in left, Describe(id)
  PROVE  LockInv'
<1>. DEFINE Target(n) == Inputs(lock, id)[n]
            Following == {n \in DOMAIN Inputs(lock, id) : IsFollows(Target(n))}
            ToNodes == DOMAIN Inputs(lock, id) \ Following
            Pins == {<<<<id, n>>, PinOf(lock, Target(n).node)>> :
                       n \in {m \in ToNodes : HasPin(lock, Target(m).node)}}
            Edges == UNION {{<<id, n>>} \X resolve_follows(lock, Target(n).path) : n \in Following}
<1>1. /\ lock' = lock /\ left' = left \ {id}
      /\ locks' = locks \cup {<<PinOf(lock, id), <<id, n>>>> : n \in DOMAIN Inputs(lock, id)}
      /\ pinned' = pinned \cup Pins /\ follows' = follows \cup Edges
  BY DEF Describe
<1>2. lock \in Locks /\ left \subseteq DOMAIN lock.nodes /\ id \in DOMAIN lock.nodes
  BY DEF LockInv
<1>3. \A x \in locks' : IsInput(lock, x[2])
  <2>1. \A n \in DOMAIN Inputs(lock, id) : IsInput(lock, <<id, n>>)
    BY <1>2 DEF IsInput
  <2>. QED BY <1>1, <2>1 DEF LockInv
<1>4. \A e \in Pins : SaysPin(lock, e)
  BY <1>2 DEF SaysPin
<1>5. \A e \in Edges : SaysFollows(lock, e)
  <2>1. SUFFICES ASSUME NEW n \in Following,
                        NEW e \in {<<id, n>>} \X resolve_follows(lock, Target(n).path)
                 PROVE  SaysFollows(lock, e)
    OBVIOUS
  <2>2. e[1] = <<id, n>> /\ e[2] \in resolve_follows(lock, Target(n).path)
    BY <2>1
  <2>. QED BY <1>2, <2>2 DEF SaysFollows
<1>6. EdgesOf(lock, id, pinned', follows')
  <2>1. SUFFICES ASSUME NEW n \in DOMAIN Inputs(lock, id)
        PROVE /\ ~ IsFollows(Target(n)) /\ HasPin(lock, Target(n).node)
                   => <<<<id, n>>, PinOf(lock, Target(n).node)>> \in pinned'
              /\ IsFollows(Target(n))
                   => \A end \in resolve_follows(lock, Target(n).path) :
                        <<<<id, n>>, end>> \in follows'
    BY DEF EdgesOf
  <2>2. IsFollows(Target(n)) => {<<id, n>>} \X resolve_follows(lock, Target(n).path) \subseteq Edges
    OBVIOUS
  <2>3. ~ IsFollows(Target(n)) /\ HasPin(lock, Target(n).node)
          => <<<<id, n>>, PinOf(lock, Target(n).node)>> \in Pins
    OBVIOUS
  <2>. HIDE DEF Edges, Pins
  <2>. QED BY <1>1, <2>2, <2>3
<1>. HIDE DEF Edges, Pins
<1>7. \A i \in DOMAIN lock.nodes \ left' : HasPin(lock, i) => EdgesOf(lock, i, pinned', follows')
  <2>1. SUFFICES ASSUME NEW i \in DOMAIN lock.nodes \ left', HasPin(lock, i)
                 PROVE  EdgesOf(lock, i, pinned', follows')
    OBVIOUS
  <2>2. CASE i = id
    BY <1>6, <2>2
  <2>3. CASE i # id
    <3>1. EdgesOf(lock, i, pinned, follows)
      BY <1>1, <2>1, <2>3 DEF LockInv
    <3>. QED BY <1>1, <3>1, EdgesGrow
  <2>. QED BY <2>2, <2>3
<1>8. (\A e \in pinned' : SaysPin(lock, e)) /\ (\A e \in follows' : SaysFollows(lock, e))
  BY <1>1, <1>4, <1>5 DEF LockInv
<1>9. lock \in Locks /\ left' \subseteq DOMAIN lock.nodes
  BY <1>1, <1>2
<1>. QED BY <1>1, <1>3, <1>7, <1>8, <1>9 DEF LockInv

\* LockInv is inductive.
LEMMA LockIsInvariant == LockSpec => []LockInv
<1>1. LockInit => LockInv
  BY DEF LockInit, LockInv
<1>2. LockInv /\ [LockNext]_lockVars => LockInv'
  <2>1. SUFFICES ASSUME LockInv, [LockNext]_lockVars PROVE LockInv'
    OBVIOUS
  <2>2. ASSUME NEW id \in left, Describe(id) PROVE LockInv'
    BY <2>1, <2>2, DescribeKeeps
  <2>3. ASSUME NEW id \in left, PassOver(id) PROVE LockInv'
    <3>1. /\ lock' = lock /\ left' = left \ {id} /\ ~ HasPin(lock, id)
          /\ locks' = locks /\ pinned' = pinned /\ follows' = follows
      BY <2>3 DEF PassOver
    <3>. QED BY <2>1, <3>1 DEF LockInv
  <2>4. CASE UNCHANGED lockVars
    BY <2>1, <2>4 DEF LockInv, lockVars
  <2>. QED BY <2>1, <2>2, <2>3, <2>4 DEF LockNext
<1>. QED BY <1>1, <1>2, PTL DEF LockSpec

-----------------------------------------------------------------------------
(***************************************************************************)
(* Where the edges lead.                                                   *)
(***************************************************************************)
\* Every input leads along itself, and along what it follows.
LEMMA AlongItself ==
  ASSUME NEW input
  PROVE  input \in Along(input)
BY DEF Along

LEMMA AlongFollows ==
  ASSUME NEW input, NEW end, <<input, end>> \in follows
  PROVE  Along(end) \subseteq Along(input)
<1>. DEFINE R == {e[2] : e \in follows}
            Closed(S) == \A e \in follows : e[1] \in S => e[2] \in S
<1>1. end \in R
  OBVIOUS
<1>2. \A x : Along(x) =
        {y \in {x} \cup R : \A S \in SUBSET ({x} \cup R) : x \in S /\ Closed(S) => y \in S}
  BY DEF Along
<1>3. \A e \in follows : e[2] \in R
  OBVIOUS
<1>. HIDE DEF R
<1>4. Along(end) \subseteq R
  BY <1>1, <1>2
<1>5. ASSUME NEW y \in Along(end), NEW S \in SUBSET ({input} \cup R), input \in S, Closed(S)
      PROVE  y \in S
  <2>1. end \in S
    BY <1>5
  <2>2. S \cap R \in SUBSET ({end} \cup R) /\ end \in S \cap R /\ Closed(S \cap R)
    BY <1>1, <1>3, <1>5, <2>1
  <2>. HIDE DEF Closed
  <2>3. y \in S \cap R
    BY <1>2, <2>2
  <2>. QED BY <2>3
<1>. HIDE DEF Closed
<1>. QED BY <1>2, <1>4, <1>5

\* The inputs along the way mean the same.
LEMMA AlongMeansTheSame ==
  ASSUME LockInv, NEW input, IsInput(lock, input), NEW end \in Along(input)
  PROVE  IsInput(lock, end) /\ Meant(lock, end[1], end[2]) = Meant(lock, input[1], input[2])
<1>. DEFINE Ends == {input} \cup {e[2] : e \in follows}
            Same == {x \in Ends : /\ IsInput(lock, x)
                                 /\ Meant(lock, x[1], x[2]) = Meant(lock, input[1], input[2])}
<1>1. ASSUME NEW e \in follows, e[1] \in Same PROVE e[2] \in Same
  <2>1. SaysFollows(lock, e) /\ lock \in Locks
    BY DEF LockInv
  <2>2. PICK id \in DOMAIN lock.nodes : \E n \in DOMAIN Inputs(lock, id) :
          /\ IsFollows(Inputs(lock, id)[n])
          /\ e[1] = <<id, n>> /\ e[2] \in resolve_follows(lock, Inputs(lock, id)[n].path)
    BY <2>1 DEF SaysFollows
  <2>3. PICK n \in DOMAIN Inputs(lock, id) :
          /\ IsFollows(Inputs(lock, id)[n])
          /\ e[1] = <<id, n>> /\ e[2] \in resolve_follows(lock, Inputs(lock, id)[n].path)
    BY <2>2
  <2>. DEFINE q == Inputs(lock, id)[n].path
  <2>4. q \in Followed(lock)
    BY <2>3, FollowedIs
  <2>5. Meant(lock, id, n) = Find(lock)[q]
    BY <2>3 DEF Meant
  <2>6. e[1][1] = id /\ e[1][2] = n
    BY <2>3
  <2>. HIDE DEF q
  <2>7. e[2] \in resolve_follows(lock, q)
    BY <2>3 DEF q
  <2>8. /\ e[2] = <<Find(lock)[Before(q)], Final(q)>>
        /\ e[2][1] \in DOMAIN lock.nodes /\ e[2][2] \in DOMAIN Inputs(lock, e[2][1])
        /\ Meant(lock, e[2][1], e[2][2]) = Find(lock)[q]
    BY <2>1, <2>4, <2>7, ResolvedIs
  <2>9. e[2] = <<e[2][1], e[2][2]>>
    BY <2>8
  <2>10. IsInput(lock, e[2])
    BY <2>8, <2>9 DEF IsInput
  <2>11. Meant(lock, e[1][1], e[1][2]) = Meant(lock, input[1], input[2])
    BY <1>1
  <2>12. Meant(lock, e[2][1], e[2][2]) = Meant(lock, input[1], input[2])
    BY <2>5, <2>6, <2>8, <2>11
  <2>. QED BY <2>10, <2>12
<1>2. Same \in SUBSET Ends /\ input \in Same
  OBVIOUS
<1>3. end \in Same
  <2>. HIDE DEF Same
  <2>. QED BY <1>1, <1>2 DEF Along
<1>. QED BY <1>3

\* No input leads to another pin than its own.
LEMMA LeadsNowhereElse ==
  ASSUME LockInv, NEW input, IsInput(lock, input)
  PROVE  Leads(input) \subseteq {PinOf(lock, Meant(lock, input[1], input[2]))}
<1>1. SUFFICES ASSUME NEW e \in pinned, e[1] \in Along(input)
               PROVE  e[2] = PinOf(lock, Meant(lock, input[1], input[2]))
  BY DEF Leads
<1>2. Meant(lock, e[1][1], e[1][2]) = Meant(lock, input[1], input[2])
  BY <1>1, AlongMeansTheSame
<1>3. SaysPin(lock, e)
  BY DEF LockInv
<1>4. PICK id \in DOMAIN lock.nodes : \E n \in DOMAIN Inputs(lock, id) :
        /\ ~ IsFollows(Inputs(lock, id)[n])
        /\ e = <<<<id, n>>, PinOf(lock, Inputs(lock, id)[n].node)>>
  BY <1>3 DEF SaysPin
<1>5. PICK n \in DOMAIN Inputs(lock, id) :
        /\ ~ IsFollows(Inputs(lock, id)[n])
        /\ e = <<<<id, n>>, PinOf(lock, Inputs(lock, id)[n].node)>>
  BY <1>4
<1>6. e[1][1] = id /\ e[1][2] = n /\ e[2] = PinOf(lock, Inputs(lock, id)[n].node)
  BY <1>5
<1>7. Meant(lock, id, n) = Inputs(lock, id)[n].node
  BY <1>5 DEF Meant
<1>. QED BY <1>2, <1>6, <1>7

\* An input that leads to a node, or follows one that has a pin, has a pin.
LEMMA LeadsAlong ==
  ASSUME NEW input, NEW end, <<input, end>> \in follows, Leads(end) # {}
  PROVE  Leads(input) # {}
BY AlongFollows DEF Leads

LEMMA LeadsToNode ==
  ASSUME NEW input, NEW pin, <<input, pin>> \in pinned
  PROVE  Leads(input) # {}
<1>1. <<input, pin>>[1] \in Along(input)
  BY AlongItself
<1>. QED BY <1>1 DEF Leads

LEMMA LeadsSomewhere ==
  ASSUME LockInv, left = {}, \A id \in DOMAIN lock.nodes : HasPin(lock, id),
         \A path \in Followed(lock) : Shallow(lock, path),
         NEW input, IsInput(lock, input)
  PROVE  Leads(input) # {}
<1>. DEFINE F == Find(lock)
            Lost(q, id, n) == /\ IsFollows(Inputs(lock, id)[n]) /\ q = Inputs(lock, id)[n].path
                              /\ Leads(<<id, n>>) = {}
            Bad == {q \in Leading(lock) : \E id \in DOMAIN lock.nodes :
                                            \E n \in DOMAIN Inputs(lock, id) : Lost(q, id, n)}
<1>1. lock \in Locks /\ \A id \in DOMAIN lock.nodes : EdgesOf(lock, id, pinned, follows)
  BY DEF LockInv
<1>2. ASSUME NEW id \in DOMAIN lock.nodes, NEW n \in DOMAIN Inputs(lock, id),
             ~ IsFollows(Inputs(lock, id)[n])
      PROVE  Leads(<<id, n>>) # {}
  <2>1. Inputs(lock, id)[n].node \in DOMAIN lock.nodes
    BY <1>1, <1>2, Accepted DEF InputsLead
  <2>2. HasPin(lock, Inputs(lock, id)[n].node)
    BY <2>1
  <2>3. <<<<id, n>>, PinOf(lock, Inputs(lock, id)[n].node)>> \in pinned
    BY <1>1, <1>2, <2>2 DEF EdgesOf
  <2>. QED BY <2>3, LeadsToNode
<1>3. ASSUME NEW q \in Bad, GoesThrough(lock, F, q) \cap Bad = {} PROVE FALSE
  <2>1. PICK id \in DOMAIN lock.nodes : \E n \in DOMAIN Inputs(lock, id) : Lost(q, id, n)
    OBVIOUS
  <2>2. PICK n \in DOMAIN Inputs(lock, id) : Lost(q, id, n)
    BY <2>1
  <2>3. q \in Followed(lock)
    BY <2>2, FollowedIs
  <2>4. PICK end \in resolve_follows(lock, q) : TRUE
    BY <1>1, <2>3, Resolves
  <2>5. <<<<id, n>>, end>> \in follows
    BY <1>1, <2>2, <2>4 DEF EdgesOf
  <2>6. Leads(end) = {}
    BY <2>2, <2>5, LeadsAlong
  <2>7. /\ q # <<>> /\ end = <<F[Before(q)], Final(q)>>
        /\ end[1] \in DOMAIN lock.nodes /\ end[2] \in DOMAIN Inputs(lock, end[1])
        /\ Inputs(lock, end[1])[end[2]] = Named(lock, F, q)
    BY <1>1, <2>3, <2>4, ResolvedIs
  <2>8. end = <<end[1], end[2]>>
    BY <2>7
  <2>9. IsFollows(Named(lock, F, q))
    BY <1>2, <2>6, <2>7, <2>8
  <2>10. Named(lock, F, q).path \in GoesThrough(lock, F, q)
    BY <2>7, <2>9 DEF GoesThrough
  <2>11. Named(lock, F, q).path \in Leading(lock)
    BY <1>1, <2>3, <2>7, <2>9, NamedIs
  <2>12. Lost(Named(lock, F, q).path, end[1], end[2])
    BY <2>6, <2>7, <2>8, <2>9
  <2>. HIDE DEF Lost
  <2>13. Named(lock, F, q).path \in Bad
    BY <2>7, <2>11, <2>12
  <2>. QED BY <1>3, <2>10, <2>13
<1>4. Bad = {}
  <2>. HIDE DEF Bad
  <2>1. Bad \in SUBSET Leading(lock)
    BY DEF Bad
  <2>. QED BY <1>1, <1>3, <2>1, FindFinds DEF Finds
<1>5. PICK id \in DOMAIN lock.nodes : \E n \in DOMAIN Inputs(lock, id) : input = <<id, n>>
  BY DEF IsInput
<1>6. PICK n \in DOMAIN Inputs(lock, id) : input = <<id, n>>
  BY <1>5
<1>7. CASE ~ IsFollows(Inputs(lock, id)[n])
  BY <1>2, <1>6, <1>7
<1>8. CASE IsFollows(Inputs(lock, id)[n])
  <2>1. Inputs(lock, id)[n].path \in Leading(lock)
    BY <1>1, <1>8, FollowedIs, FollowedLeads
  <2>2. ~ Lost(Inputs(lock, id)[n].path, id, n)
    <3>. HIDE DEF Lost
    <3>. QED BY <1>4, <2>1
  <2>. QED BY <1>6, <1>8, <2>2
<1>. QED BY <1>7, <1>8

\* Whatever the inputs of a lock follow, and in whatever order lock_graph
\* describes its nodes, no input leads to another pin than the one Nix fetches
\* for it; and when the follows paths are ones resolve_follows can go along and
\* every node has a pin, every input leads to its pin.
THEOREM LocksLeadToTheirPins == LockSpec => []LeadsToItsPin
<1>1. LockInv => LeadsToItsPin
  <2>1. SUFFICES ASSUME LockInv PROVE LeadsToItsPin
    OBVIOUS
  <2>2. \A input \in Described : IsInput(lock, input)
    BY <2>1 DEF Described, LockInv
  <2>. QED BY <2>1, <2>2, LeadsNowhereElse, LeadsSomewhere DEF LeadsToItsPin
<1>. QED BY <1>1, LockIsInvariant, PTL
=============================================================================
