------------------------- MODULE SelectInputsProofs -------------------------
(***************************************************************************)
(* Proofs about SelectInputs, for any fragments, references, selections    *)
(* and stores and any interleaving with other processes: a selection that  *)
(* returns misses nothing and takes nothing extra, one that fails had      *)
(* cause to, and the walk gets closer to its end with every step.          *)
(***************************************************************************)
EXTENDS SelectInputs, TLAPS

-----------------------------------------------------------------------------
(***************************************************************************)
(* What the stack operations do to the elements of a sequence.             *)
(***************************************************************************)
LEMMA PopElems ==
  ASSUME NEW T, NEW q \in Seq(T), q # <<>>
  PROVE  /\ SubSeq(q, 1, Len(q) - 1) \in Seq(T)
         /\ q[Len(q)] \in T
         /\ ElemsOf(q) = ElemsOf(SubSeq(q, 1, Len(q) - 1)) \cup {q[Len(q)]}
<1> DEFINE n == Len(q)
           r == SubSeq(q, 1, n - 1)
<1>1. n \in Nat /\ n > 0 /\ DOMAIN q = 1..n
  OBVIOUS
<1>2. r \in Seq(T) /\ DOMAIN r = 1..(n - 1) /\ \A k \in 1..(n - 1) : r[k] = q[k]
  BY <1>1
<1>3. 1..n = (1..(n - 1)) \cup {n}
  BY <1>1
<1>4. ElemsOf(q) = ElemsOf(r) \cup {q[n]}
  BY <1>1, <1>2, <1>3 DEF ElemsOf
<1>5. QED
  BY <1>1, <1>2, <1>4

LEMMA AppendElems ==
  ASSUME NEW T, NEW q \in Seq(T), NEW x \in T
  PROVE  /\ Append(q, x) \in Seq(T)
         /\ ElemsOf(Append(q, x)) = ElemsOf(q) \cup {x}
<1> DEFINE n == Len(q)
           r == Append(q, x)
<1>1. n \in Nat /\ DOMAIN q = 1..n
  OBVIOUS
<1>2. r \in Seq(T) /\ DOMAIN r = 1..(n + 1) /\ (\A k \in 1..n : r[k] = q[k]) /\ r[n + 1] = x
  BY <1>1
<1>3. 1..(n + 1) = (1..n) \cup {n + 1}
  BY <1>1
<1>4. ElemsOf(r) = ElemsOf(q) \cup {x}
  BY <1>1, <1>2, <1>3 DEF ElemsOf
<1>5. QED
  BY <1>2, <1>4

LEMMA TailElems ==
  ASSUME NEW T, NEW q \in Seq(T), q # <<>>
  PROVE  /\ Tail(q) \in Seq(T)
         /\ Head(q) \in T
         /\ ElemsOf(q) = ElemsOf(Tail(q)) \cup {Head(q)}
<1> DEFINE n == Len(q)
           r == Tail(q)
<1>1. n \in Nat /\ n > 0 /\ DOMAIN q = 1..n /\ Head(q) = q[1]
  OBVIOUS
<1>2. r \in Seq(T) /\ DOMAIN r = 1..(n - 1) /\ \A k \in 1..(n - 1) : r[k] = q[k + 1]
  BY <1>1
<1>3. \A k \in 1..n : k = 1 \/ (k - 1 \in 1..(n - 1) /\ (k - 1) + 1 = k)
  BY <1>1
<1>4. \A k \in 1..(n - 1) : k + 1 \in 1..n
  BY <1>1
<1>5. ASSUME NEW x \in ElemsOf(q) PROVE x \in ElemsOf(r) \cup {q[1]}
  <2>1. PICK k \in 1..n : x = q[k]
    BY <1>1 DEF ElemsOf
  <2>2. CASE k = 1
    BY <2>1, <2>2
  <2>3. CASE k - 1 \in 1..(n - 1) /\ (k - 1) + 1 = k
    <3>1. r[k - 1] = q[(k - 1) + 1]
      BY <1>2, <2>3
    <3>2. r[k - 1] = x
      BY <2>1, <2>3, <3>1
    <3>3. QED
      BY <1>2, <2>3, <3>2 DEF ElemsOf
  <2>4. QED
    BY <1>3, <2>2, <2>3
<1>6. ASSUME NEW x \in ElemsOf(r) PROVE x \in ElemsOf(q)
  <2>1. PICK k \in 1..(n - 1) : x = r[k]
    BY <1>2 DEF ElemsOf
  <2>2. QED
    BY <1>1, <1>2, <1>4, <2>1 DEF ElemsOf
<1>7. 1 \in 1..n
  BY <1>1
<1>8. q[1] \in ElemsOf(q)
  BY <1>1, <1>7 DEF ElemsOf
<1>9. QED
  BY <1>1, <1>2, <1>5, <1>6, <1>8

LEMMA ConcatElems ==
  ASSUME NEW T, NEW q \in Seq(T), NEW r \in Seq(T)
  PROVE  q \o r \in Seq(T)
  OBVIOUS

LEMMA EmptyElems == ElemsOf(<<>>) = {}
  BY DEF ElemsOf

LEMMA RefsOfType ==
  ASSUME NEW f \in Frags
  PROVE  RefsOf(f) \in SUBSET Frags
<1>1. Objects[f] \in SUBSET ((ClosurePreds \cup K8sPreds) \X Entities)
  BY FragmentAssumption
<1>2. ASSUME NEW o \in Objects[f], FragmentFor[o[2]] # NoFrag
      PROVE  FragmentFor[o[2]] \in Frags
  BY <1>1, <1>2, FragmentAssumption
<1>3. ASSUME NEW g \in Frags, OutOf[g] # NoFrag PROVE OutOf[g] \in Frags
  BY <1>3, FragmentAssumption
<1>4. QED
  BY <1>2, <1>3 DEF RefsOf

LEMMA ElemsType ==
  ASSUME NEW T, NEW q \in Seq(T)
  PROVE  ElemsOf(q) \in SUBSET T
  BY DEF ElemsOf

-----------------------------------------------------------------------------
(***************************************************************************)
(* Types, with what a step knows of the fragment in hand.                  *)
(***************************************************************************)
TypeInv ==
  /\ TypeOK
  /\ pc \in {"read", "scan", "failed"} => current \in Frags
  /\ pc \in {"list", "pop", "done"} => current = NoFrag
  /\ pc # "scan" => refs = <<>>
  /\ pc = "done" => queue = <<>>

LEMMA TypeInvInit == Init => TypeInv
  BY SelectionAssumption DEF Init, TypeInv, TypeOK

LEMMA SortedType ==
  ASSUME NEW S \in SUBSET Frags
  PROVE  Sorted[S] \in Seq(Frags) /\ ElemsOf(Sorted[S]) = S
  BY SortedAssumption

LEMMA TypeInvStep == TypeInv /\ [Next]_vars => TypeInv'
<1> SUFFICES ASSUME TypeInv, [Next]_vars PROVE TypeInv'
  OBVIOUS
<1> USE DEF TypeInv, TypeOK
<1>1. ASSUME List PROVE TypeInv'
  <2>1. PICK found \in SUBSET Frags :
          LET roots == {FragmentFor[e] : e \in sel.roots} \ {NoFrag}
              pushed == IF sel.everything THEN Sorted[found]
                        ELSE Sorted[sel.paths] \o Sorted[found] \o Sorted[roots]
          IN queue' = pushed /\ requested' = ElemsOf(pushed)
    BY <1>1, FragmentAssumption DEF List, Listing
  <2> DEFINE roots == {FragmentFor[e] : e \in sel.roots} \ {NoFrag}
             pushed == IF sel.everything THEN Sorted[found]
                       ELSE Sorted[sel.paths] \o Sorted[found] \o Sorted[roots]
  <2>2. roots \in SUBSET Frags /\ sel.paths \in SUBSET Frags
    BY FragmentAssumption DEF Selection
  <2>3. /\ Sorted[found] \in Seq(Frags) /\ Sorted[sel.paths] \in Seq(Frags)
        /\ Sorted[roots] \in Seq(Frags)
    BY <2>2, SortedType
  <2> HIDE DEF roots
  <2>4. Sorted[sel.paths] \o Sorted[found] \o Sorted[roots] \in Seq(Frags)
    BY <2>3, ConcatElems
  <2>5. pushed \in Seq(Frags)
    BY <2>3, <2>4
  <2>6. queue' = pushed /\ requested' = ElemsOf(pushed)
    BY <2>1 DEF roots
  <2> HIDE DEF pushed
  <2>7. queue' \in Seq(Frags) /\ requested' \in SUBSET Frags
    BY <2>5, <2>6, ElemsType
  <2>8. QED
    BY <1>1, <2>7 DEF List, storeVars
<1>2. ASSUME queue # <<>> PROVE Popped \in Seq(Frags) /\ Top \in Frags
  BY <1>2, PopElems DEF Popped, Top
<1>3. ASSUME PopSeen PROVE TypeInv'
  BY <1>2, <1>3 DEF PopSeen, storeVars
<1>4. ASSUME PopMissing PROVE TypeInv'
  BY <1>2, <1>4 DEF PopMissing, storeVars
<1>5. ASSUME PopFound PROVE TypeInv'
  BY <1>2, <1>5 DEF PopFound, storeVars
<1>6. ASSUME Read PROVE TypeInv'
  <2>1. refs' \in Seq(Frags)
    BY <1>6, RefsOfType, SortedType DEF Read
  <2>2. QED
    BY <1>6, <2>1 DEF Read, storeVars
<1>7. ASSUME ReadFails PROVE TypeInv'
  BY <1>7 DEF ReadFails, storeVars, loopVars
<1>8. ASSUME PushRef PROVE TypeInv'
  <2>1. Tail(refs) \in Seq(Frags) /\ Head(refs) \in Frags
    BY <1>8, TailElems DEF PushRef
  <2>2. queue' \in Seq(Frags)
    BY <1>8, <2>1, AppendElems DEF PushRef
  <2>3. QED
    BY <1>8, <2>1, <2>2 DEF PushRef, storeVars
<1>9. ASSUME Insert PROVE TypeInv'
  BY <1>9 DEF Insert, storeVars
<1>10. ASSUME Return PROVE TypeInv'
  BY <1>10 DEF Return, storeVars, loopVars
<1>11. ASSUME NEW f \in Frags, Publish(f) PROVE TypeInv'
  BY <1>11 DEF Publish, loopVars
<1>12. ASSUME NEW f \in Frags, Unlink(f) PROVE TypeInv'
  BY <1>12 DEF Unlink, loopVars
<1>13. CASE UNCHANGED vars
  BY <1>13 DEF vars
<1>14. QED
  BY <1>1, <1>3, <1>4, <1>5, <1>6, <1>7, <1>8, <1>9, <1>10, <1>11, <1>12, <1>13
     DEF Next, SelectStep

\* Every variable keeps its type: in particular nothing is pushed for an IRI
\* that maps to no fragment, and nothing is read that was not popped.
THEOREM SelectTypeCorrect == Spec => []TypeOK
<1>1. TypeInv => TypeOK
  BY DEF TypeInv
<1>2. QED
  BY <1>1, TypeInvInit, TypeInvStep, PTL DEF Spec

-----------------------------------------------------------------------------
(***************************************************************************)
(* The inductive invariant.                                                *)
(***************************************************************************)
StoreInv == always \subseteq files /\ files \subseteq ever

Waiting == ElemsOf(queue)
Known == seen_paths \cup Waiting

\* Nothing that was in the store all along falls out of the walk: what was
\* popped is selected or in hand, what was asked for or referred to is popped
\* or waits, and the references of the fragment in hand wait in refs.
KeepInv ==
  /\ seen_paths \cap always \subseteq by_graph \cup {current}
  /\ requested \cap always \subseteq Known
  /\ Follow => \A f \in by_graph : RefsOf(f) \cap always \subseteq Known
  /\ Follow /\ pc = "scan" => RefsOf(current) \cap always \subseteq Known \cup ElemsOf(refs)

\* Sets that hold what was asked for and found, closed under references.
Trap(S) ==
  /\ requested \cap ever \subseteq S
  /\ Follow => Closed(S, ever)

\* Nothing gets into the walk but through a request or a reference.
TrapInv ==
  /\ pc = "list" => Known \cup by_graph \cup requested = {}
  /\ Waiting \subseteq requested \cup ever
  /\ refs # <<>> => Follow /\ ElemsOf(refs) \subseteq RefsOf(current)
  /\ by_graph \subseteq ever
  /\ current # NoFrag => current \in ever
  /\ \A S \in SUBSET Frags : Trap(S) =>
       /\ Waiting \cap ever \subseteq S
       /\ by_graph \subseteq S
       /\ current # NoFrag => current \in S

IInv == TypeInv /\ StoreInv /\ KeepInv /\ TrapInv /\ FailsOnlyForCause

LEMMA IInvInit == Init => IInv
<1> SUFFICES ASSUME Init PROVE IInv
  OBVIOUS
<1>1. Waiting = {} /\ ElemsOf(refs) = {}
  BY EmptyElems DEF Init, Waiting
<1>2. KeepInv
  BY <1>1 DEF Init, KeepInv
<1>3. TrapInv
  BY <1>1 DEF Init, TrapInv, Known
<1>4. QED
  BY <1>2, <1>3, TypeInvInit DEF Init, IInv, StoreInv, FailsOnlyForCause

\* What every pop has in common.
LEMMA PopFacts ==
  ASSUME TypeInv, queue # <<>>, queue' = Popped
  PROVE  Top \in Frags /\ Waiting = Waiting' \cup {Top}
<1>1. queue \in Seq(Frags)
  BY DEF TypeInv, TypeOK
<1>2. QED
  BY <1>1, PopElems DEF Popped, Top, Waiting

LEMMA ListPreserves == IInv /\ List => KeepInv' /\ TrapInv' /\ FailsOnlyForCause'
<1> SUFFICES ASSUME IInv, List PROVE KeepInv' /\ TrapInv' /\ FailsOnlyForCause'
  OBVIOUS
<1>1. /\ seen_paths = {} /\ by_graph = {} /\ current = NoFrag /\ refs = <<>>
      /\ UNCHANGED <<files, always, ever, sel, seen_paths, current, refs, by_graph>>
      /\ pc' = "pop"
  BY DEF List, IInv, TrapInv, Known, TypeInv, storeVars
<1>2. requested' = Waiting'
  BY DEF List, Waiting
<1>3. KeepInv'
  BY <1>1, <1>2 DEF KeepInv, Known
<1>4. TrapInv'
  BY <1>1, <1>2 DEF TrapInv, Trap
<1>5. QED
  BY <1>1, <1>3, <1>4 DEF FailsOnlyForCause

LEMMA PopSeenPreserves == IInv /\ PopSeen => KeepInv' /\ TrapInv' /\ FailsOnlyForCause'
<1> SUFFICES ASSUME IInv, PopSeen PROVE KeepInv' /\ TrapInv' /\ FailsOnlyForCause'
  OBVIOUS
<1>1. Waiting = Waiting' \cup {Top} /\ Top \in seen_paths
  BY PopFacts DEF PopSeen, IInv
<1>2. UNCHANGED <<files, always, ever, pc, sel, requested, seen_paths, current, refs, by_graph>>
      /\ pc = "pop"
  BY DEF PopSeen, storeVars
<1>3. Known' = Known
  BY <1>1, <1>2 DEF Known
<1>4. KeepInv'
  BY <1>2, <1>3 DEF KeepInv, IInv, Follow
<1>5. TrapInv'
  BY <1>1, <1>2, <1>3 DEF TrapInv, IInv, Trap, Follow
<1>6. QED
  BY <1>2, <1>4, <1>5 DEF FailsOnlyForCause

LEMMA PopMissingPreserves == IInv /\ PopMissing => KeepInv' /\ TrapInv' /\ FailsOnlyForCause'
<1> SUFFICES ASSUME IInv, PopMissing PROVE KeepInv' /\ TrapInv' /\ FailsOnlyForCause'
  OBVIOUS
<1>1. Waiting = Waiting' \cup {Top} /\ seen_paths' = seen_paths \cup {Top} /\ Top \notin always
  BY PopFacts DEF PopMissing, IInv, StoreInv
<1>2. UNCHANGED <<files, always, ever, pc, sel, requested, current, refs, by_graph>>
      /\ pc = "pop"
  BY DEF PopMissing, storeVars
<1>3. Known' = Known
  BY <1>1 DEF Known
<1>4. KeepInv'
  BY <1>1, <1>2, <1>3 DEF KeepInv, IInv, Follow
<1>5. TrapInv'
  BY <1>1, <1>2, <1>3 DEF TrapInv, IInv, Trap, Follow
<1>6. QED
  BY <1>2, <1>4, <1>5 DEF FailsOnlyForCause

\* The popped fragment passes from the stack to the hand.
LEMMA PopFoundPreserves == IInv /\ PopFound => KeepInv' /\ TrapInv' /\ FailsOnlyForCause'
<1> SUFFICES ASSUME IInv, PopFound PROVE KeepInv' /\ TrapInv' /\ FailsOnlyForCause'
  OBVIOUS
<1>1. /\ Waiting = Waiting' \cup {Top} /\ seen_paths' = seen_paths \cup {Top}
      /\ Top \in ever /\ Top # NoFrag /\ current' = Top /\ current = NoFrag
  BY PopFacts, FragmentAssumption DEF PopFound, IInv, StoreInv, TypeInv
<1>2. UNCHANGED <<files, always, ever, sel, requested, refs, by_graph>>
      /\ pc = "pop" /\ pc' = "read" /\ refs = <<>>
  BY DEF PopFound, storeVars, IInv, TypeInv
<1>3. Known' = Known
  BY <1>1 DEF Known
<1>4. always \in SUBSET Frags
  BY DEF IInv, TypeInv, TypeOK
<1>5. KeepInv'
  <2>1. seen_paths \cap always \subseteq by_graph
    BY <1>1, <1>4, FragmentAssumption DEF KeepInv, IInv
  <2>2. QED
    BY <1>1, <1>2, <1>3, <2>1 DEF KeepInv, IInv, Follow
<1>6. TrapInv'
  BY <1>1, <1>2, <1>3 DEF TrapInv, IInv, Trap, Follow
<1>7. QED
  BY <1>2, <1>5, <1>6 DEF FailsOnlyForCause

LEMMA ReadPreserves == IInv /\ Read => KeepInv' /\ TrapInv' /\ FailsOnlyForCause'
<1> SUFFICES ASSUME IInv, Read PROVE KeepInv' /\ TrapInv' /\ FailsOnlyForCause'
  OBVIOUS
<1>1. UNCHANGED <<files, always, ever, sel, requested, queue, seen_paths, current, by_graph>>
      /\ pc = "read" /\ pc' = "scan" /\ current \in Frags
  BY DEF Read, storeVars, IInv, TypeInv
<1>2. /\ Follow => ElemsOf(refs') = RefsOf(current)
      /\ ~Follow => refs' = <<>>
  BY <1>1, RefsOfType, SortedType DEF Read
<1>3. Known' = Known /\ Waiting' = Waiting
  BY <1>1 DEF Known, Waiting
<1>4. KeepInv'
  BY <1>1, <1>2, <1>3 DEF KeepInv, IInv, Follow
<1>5. TrapInv'
  BY <1>1, <1>2, <1>3 DEF TrapInv, IInv, Trap, Follow
<1>6. QED
  BY <1>1, <1>4, <1>5 DEF FailsOnlyForCause

LEMMA ReadFailsPreserves == IInv /\ ReadFails => KeepInv' /\ TrapInv' /\ FailsOnlyForCause'
<1> SUFFICES ASSUME IInv, ReadFails PROVE KeepInv' /\ TrapInv' /\ FailsOnlyForCause'
  OBVIOUS
<1>1. UNCHANGED <<files, always, ever, sel, requested, queue, seen_paths, current, refs, by_graph>>
      /\ pc = "read" /\ pc' = "failed" /\ current \in Frags
  BY DEF ReadFails, storeVars, loopVars, IInv, TypeInv
<1>2. Known' = Known /\ Waiting' = Waiting
  BY <1>1 DEF Known, Waiting
<1>3. KeepInv'
  BY <1>1, <1>2 DEF KeepInv, IInv, Follow
<1>4. TrapInv'
  BY <1>1, <1>2 DEF TrapInv, IInv, Trap, Follow
<1>5. current \in ever /\ (current \in EmptyFrags \/ current \notin always)
  BY <1>1, FragmentAssumption DEF ReadFails, IInv, TrapInv, StoreInv
<1>6. QED
  BY <1>1, <1>3, <1>4, <1>5 DEF FailsOnlyForCause

\* A reference to what is in the store now is pushed or known already; one to
\* what is not was not there all along.
LEMMA PushRefPreserves == IInv /\ PushRef => KeepInv' /\ TrapInv' /\ FailsOnlyForCause'
<1> SUFFICES ASSUME IInv, PushRef PROVE KeepInv' /\ TrapInv' /\ FailsOnlyForCause'
  OBVIOUS
<1>1. UNCHANGED <<files, always, ever, pc, sel, requested, seen_paths, current, by_graph>>
      /\ pc = "scan" /\ current \in Frags /\ refs # <<>> /\ refs' = Tail(refs)
      /\ queue \in Seq(Frags) /\ refs \in Seq(Frags)
  BY DEF PushRef, storeVars, IInv, TypeInv, TypeOK
<1> DEFINE x == Head(refs)
<1>2. x \in Frags /\ ElemsOf(refs) = ElemsOf(refs') \cup {x}
  BY <1>1, TailElems
<1>3. /\ x \in files \ seen_paths => Waiting' = Waiting \cup {x}
      /\ x \notin files \ seen_paths => Waiting' = Waiting
  BY <1>1, <1>2, AppendElems DEF PushRef, Waiting
<1>4. Follow /\ x \in RefsOf(current) /\ current \in ever /\ Follow' = Follow
  BY <1>1, <1>2, FragmentAssumption DEF IInv, TrapInv, Follow
<1> HIDE DEF x
<1>5. Known \subseteq Known' /\ (x \in always => x \in Known')
  BY <1>1, <1>3 DEF Known, IInv, StoreInv
<1>6. KeepInv'
  BY <1>1, <1>2, <1>4, <1>5 DEF KeepInv, IInv
<1>7. TrapInv'
  <2>1. Waiting' \subseteq requested \cup ever
    BY <1>3 DEF IInv, TrapInv, StoreInv
  <2>2. ElemsOf(refs') \subseteq RefsOf(current)
    BY <1>1, <1>2 DEF IInv, TrapInv
  <2>3. ASSUME NEW S \in SUBSET Frags, Trap(S) PROVE Waiting' \cap ever \subseteq S
    <3>1. current \in S /\ Closed(S, ever) /\ Waiting \cap ever \subseteq S
      BY <1>1, <1>4, <2>3, FragmentAssumption DEF IInv, TrapInv, Trap
    <3>2. RefsOf(current) \cap ever \subseteq S
      BY <3>1 DEF Closed
    <3>3. QED
      BY <1>3, <1>4, <3>1, <3>2 DEF IInv, StoreInv
  <2>4. \A S \in SUBSET Frags : Trap(S)' <=> Trap(S)
    BY <1>1 DEF Trap, Follow
  <2>5. QED
    BY <1>1, <1>4, <2>1, <2>2, <2>3, <2>4 DEF IInv, TrapInv
<1>8. QED
  BY <1>1, <1>6, <1>7 DEF FailsOnlyForCause

LEMMA InsertPreserves == IInv /\ Insert => KeepInv' /\ TrapInv' /\ FailsOnlyForCause'
<1> SUFFICES ASSUME IInv, Insert PROVE KeepInv' /\ TrapInv' /\ FailsOnlyForCause'
  OBVIOUS
<1>1. UNCHANGED <<files, always, ever, sel, requested, queue, seen_paths, refs>>
      /\ pc = "scan" /\ pc' = "pop" /\ current \in Frags /\ current # NoFrag
      /\ by_graph' = by_graph \cup {current} /\ current' = NoFrag /\ ElemsOf(refs) = {}
  BY EmptyElems, FragmentAssumption DEF Insert, storeVars, IInv, TypeInv
<1>2. Known' = Known /\ Waiting' = Waiting
  BY <1>1 DEF Known, Waiting
<1>3. KeepInv'
  BY <1>1, <1>2 DEF KeepInv, IInv, Follow
<1>4. TrapInv'
  BY <1>1, <1>2 DEF TrapInv, IInv, Trap, Follow
<1>5. QED
  BY <1>1, <1>3, <1>4 DEF FailsOnlyForCause

LEMMA ReturnPreserves == IInv /\ Return => KeepInv' /\ TrapInv' /\ FailsOnlyForCause'
<1> SUFFICES ASSUME IInv, Return PROVE KeepInv' /\ TrapInv' /\ FailsOnlyForCause'
  OBVIOUS
<1>1. UNCHANGED <<files, always, ever, sel, requested, queue, seen_paths, current, refs, by_graph>>
      /\ pc = "pop" /\ pc' = "done"
  BY DEF Return, storeVars, loopVars
<1>2. Known' = Known /\ Waiting' = Waiting
  BY <1>1 DEF Known, Waiting
<1>3. QED
  BY <1>1, <1>2 DEF KeepInv, TrapInv, IInv, Trap, Follow, FailsOnlyForCause

\* A new fragment may have been asked for before it was there: it is one the
\* trapping sets must now hold.
LEMMA PublishPreserves ==
  ASSUME IInv, NEW f \in Frags, Publish(f)
  PROVE  KeepInv' /\ TrapInv' /\ FailsOnlyForCause'
<1>1. UNCHANGED <<always, pc, sel, requested, queue, seen_paths, current, refs, by_graph>>
      /\ ever' = ever \cup {f} /\ pc # "failed"
  BY DEF Publish, loopVars, Running
<1>2. Known' = Known /\ Waiting' = Waiting
  BY <1>1 DEF Known, Waiting
<1>3. KeepInv'
  BY <1>1, <1>2 DEF KeepInv, IInv, Follow
<1>4. \A S \in SUBSET Frags : Trap(S)' => Trap(S)
  BY <1>1 DEF Trap, Follow, Closed
<1>5. ASSUME NEW S \in SUBSET Frags, Trap(S)' PROVE Waiting' \cap ever' \subseteq S
  <2>1. Waiting \cap ever \subseteq S /\ Waiting \subseteq requested \cup ever
    BY <1>4, <1>5 DEF IInv, TrapInv
  <2>2. requested \cap ever' \subseteq S
    BY <1>1, <1>5 DEF Trap
  <2>3. QED
    BY <1>1, <1>2, <2>1, <2>2
<1>6. TrapInv'
  BY <1>1, <1>2, <1>4, <1>5 DEF TrapInv, IInv, Follow
<1>7. QED
  BY <1>1, <1>3, <1>6 DEF FailsOnlyForCause

LEMMA UnlinkPreserves ==
  ASSUME IInv, NEW f \in Frags, Unlink(f)
  PROVE  KeepInv' /\ TrapInv' /\ FailsOnlyForCause'
<1>1. UNCHANGED <<ever, pc, sel, requested, queue, seen_paths, current, refs, by_graph>>
      /\ always' \subseteq always /\ pc # "failed"
  BY DEF Unlink, loopVars, Running
<1>2. Known' = Known /\ Waiting' = Waiting
  BY <1>1 DEF Known, Waiting
<1>3. KeepInv'
  BY <1>1, <1>2 DEF KeepInv, IInv, Follow
<1>4. TrapInv'
  BY <1>1, <1>2 DEF TrapInv, IInv, Trap, Follow
<1>5. QED
  BY <1>1, <1>3, <1>4 DEF FailsOnlyForCause

LEMMA StoreInvStep == IInv /\ [Next]_vars => StoreInv'
<1> SUFFICES ASSUME IInv, [Next]_vars PROVE StoreInv'
  OBVIOUS
<1>1. CASE SelectStep \/ UNCHANGED vars
  BY <1>1 DEF SelectStep, List, PopSeen, PopMissing, PopFound, Read, ReadFails, PushRef,
              Insert, Return, vars, storeVars, StoreInv, IInv
<1>2. ASSUME NEW f \in Frags, Publish(f) PROVE StoreInv'
  BY <1>2 DEF Publish, StoreInv, IInv
<1>3. ASSUME NEW f \in Frags, Unlink(f) PROVE StoreInv'
  BY <1>3 DEF Unlink, StoreInv, IInv
<1>4. QED
  BY <1>1, <1>2, <1>3 DEF Next

LEMMA IInvStep == IInv /\ [Next]_vars => IInv'
<1> SUFFICES ASSUME IInv, [Next]_vars PROVE IInv'
  OBVIOUS
<1>1. TypeInv' /\ StoreInv'
  BY TypeInvStep, StoreInvStep DEF IInv
<1>2. CASE SelectStep
  <2>1. KeepInv' /\ TrapInv' /\ FailsOnlyForCause'
    BY <1>2, ListPreserves, PopSeenPreserves, PopMissingPreserves, PopFoundPreserves,
       ReadPreserves, ReadFailsPreserves, PushRefPreserves, InsertPreserves, ReturnPreserves
       DEF SelectStep
  <2>2. QED
    BY <1>1, <2>1 DEF IInv
<1>3. ASSUME NEW f \in Frags, Publish(f) \/ Unlink(f) PROVE IInv'
  BY <1>1, <1>3, PublishPreserves, UnlinkPreserves DEF IInv
<1>4. CASE UNCHANGED vars
  <2>1. Known' = Known /\ Waiting' = Waiting
    BY <1>4 DEF vars, Known, Waiting
  <2>2. KeepInv'
    BY <1>4, <2>1 DEF vars, KeepInv, IInv, Follow
  <2>3. TrapInv'
    BY <1>4, <2>1 DEF vars, TrapInv, IInv, Trap, Follow
  <2>4. QED
    BY <1>1, <1>4, <2>2, <2>3 DEF vars, IInv, FailsOnlyForCause
<1>5. QED
  BY <1>2, <1>3, <1>4 DEF Next

LEMMA IInvAlways == Spec => []IInv
  BY IInvInit, IInvStep, PTL DEF Spec

\* A rule run misses nothing that was in the store all along, whatever other
\* processes put there or removed while select_inputs walked.
THEOREM SelectMissesNothing == Spec => []NothingMissed
<1>1. ASSUME IInv, pc = "done" PROVE NothingMissed
  <2>1. current = NoFrag /\ Waiting = {} /\ always \in SUBSET Frags
    BY <1>1, EmptyElems DEF IInv, TypeInv, TypeOK, Waiting
  <2>2. Known \cap always \subseteq by_graph
    BY <2>1, FragmentAssumption, <1>1 DEF IInv, KeepInv, Known
  <2>3. QED
    BY <1>1, <2>2 DEF IInv, KeepInv, NothingMissed, Closed
<1>2. IInv => NothingMissed
  BY <1>1 DEF NothingMissed
<1>3. QED
  BY <1>2, IInvAlways, PTL

LEMMA IInvNothingExtra == IInv => NothingExtra
  BY DEF IInv, TrapInv, Trap, NothingExtra

\* A rule run reads nothing it was not led to from what was asked for.
THEOREM SelectTakesNothingExtra == Spec => []NothingExtra
  BY IInvNothingExtra, IInvAlways, PTL

\* An error of select_inputs means an empty fragment or one that another
\* process removed between the test for it and the read.
THEOREM SelectFailsForCause == Spec => []FailsOnlyForCause
<1>1. IInv => FailsOnlyForCause
  BY DEF IInv
<1>2. QED
  BY <1>1, IInvAlways, PTL

\* On a store that nobody changes meanwhile the result is the closure of what
\* was asked for: the selection does not depend on the order of the walk.
THEOREM SelectionIsTheClosure == Spec => []SelectsTheClosure
<1> DEFINE Safe == IInv /\ NothingMissed /\ NothingExtra
<1>1. ASSUME Safe, pc = "done", always = ever PROVE by_graph = Reachable(files)
  <2>1. files = ever /\ by_graph \in SUBSET Frags /\ by_graph \subseteq files
    BY <1>1 DEF IInv, StoreInv, TypeInv, TypeOK, NothingExtra
  <2>2. ASSUME NEW f \in by_graph PROVE f \in Reachable(files)
    <3>1. ASSUME NEW S \in SUBSET Frags, requested \cap files \subseteq S,
                 Follow => Closed(S, files)
          PROVE  f \in S
      BY <1>1, <2>1, <2>2, <3>1 DEF NothingExtra
    <3>2. QED
      BY <2>1, <2>2, <3>1 DEF Reachable
  <2>3. ASSUME NEW f \in Reachable(files) PROVE f \in by_graph
    <3>1. requested \cap files \subseteq by_graph /\ (Follow => Closed(by_graph, files))
      BY <1>1, <2>1 DEF NothingMissed
    <3>2. QED
      BY <2>1, <2>3, <3>1 DEF Reachable
  <2>4. QED
    BY <2>2, <2>3
<1>2. Safe => SelectsTheClosure
  BY <1>1 DEF SelectsTheClosure
<1> HIDE DEF Safe
<1>3. Spec => []Safe
  BY IInvAlways, SelectMissesNothing, SelectTakesNothingExtra, PTL DEF Safe
<1>4. QED
  BY <1>2, <1>3, PTL

-----------------------------------------------------------------------------
(***************************************************************************)
(* The measure that the walk brings down.                                  *)
(***************************************************************************)
LEMMA ShorterSequences ==
  ASSUME NEW T, NEW q \in Seq(T), q # <<>>
  PROVE  /\ Len(Tail(q)) \in Nat /\ Len(q) \in Nat /\ Len(Tail(q)) < Len(q)
         /\ Len(SubSeq(q, 1, Len(q) - 1)) < Len(q)
  OBVIOUS

\* The walk ends for any references, circles among them, and whatever other
\* processes do: each of its steps has one more path behind it (seen_paths), or
\* goes on with the fragment in hand, or has less left of it or of the stack.
\* No step of another process takes this back, and paths are finitely many.
THEOREM SelectGetsCloser == Spec => WalkGetsCloser
<1>1. ASSUME TypeInv, SelectStep PROVE Closer
  <2> USE DEF Closer, Stage
  <2>1. queue \in Seq(Frags) /\ refs \in Seq(Frags)
    BY <1>1 DEF TypeInv, TypeOK
  <2>2. CASE List
    BY <2>2 DEF List
  <2>3. CASE PopSeen
    <3>1. Len(queue') < Len(queue)
      BY <2>1, <2>3, ShorterSequences DEF PopSeen, Popped
    <3>2. QED
      BY <2>3, <3>1 DEF PopSeen
  <2>4. CASE PopMissing
    <3>1. Top \in seen_paths' /\ Top \notin seen_paths /\ seen_paths \subseteq seen_paths'
      BY <2>4 DEF PopMissing
    <3>2. QED
      BY <3>1
  <2>5. CASE PopFound
    <3>1. Top \in seen_paths' /\ Top \notin seen_paths /\ seen_paths \subseteq seen_paths'
      BY <2>5 DEF PopFound
    <3>2. QED
      BY <3>1
  <2>6. CASE Read
    BY <2>6 DEF Read
  <2>7. CASE ReadFails
    BY <2>7 DEF ReadFails, loopVars
  <2>8. CASE PushRef
    <3>1. Len(refs') < Len(refs)
      BY <2>1, <2>8, ShorterSequences DEF PushRef
    <3>2. QED
      BY <2>8, <3>1 DEF PushRef
  <2>9. CASE Insert
    BY <2>9 DEF Insert
  <2>10. CASE Return
    BY <2>10 DEF Return, loopVars
  <2>11. QED
    BY <1>1, <2>2, <2>3, <2>4, <2>5, <2>6, <2>7, <2>8, <2>9, <2>10 DEF SelectStep
<1>2. ASSUME NEW f \in Frags, Publish(f) \/ Unlink(f) PROVE UNCHANGED <<pc, loopVars>>
  BY <1>2 DEF Publish, Unlink
<1>3. TypeInv /\ [Next]_vars =>
        [IF SelectStep THEN Closer ELSE UNCHANGED <<pc, loopVars>>]_vars
  BY <1>1, <1>2 DEF Next
<1>4. QED
  BY <1>3, TypeInvInit, TypeInvStep, PTL DEF Spec, WalkGetsCloser
=============================================================================
