---------------------------- MODULE SelectInputs ----------------------------
(***************************************************************************)
(* reason::select_inputs: from a selection (paths, root IRIs, snapshots,   *)
(* everything) to the graphs a rule run reads, following references from   *)
(* fragment to fragment with a stack and a set of seen paths.  The walk is *)
(* not a snapshot: each listing, existence test and read is a system call  *)
(* of its own, and extractors, fetch and gc-derived change the store in    *)
(* between.                                                                *)
(***************************************************************************)
EXTENDS Naturals, Sequences

CONSTANTS
  Frags,        (* fragments, one per path                                 *)
  Entities,     (* IRIs that are the object of a followed predicate        *)
  Objects,      (* Objects[f]: <<predicate, entity>> pairs in the text of f *)
  FragmentFor,  (* FragmentFor[e]: where an IRI is defined, or NoFrag      *)
  OutOf,        (* OutOf[f]: the out/ fragment of a drv/ fragment, else NoFrag *)
  Snapshots,    (* fragments under pin, gen, image, commit, nixpkgs, k8s   *)
  EmptyFrags,   (* fragments without a quad                                *)
  Sorted,       (* Sorted[S]: the paths S in the order they are pushed     *)
  Selections,   (* the selections of the instance                          *)
  InitialStores,(* the stores a run may start on                           *)
  Written,      (* fragments other processes may put in place meanwhile    *)
  Removable,    (* fragments gc-derived may remove meanwhile               *)
  NoFrag

ClosurePreds ==
  {"closureContains", "hasRoot", "snapshot", "inputSrc", "imageDerivation"}
K8sPreds == {"runsImage", "hostGeneration"}

Selection == [paths : SUBSET Frags, roots : SUBSET Entities,
              closure : BOOLEAN, all_snapshots : BOOLEAN, everything : BOOLEAN]

ElemsOf(q) == {q[k] : k \in DOMAIN q}

ASSUME FragmentAssumption ==
  /\ NoFrag \notin Frags
  /\ Objects \in [Frags -> SUBSET ((ClosurePreds \cup K8sPreds) \X Entities)]
  /\ FragmentFor \in [Entities -> Frags \cup {NoFrag}]
  /\ OutOf \in [Frags -> Frags \cup {NoFrag}]
  /\ Snapshots \subseteq Frags
ASSUME SortedAssumption ==
  \A S \in SUBSET Frags : Sorted[S] \in Seq(Frags) /\ ElemsOf(Sorted[S]) = S
ASSUME SelectionAssumption ==
  /\ Selections \subseteq Selection
  /\ InitialStores \subseteq SUBSET Frags
  /\ Written \subseteq Frags /\ Removable \subseteq Frags

VARIABLES
  files,        (* the fragments in the store                              *)
  always,       (* history: in the store from the first step on            *)
  ever,         (* history: in the store at some time since                *)
  pc,           (* where select_inputs stands                              *)
  sel,          (* the selection                                           *)
  requested,    (* history: what was pushed before the loop                *)
  queue,        (* the stack of paths                                      *)
  seen_paths,   (* paths popped before                                     *)
  current,      (* the fragment between its pop and its insertion          *)
  refs,         (* references of current still to be looked up             *)
  by_graph      (* the graphs selected                                     *)

vars == <<files, always, ever, pc, sel, requested, queue, seen_paths, current,
          refs, by_graph>>
storeVars == <<files, always, ever>>
loopVars == <<queue, seen_paths, current, refs, by_graph>>

\* The fragments the text of f leads to: every IRI that maps to a fragment,
\* and for the five closure predicates the outputs of a derivation as well.
\* The order of the pushes is one of Sorted's; a repeated push is left out.
RefsOf(f) ==
  LET target(o) == FragmentFor[o[2]]
      mapped == {o \in Objects[f] : target(o) # NoFrag}
  IN {target(o) : o \in mapped}
     \cup {OutOf[target(o)] : o \in {x \in mapped : x[1] \in ClosurePreds /\ OutOf[target(x)] # NoFrag}}

Follow == sel.closure /\ ~sel.everything

Init ==
  /\ files \in InitialStores
  /\ always = files /\ ever = files
  /\ pc = "list"
  /\ sel \in Selections
  /\ requested = {}
  /\ queue = <<>> /\ seen_paths = {} /\ current = NoFrag /\ refs = <<>>
  /\ by_graph = {}

-----------------------------------------------------------------------------
\* The directory walk under a part of the store: what was there all along is
\* found, what came or went meanwhile may be.
Listing(part) == {S \in SUBSET part : always \cap part \subseteq S /\ S \subseteq ever}

\* Mutant of List: a root that maps to no fragment is pushed as well.
ListUnmapped ==
  /\ pc = "list"
  /\ \E found \in Listing(IF sel.everything THEN Frags
                          ELSE IF sel.all_snapshots THEN Snapshots ELSE {}) :
       LET pushed == IF sel.everything THEN Sorted[found]
                     ELSE Sorted[sel.paths] \o Sorted[found]
                            \o Sorted[{FragmentFor[e] : e \in sel.roots}]
       IN /\ queue' = pushed
          /\ requested' = ElemsOf(pushed) \ {NoFrag}
  /\ pc' = "pop"
  /\ UNCHANGED <<storeVars, sel, seen_paths, current, refs, by_graph>>

\* The pushes before the loop.  A root whose IRI maps to no fragment is skipped.
List ==
  /\ pc = "list"
  /\ \E found \in Listing(IF sel.everything THEN Frags
                          ELSE IF sel.all_snapshots THEN Snapshots ELSE {}) :
       LET roots == {FragmentFor[e] : e \in sel.roots} \ {NoFrag}
           pushed == IF sel.everything THEN Sorted[found]
                     ELSE Sorted[sel.paths] \o Sorted[found] \o Sorted[roots]
       IN /\ queue' = pushed
          /\ requested' = ElemsOf(pushed)
  /\ pc' = "pop"
  /\ UNCHANGED <<storeVars, sel, seen_paths, current, refs, by_graph>>

Top == queue[Len(queue)]
Popped == SubSeq(queue, 1, Len(queue) - 1)

\* seen_paths.insert returned false: on to the next path.
PopSeen ==
  /\ pc = "pop" /\ queue # <<>> /\ Top \in seen_paths
  /\ queue' = Popped
  /\ UNCHANGED <<storeVars, pc, sel, requested, seen_paths, current, refs, by_graph>>

\* "fragment not found; skipped": the path counts as seen all the same.
PopMissing ==
  /\ pc = "pop" /\ queue # <<>> /\ Top \notin seen_paths /\ Top \notin files
  /\ queue' = Popped
  /\ seen_paths' = seen_paths \cup {Top}
  /\ UNCHANGED <<storeVars, pc, sel, requested, current, refs, by_graph>>

\* Mutant of PopFound: read_input is called without the test abs.exists().
PopUnchecked ==
  /\ pc = "pop" /\ queue # <<>> /\ Top \notin seen_paths
  /\ queue' = Popped
  /\ seen_paths' = seen_paths \cup {Top}
  /\ current' = Top
  /\ pc' = "read"
  /\ UNCHANGED <<storeVars, sel, requested, refs, by_graph>>

\* Mutant of PopFound: a path counts as seen only when nothing is there.
PopUnmarked ==
  /\ pc = "pop" /\ queue # <<>> /\ Top \notin seen_paths /\ Top \in files
  /\ queue' = Popped
  /\ current' = Top
  /\ pc' = "read"
  /\ UNCHANGED <<storeVars, sel, requested, seen_paths, refs, by_graph>>

PopFound ==
  /\ pc = "pop" /\ queue # <<>> /\ Top \notin seen_paths /\ Top \in files
  /\ queue' = Popped
  /\ seen_paths' = seen_paths \cup {Top}
  /\ current' = Top
  /\ pc' = "read"
  /\ UNCHANGED <<storeVars, sel, requested, refs, by_graph>>

\* Mutant of Read: references are followed whatever was asked for.
ReadAndFollow ==
  /\ pc = "read" /\ current \in files \ EmptyFrags
  /\ refs' = Sorted[RefsOf(current)]
  /\ pc' = "scan"
  /\ UNCHANGED <<storeVars, sel, requested, queue, seen_paths, current, by_graph>>

\* read_input decodes the file; its references wait to be looked up.
Read ==
  /\ pc = "read" /\ current \in files \ EmptyFrags
  /\ refs' = IF Follow THEN Sorted[RefsOf(current)] ELSE <<>>
  /\ pc' = "scan"
  /\ UNCHANGED <<storeVars, sel, requested, queue, seen_paths, current, by_graph>>

\* The file went away after the test, or has no first line to take the graph
\* IRI from: the error ends the selection.
ReadFails ==
  /\ pc = "read" /\ current \notin files \ EmptyFrags
  /\ pc' = "failed"
  /\ UNCHANGED <<storeVars, sel, requested, loopVars>>

\* Mutant of PushRef: the path counts as seen when it is pushed.
PushAndMark ==
  /\ pc = "scan" /\ refs # <<>>
  /\ queue' = IF Head(refs) \in files \ seen_paths THEN Append(queue, Head(refs)) ELSE queue
  /\ seen_paths' = seen_paths \cup ({Head(refs)} \cap files)
  /\ refs' = Tail(refs)
  /\ UNCHANGED <<storeVars, pc, sel, requested, current, by_graph>>

\* path.exists() && !seen_paths.contains(&path)
PushRef ==
  /\ pc = "scan" /\ refs # <<>>
  /\ queue' = IF Head(refs) \in files \ seen_paths THEN Append(queue, Head(refs)) ELSE queue
  /\ refs' = Tail(refs)
  /\ UNCHANGED <<storeVars, pc, sel, requested, seen_paths, current, by_graph>>

\* by_graph.insert: the fragment is part of the result.
Insert ==
  /\ pc = "scan" /\ refs = <<>>
  /\ by_graph' = by_graph \cup {current}
  /\ current' = NoFrag
  /\ pc' = "pop"
  /\ UNCHANGED <<storeVars, sel, requested, queue, seen_paths, refs>>

\* Mutant of Return: the loop ends with one path on the stack.
ReturnEarly ==
  /\ pc = "pop" /\ Len(queue) <= 1
  /\ pc' = "done"
  /\ UNCHANGED <<storeVars, sel, requested, loopVars>>

Return ==
  /\ pc = "pop" /\ queue = <<>>
  /\ pc' = "done"
  /\ UNCHANGED <<storeVars, sel, requested, loopVars>>

SelectStep ==
  List \/ PopSeen \/ PopMissing \/ PopFound \/ Read \/ ReadFails \/ PushRef
    \/ Insert \/ Return

\* Other processes, while the selection runs.
Running == pc \notin {"done", "failed"}

Publish(f) ==
  /\ Running /\ f \in Written \ files
  /\ files' = files \cup {f}
  /\ ever' = ever \cup {f}
  /\ UNCHANGED <<always, pc, sel, requested, loopVars>>

Unlink(f) ==
  /\ Running /\ f \in Removable \cap files
  /\ files' = files \ {f}
  /\ always' = always \ {f}
  /\ UNCHANGED <<ever, pc, sel, requested, loopVars>>

Next == SelectStep \/ \E f \in Frags : Publish(f) \/ Unlink(f)

Spec == Init /\ [][Next]_vars

\* The process runs on whatever the others do.
FairSpec == Spec /\ WF_vars(SelectStep)

-----------------------------------------------------------------------------
(***************************************************************************)
(* Properties.                                                             *)
(***************************************************************************)
TypeOK ==
  /\ files \in SUBSET Frags /\ always \in SUBSET Frags /\ ever \in SUBSET Frags
  /\ pc \in {"list", "pop", "read", "scan", "done", "failed"}
  /\ sel \in Selection
  /\ requested \in SUBSET Frags
  /\ queue \in Seq(Frags)
  /\ seen_paths \in SUBSET Frags
  /\ current \in Frags \cup {NoFrag}
  /\ refs \in Seq(Frags)
  /\ by_graph \in SUBSET Frags

\* S closed under the references to what was in the store at some time.
Closed(S, store) == \A f \in S : RefsOf(f) \cap store \subseteq S

\* A rule run misses nothing that was there all along: every such fragment
\* asked for, and, when references are followed, every such fragment that a
\* selected one refers to, whatever was written or removed meanwhile.
NothingMissed ==
  pc = "done" =>
    /\ requested \cap always \subseteq by_graph
    /\ Follow => Closed(by_graph, always)

\* ... and reads nothing it was not led to: the selection lies in every set
\* that holds the fragments asked for and is closed under references (the
\* requested ones alone when references are not followed).
NothingExtra ==
  /\ by_graph \subseteq ever
  /\ \A S \in SUBSET Frags :
       requested \cap ever \subseteq S /\ (Follow => Closed(S, ever)) => by_graph \subseteq S

\* When nothing changes meanwhile, the selection is the closure of what was
\* asked for, whatever the order of the pushes: the input hash of a rule run
\* is a function of the store and the selection.
Reachable(store) ==
  {f \in store : \A S \in SUBSET Frags :
     requested \cap store \subseteq S /\ (Follow => Closed(S, store)) => f \in S}
SelectsTheClosure ==
  pc = "done" /\ always = ever => by_graph = Reachable(files)

\* The selection fails only on an empty fragment or on one that was there
\* when it was found and is removed by another process before it is read.
FailsOnlyForCause ==
  pc = "failed" => current \in ever /\ (current \in EmptyFrags \/ current \notin always)

\* The walk ends, whatever others write, also where references come back to a
\* fragment it has been to (select_inputs, seen_paths).
Terminates == <>(pc \in {"done", "failed"})

\* Why it ends, for any references: each of its steps has one path more behind
\* it, or else goes on to a later stage of the fragment in hand, or else leaves
\* fewer references to look up or fewer paths on the stack; and what other
\* processes do takes nothing of this back.
Stage ==
  [list |-> 4, read |-> 3, scan |-> 2, pop |-> 1, done |-> 0, failed |-> 0][pc]
Closer ==
  /\ seen_paths \subseteq seen_paths'
  /\ seen_paths' = seen_paths =>
       \/ Stage' < Stage
       \/ Stage' = Stage /\ Len(refs') < Len(refs)
       \/ Stage' = Stage /\ refs' = refs /\ Len(queue') < Len(queue)
WalkGetsCloser == [][IF SelectStep THEN Closer ELSE UNCHANGED <<pc, loopVars>>]_vars
=============================================================================
