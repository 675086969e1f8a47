----------------------------- MODULE LockGraph -----------------------------
(* The lock graph of a flake (flake.rs, lock_graph and resolve_follows):   *)
(* which pins, inputs and follows edges are made of a flake.lock.  A lock  *)
(* is [root, nodes], a node [nar, inputs], and an input leads to a node,   *)
(* [node |-> id], or follows a path of input names from the root,          *)
(* [path |-> names].  What a pin says of itself is left out.               *)
EXTENDS Naturals, Sequences, FiniteSets

CONSTANTS
  Locks,  \* the locks read
  Missing \* no NAR hash; no node

VARIABLES
  lock,   \* the flake.lock
  left,   \* nodes lock_graph has still to describe
  extra,  \* pins of the fragments made beside the root's
  locks,  \* locksInput: <<pin, input>>; an input is <<node, name>>
  pinned, \* pinnedTo: <<input, pin>>
  follows \* follows: <<input, input>>

lockVars == <<lock, left, extra, locks, pinned, follows>>

-----------------------------------------------------------------------------
Inputs(l, id) == l.nodes[id].inputs
IsFollows(target) == "path" \in DOMAIN target

\* pin_of: the root and the nodes with a NAR hash.
HasPin(l, id) == id = l.root \/ l.nodes[id].nar # Missing
PinOf(l, id) == IF id = l.root THEN "root pin" ELSE l.nodes[id].nar

\* All of a path but its last name, and that name.
Before(path) == SubSeq(path, 1, Len(path) - 1)
Final(path) == path[Len(path)]

\* The follows paths of a lock, and all that they begin with.
Followed(l) ==
  UNION {{Inputs(l, id)[n].path :
            n \in {m \in DOMAIN Inputs(l, id) : IsFollows(Inputs(l, id)[m])}} :
              id \in DOMAIN l.nodes}
Leading(l) ==
  {<<>>} \cup UNION {{SubSeq(path, 1, k) : k \in 0 .. Len(path)} : path \in Followed(l)}

\* cur, in resolve_follows, after the names of a path, when W has it for the
\* paths it depends on.  An input that follows is resolved in turn, and what it
\* names must be a node.
CursorStep(l, W, path) ==
  LET Target(cur, name) ==
        IF cur = Missing \/ name \notin DOMAIN Inputs(l, cur) THEN Missing
        ELSE Inputs(l, cur)[name]
      target == Target(W[Before(path)], Final(path))
      named == Target(W[Before(target.path)], Final(target.path))
  IN IF path = <<>> THEN l.root
     ELSE IF target = Missing THEN Missing
     ELSE IF ~ IsFollows(target) THEN target.node
     ELSE IF target.path = <<>> \/ named = Missing \/ IsFollows(named) THEN Missing
     ELSE named.node
Cursor(l) == LET W[path \in Leading(l)] == CursorStep(l, W, path) IN W

\* Mutant of resolve_follows: the last name is looked up in the root.
resolve_at_root(l, path) ==
  {<<l.root, n>> :
     n \in IF path = <<>> THEN {} ELSE {Final(path)} \cap DOMAIN Inputs(l, l.root)}

\* The input a follows path names, as <<node, name>>, or none.
resolve_follows(l, path) ==
  {<<cur, Final(path)>> :
     cur \in IF path = <<>> THEN {} ELSE {Cursor(l)[Before(path)]} \ {Missing}}

-----------------------------------------------------------------------------
LockInit ==
  /\ lock \in Locks
  /\ left = DOMAIN lock.nodes
  /\ extra = {} /\ locks = {} /\ pinned = {} /\ follows = {}

\* A node with a pin, and its inputs.  A follows path that does not resolve is
\* only warned of.
Describe(id) ==
  /\ id \in left /\ HasPin(lock, id)
  /\ left' = left \ {id}
  /\ extra' = extra \cup {PinOf(lock, id) : x \in {id} \ {lock.root}}
  /\ locks' = locks \cup {<<PinOf(lock, id), <<id, n>>>> : n \in DOMAIN Inputs(lock, id)}
  /\ LET Target(n) == Inputs(lock, id)[n]
         Following == {n \in DOMAIN Inputs(lock, id) : IsFollows(Target(n))}
         ToNodes == DOMAIN Inputs(lock, id) \ Following
     IN /\ pinned' = pinned \cup
             {<<<<id, n>>, PinOf(lock, Target(n).node)>> :
                n \in {m \in ToNodes : HasPin(lock, Target(m).node)}}
        /\ follows' = follows \cup
             UNION {{<<id, n>>} \X resolve_follows(lock, Target(n).path) : n \in Following}
  /\ UNCHANGED lock

\* A node without a pin: its inputs are passed over.
PassOver(id) ==
  /\ id \in left /\ ~ HasPin(lock, id)
  /\ left' = left \ {id}
  /\ UNCHANGED <<lock, extra, locks, pinned, follows>>

LockNext == \E id \in left : Describe(id) \/ PassOver(id)

LockSpec == LockInit /\ [][LockNext]_lockVars

LockDescribed == left = {}

-----------------------------------------------------------------------------
\* What Nix makes of a path (LockFile::findInput): it is gone through from the
\* root, and every input that follows is replaced by what it follows.
FindStep(l, F, path) ==
  LET cur == F[Before(path)]
      target == Inputs(l, cur)[Final(path)]
  IN IF path = <<>> THEN l.root
     ELSE IF cur = Missing \/ Final(path) \notin DOMAIN Inputs(l, cur) THEN Missing
     ELSE IF IsFollows(target) THEN F[target.path]
     ELSE target.node
Find(l) == LET F[path \in Leading(l)] == FindStep(l, F, path) IN F

\* The input that a path names, and the node that an input means.
Named(l, F, path) == Inputs(l, F[Before(path)])[Final(path)]
Meant(l, id, n) ==
  LET target == Inputs(l, id)[n]
  IN IF IsFollows(target) THEN Find(l)[target.path] ELSE target.node

\* The paths that have to be gone through before a path is.
GoesThrough(l, F, path) ==
  IF path = <<>> THEN {}
  ELSE {Before(path)} \cup
         {t.path : t \in {u \in {Named(l, F, path)} : IsFollows(u)}}

\* A lock that Nix has made or accepted: its inputs are nodes of it, or follow
\* paths that lead to one, and no path leads through itself.
ASSUME LockAssumption ==
  \A l \in Locks :
    /\ l.root \in DOMAIN l.nodes /\ Missing \notin DOMAIN l.nodes
    /\ \A id \in DOMAIN l.nodes : \A n \in DOMAIN Inputs(l, id) :
         LET target == Inputs(l, id)[n]
         IN /\ target # Missing
            /\ IF IsFollows(target) THEN target.path \in Seq(STRING)
               ELSE target.node \in DOMAIN l.nodes
    /\ \E F \in [Leading(l) -> DOMAIN l.nodes] :
         /\ \A path \in Leading(l) :
              /\ path # <<>> => Final(path) \in DOMAIN Inputs(l, F[Before(path)])
              /\ F[path] = FindStep(l, F, path)
         /\ \A S \in SUBSET Leading(l) :
              S # {} => \E path \in S : GoesThrough(l, F, path) \cap S = {}

\* The pin that the edges lead an input to: along follows, then pinnedTo.
Along(input) ==
  LET Ends == {input} \cup {e[2] : e \in follows}
  IN {end \in Ends :
        \A S \in SUBSET Ends :
          input \in S /\ (\A e \in follows : e[1] \in S => e[2] \in S) => end \in S}
Leads(input) == {e[2] : e \in {x \in pinned : x[1] \in Along(input)}}

Described == {x[2] : x \in locks}

\* A path none of whose inputs follows one that follows, or the root itself:
\* the others resolve_follows gives up, and Nix does not.
Shallow(l, path) ==
  /\ path # <<>>
  /\ \A k \in 1 .. Len(path) - 1 :
       LET hop == Named(l, Find(l), SubSeq(path, 1, k))
       IN IsFollows(hop) =>
            hop.path # <<>> /\ ~ IsFollows(Named(l, Find(l), hop.path))

\* No input leads to a pin other than the one Nix fetches for it, however the
\* follows paths of the lock lead through each other; and in a lock of such
\* paths, without nodes that have no pin, every input leads to its pin.
LeadsToItsPin ==
  /\ \A input \in Described :
       Leads(input) \subseteq {PinOf(lock, Meant(lock, input[1], input[2]))}
  /\ left = {} /\ (\A id \in DOMAIN lock.nodes : HasPin(lock, id))
     /\ (\A path \in Followed(lock) : Shallow(lock, path)) =>
       \A input \in Described : Leads(input) # {}
=============================================================================
