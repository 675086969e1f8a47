------------------------------- MODULE Packs -------------------------------
(* Rule packs (packs.rs): how a selection of packs becomes the list whose  *)
(* rules are run.  discover reads the pack directories in order and keeps  *)
(* the first pack of a name; resolve walks the dependencies depth first,   *)
(* in the order of the names; collect_prefixes and build_program give each *)
(* prefix one IRI.  The call stack of resolve's visit is the variable      *)
(* stack.  A pack is its name, the names it depends on and the @prefix     *)
(* lines of its rule files; the text of the rules is left out.             *)
EXTENDS Naturals, Sequences, FiniteSetsExt, SequencesExt

CONSTANTS
  Dirs,        \* the lists of pack directories discover may be given
  Selections,  \* the sets of pack names a command may select
  Standard,    \* iri::PREFIXES, as <<prefix, IRI>>
  NoPack,      \* a directory without a pack.toml of its own
  BadLine      \* an @prefix line without a colon

\* A directory is [self |-> the pack it is or NoPack, subs |-> the packs
\* among its entries, by path].  Names are numbers, for their order.

VARIABLES
  selected,  \* the names the command selects
  all,       \* the packs discovered: name -> pack
  stack,     \* frames of visit, the outermost the loop over the selection
  done,      \* names whose visit has returned
  visiting,  \* names whose visit is open
  order,     \* packs in load order
  lines,     \* the @prefix lines still to collect, in load order
  prefixes,  \* the <<prefix, IRI>> collected
  outcome    \* what the command has come to

vars == <<selected, all, stack, done, visiting, order, lines, prefixes, outcome>>

-----------------------------------------------------------------------------
Found(dir) == IF dir.self # NoPack THEN <<dir.self>> ELSE dir.subs

\* The first pack of each name, over the directories in order.
Discover(dirs) ==
  LET found == FlattenSeq([i \in DOMAIN dirs |-> Found(dirs[i])])
      At(n) == {i \in DOMAIN found : found[i].name = n}
  IN [n \in {found[i].name : i \in DOMAIN found} |-> found[Min(At(n))]]

\* A visit of name, with the dependencies it has not returned from.
Frame(name, deps) == [name |-> name, deps |-> deps]
Top == stack[Len(stack)]
Caller == SubSeq(stack, 1, Len(stack) - 1)

\* The visit that is made next: the least name the top frame has left.
Visits(n) ==
  /\ outcome = "resolve"
  /\ n \in Top.deps
  /\ \A d \in Top.deps : n <= d

TopWithout(n) == [stack EXCEPT ![Len(stack)].deps = @ \ {n}]

-----------------------------------------------------------------------------
Init ==
  /\ \E dirs \in Dirs : all = Discover(dirs)
  /\ selected \in Selections
  /\ stack = <<Frame(0, selected)>>
  /\ done = {} /\ visiting = {} /\ order = <<>>
  /\ lines = <<>> /\ prefixes = {} /\ outcome = "resolve"

VisitDone(n) ==
  /\ Visits(n)
  /\ n \in done
  /\ stack' = TopWithout(n)
  /\ UNCHANGED <<selected, all, done, visiting, order, lines, prefixes, outcome>>

\* Mutant of Cycle: an open visit is taken for one that has returned.
CycleSkipped(n) ==
  /\ Visits(n)
  /\ n \notin done /\ n \in visiting
  /\ stack' = TopWithout(n)
  /\ UNCHANGED <<selected, all, done, visiting, order, lines, prefixes, outcome>>

Cycle(n) ==
  /\ Visits(n)
  /\ n \notin done /\ n \in visiting
  /\ outcome' = "cycle"
  /\ UNCHANGED <<selected, all, stack, done, visiting, order, lines, prefixes>>

\* Mutant of Unknown: a name without a pack is passed over.
UnknownSkipped(n) ==
  /\ Visits(n)
  /\ n \notin done \cup visiting \cup DOMAIN all
  /\ stack' = TopWithout(n)
  /\ UNCHANGED <<selected, all, done, visiting, order, lines, prefixes, outcome>>

Unknown(n) ==
  /\ Visits(n)
  /\ n \notin done \cup visiting \cup DOMAIN all
  /\ visiting' = visiting \cup {n}
  /\ outcome' = "unknown"
  /\ UNCHANGED <<selected, all, stack, done, order, lines, prefixes>>

Enter(n) ==
  /\ Visits(n)
  /\ n \notin done \cup visiting /\ n \in DOMAIN all
  /\ visiting' = visiting \cup {n}
  /\ stack' = Append(stack, Frame(n, all[n].deps))
  /\ UNCHANGED <<selected, all, done, order, lines, prefixes, outcome>>

\* The end of visit, and its return into the loop of its caller.
Leave ==
  /\ outcome = "resolve"
  /\ Top.deps = {} /\ Len(stack) > 1
  /\ visiting' = visiting \ {Top.name}
  /\ done' = done \cup {Top.name}
  /\ order' = Append(order, Top.name)
  /\ stack' = [Caller EXCEPT ![Len(Caller)].deps = @ \ {Top.name}]
  /\ UNCHANGED <<selected, all, lines, prefixes, outcome>>

Resolved ==
  /\ outcome = "resolve"
  /\ Top.deps = {} /\ Len(stack) = 1
  /\ outcome' = "collect"
  /\ lines' = FlattenSeq([i \in DOMAIN order |-> all[order[i]].prefixes])
  /\ UNCHANGED <<selected, all, stack, done, visiting, order, prefixes>>

\* One @prefix line: it must parse, and agree with the lines before it.
Bound(l) == \E b \in prefixes : b[1] = l[1] /\ b[2] # l[2]

Collect ==
  /\ outcome = "collect" /\ lines # <<>>
  /\ Head(lines) # BadLine /\ ~ Bound(Head(lines))
  /\ prefixes' = prefixes \cup {Head(lines)}
  /\ lines' = Tail(lines)
  /\ UNCHANGED <<selected, all, stack, done, visiting, order, outcome>>

CollectFails ==
  /\ outcome = "collect" /\ lines # <<>>
  /\ \/ Head(lines) = BadLine /\ outcome' = "malformed"
     \/ Head(lines) # BadLine /\ Bound(Head(lines)) /\ outcome' = "conflict"
  /\ UNCHANGED <<selected, all, stack, done, visiting, order, lines, prefixes>>

\* build_program: a standard prefix no pack binds is added.
Build ==
  /\ outcome = "collect" /\ lines = <<>>
  /\ prefixes' = prefixes \cup {s \in Standard : \A b \in prefixes : b[1] # s[1]}
  /\ outcome' = "program"
  /\ UNCHANGED <<selected, all, stack, done, visiting, order, lines>>

Visit == \E n \in Top.deps : VisitDone(n) \/ Cycle(n) \/ Unknown(n) \/ Enter(n)

Next == Visit \/ Leave \/ Resolved \/ Collect \/ CollectFails \/ Build

Spec == Init /\ [][Next]_vars

Finished == outcome \notin {"resolve", "collect"}

-----------------------------------------------------------------------------
Outcomes ==
  {"resolve", "cycle", "unknown", "collect", "malformed", "conflict", "program"}

\* Every name is of a known pack where a pack is meant.
TypeOK ==
  /\ outcome \in Outcomes
  /\ Range(order) \subseteq DOMAIN all
  /\ done = Range(order)
  /\ done \cap visiting = {}
  /\ \A i \in 2 .. Len(stack) : stack[i].name \in visiting \cap DOMAIN all

\* A pack is loaded once, and after every pack it depends on, whatever the
\* selection (resolve: "dependencies first").
LoadOrder ==
  \A i \in DOMAIN order :
    /\ \A j \in DOMAIN order : order[i] = order[j] => i = j
    /\ \A d \in all[order[i]].deps : \E j \in 1 .. i - 1 : order[j] = d

\* What the selection needs, known or not: the least set that holds it and
\* the dependencies of its packs.
Needs(n) == IF n \in DOMAIN all THEN all[n].deps ELSE {}
Universe == selected \cup UNION {{n} \cup Needs(n) : n \in DOMAIN all}
ClosedOver(S) == selected \subseteq S /\ \A n \in S : Needs(n) \subseteq S
Needed == {n \in Universe : \A S \in SUBSET Universe : ClosedOver(S) => n \in S}

Circular(S) == \E C \in (SUBSET S) \ {{}} : \A n \in C : Needs(n) \cap C # {}

\* A resolution that returns has loaded what the selection needs and nothing
\* else; one that fails had a cycle or an unknown name among it to report.
LoadsTheClosure ==
  CASE outcome = "resolve" -> Range(order) \subseteq Needed
    [] outcome = "cycle"   -> Circular(Needed)
    [] outcome = "unknown" -> ~ Needed \subseteq DOMAIN all
    [] OTHER               -> Range(order) = Needed

=============================================================================
