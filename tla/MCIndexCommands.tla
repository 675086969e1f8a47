--------------------------- MODULE MCIndexCommands ---------------------------
(* Two instances of IndexSync over the same fragments, one or the other in  *)
(* each behaviour.  In the first a timer loads, a user reasons, both        *)
(* collect, and the server runs beside them; of two derived fragments with  *)
(* their run fragments one is of a ruleset gc-derived keeps.  In the second *)
(* the user rebuilds, beside the server and a timer, an index of fragments  *)
(* that gc-derived collects; those of the first ruleset are never made.     *)
EXTENDS IndexSync, TLC

CONSTANTS kept, runKept, old, runOld, loader, reasoner, server

VARIABLE case

MCRunOf == kept :> runKept @@ old :> runOld

LoadAndReason ==
  loader :> {"load --new", "load --all", "load", "gc-derived"}
    @@ reasoner :> {"reason", "reason --no-load", "gc-derived"}
    @@ server :> {"serve"}

RebuildBesideServer ==
  loader :> {"load --new", "load"} @@ server :> {"serve"}
    @@ reasoner :> {"rebuild", "reason --no-load", "gc-derived"}

R == INSTANCE IndexSync WITH
       Derived <- {old}, RunOf <- old :> runOld, Kept <- {}, Named <- {old},
       Allowed <- RebuildBesideServer

CommandsInit == Init /\ case \in {"load", "rebuild"}

CommandsNext ==
  /\ \/ case = "load" /\ Next
     \/ case = "rebuild" /\ \E p \in Procs : R!Start(p) \/ R!Continue(p) \/ R!Crash(p)
  /\ UNCHANGED case

CommandsSpec == CommandsInit /\ [][CommandsNext]_<<vars, case>>
=============================================================================
