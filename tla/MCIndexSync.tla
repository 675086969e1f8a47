---------------------------- MODULE MCIndexSync ----------------------------
(* Instances of IndexSync with one process: an extracted fragment, and a    *)
(* derived one with its run fragment, of a ruleset gc-derived collects.     *)
EXTENDS IndexSync, TLC

CONSTANTS drv, old, runOld, reasoner

MCRunOf == [d \in Derived |-> runOld]

\* One command line, one command after the other.
ReasonAndCollect == reasoner :> {"reason", "reason --no-load", "gc-derived", "load --new"}
RebuildAndLoad == reasoner :> {"rebuild", "load --new"}
=============================================================================
