------------------------- MODULE MCFragmentStoreLive -------------------------
(* An instance of FragmentStore under fairness: two extractions that meet   *)
(* in one fragment, and so share a temporary name, one of which fetches it  *)
(* too; gc-derived collects it.  Nobody reads: readers change nothing here.   *)
EXTENDS FragmentStore, TLC

CONSTANTS w1, w2, frag, triples

MeetingJob ==
  (w1 :> {<<"write", frag>>}) @@ (w2 :> {<<"write", frag>>, <<"fetch", frag>>})
OneContent == [i \in Ids |-> {triples}]

\* Nobody fills or renames a temporary file that is not his own or no longer
\* under its name.  A process that dies at any other moment may leave a torn
\* file published for good, which store_partial_read shows the way to; and a
\* collection at every such moment may undo every writer's rename.
Apart ==
  \A p \in Procs : fd[p] # NoInode =>
    /\ tmp[Target(p)] = fd[p]
    /\ \A q \in Procs \ {p} : fd[q] # fd[p]

FaultsWhenApart == Apart /\ \E p \in Procs : FillFails(p) \/ Crash(p)
CollectsWhenApart == Apart /\ \E i \in Ids : Unlink(i)

LiveNext ==
  \/ \E p \in Procs : Run(p)
  \/ FaultsWhenApart
  \/ CollectsWhenApart

\* The fairness of FairSpec.
LiveSpec == Init /\ [][LiveNext]_vars /\ \A p \in Procs : WF_vars(Run(p))
=============================================================================
