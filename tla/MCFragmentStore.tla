-------------------------- MODULE MCFragmentStore --------------------------
(* Instances of FragmentStore over a derived fragment (immutable,           *)
(* collectable), a run fragment (overwritten, collectable) and a derivation *)
(* (immutable, never collected).                                            *)
EXTENDS FragmentStore, TLC

CONSTANTS w1, w2, derived, run, drv, triples, ranAt1, ranAt2, recipe

MCContentsOf ==
  [i \in Ids |-> CASE i = derived -> {triples}
                   [] i = run     -> {ranAt1, ranAt2}
                   [] i = drv     -> {recipe}]

\* One process extracts and reasons, another fetches a published set that
\* holds the same fragments: no temporary name is shared.
ExclusiveJob ==
  (w1 :> {<<"write", drv>>, <<"overwrite", run>>})
  @@ (w2 :> {<<"fetch", drv>>, <<"fetch", run>>})

\* Two extractions that meet in one derivation.
OverlappingJob == (w1 :> {<<"write", drv>>}) @@ (w2 :> {<<"write", drv>>})

InodeSymmetry == Permutations(Inodes)
=============================================================================
