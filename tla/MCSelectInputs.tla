--------------------------- MODULE MCSelectInputs ---------------------------
(* A cluster snapshot that runs a NixOS generation and an image, both built *)
(* from one derivation, which has outputs and a source; a derived graph     *)
(* that gc-derived may remove, and one without a quad.  The text of the     *)
(* source comes from another store (fetch compares a hash and looks no      *)
(* further) and names the derivation that reads it: references lead in a    *)
(* circle, which those of the extractors themselves never do.               *)
EXTENDS SelectInputs, TLC

CONSTANTS k8s, gen, image, drv, out, src, derived, derived0

MCEntities == {"gen", "image", "drv", "src", "unmapped"}
MCObjects ==
  [f \in Frags |->
     CASE f = k8s -> {<<"hostGeneration", "gen">>, <<"runsImage", "image">>}
       [] f = gen -> {<<"hasRoot", "drv">>, <<"closureContains", "drv">>}
       [] f = image -> {<<"imageDerivation", "drv">>, <<"hasRoot", "drv">>}
       [] f = drv -> {<<"inputSrc", "src">>}
       [] f = src -> {<<"hasRoot", "drv">>}
       [] OTHER -> {}]
MCFragmentFor ==
  [e \in Entities |-> CASE e = "gen" -> gen [] e = "image" -> image
                        [] e = "drv" -> drv [] e = "src" -> src [] OTHER -> NoFrag]
MCOutOf == [f \in Frags |-> IF f = drv THEN out ELSE NoFrag]
PathOrder == <<NoFrag, derived, derived0, drv, gen, image, k8s, out, src>>
MCSorted ==
  [S \in SUBSET (Frags \cup {NoFrag}) |-> SelectSeq(PathOrder, LAMBDA f : f \in S)]

From(paths, roots, closure, snapshots, all) ==
  [paths |-> paths, roots |-> roots, closure |-> closure,
   all_snapshots |-> snapshots, everything |-> all]
MCSelections ==
  {From({derived0}, {"gen", "unmapped"}, TRUE, FALSE, FALSE),
   From({derived}, {}, TRUE, TRUE, FALSE),
   From({k8s}, {}, FALSE, TRUE, FALSE),
   From({}, {}, TRUE, FALSE, TRUE)}
MCInitialStores == {S \in SUBSET Frags : k8s \in S}
=============================================================================
