--------------------------- MODULE MCPublishFetch ---------------------------
(***************************************************************************)
(* The instance of PublishFetch that is model-checked: two sites, each may *)
(* publish a derivation, a run fragment that rule runs make anew and       *)
(* gc-derived removes, and a path outside the store.                       *)
(***************************************************************************)
EXTENDS PublishFetch, TLC

CONSTANTS drv, run, outside, bytes, otherBytes, s1, s2

TwoUrls == <<s1, s2>>
OneOrTwo == drv :> {bytes} @@ outside :> {bytes} @@ run :> {bytes, otherBytes}
=============================================================================
