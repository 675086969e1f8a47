----------------------------- MODULE MCService -----------------------------
(* Instances of Service: a pin, which --all-snapshots selects, a drv        *)
(* fragment, which it does not, and a derived fragment with its run         *)
(* fragment.                                                                *)
EXTENDS Service, TLC

CONSTANTS drv, pin, derived, run

MCRunOf == derived :> run

MCAllowed ==
  (server :> {"load --new", "serve"}) @@ (timer :> {"reason"})
  @@ (user :> {"reason", "reason --no-load"})
=============================================================================
