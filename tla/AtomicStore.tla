---------------------------- MODULE AtomicStore ----------------------------
(***************************************************************************)
(* What the fragment store promises the commands that read it, with no     *)
(* temporary files and no system calls: a fragment is either absent or     *)
(* holds one complete content of its identity, a fragment of an immutable  *)
(* kind never changes content while it is present, and a read returns what *)
(* was published at one instant.  FragmentStore implements this module.    *)
(***************************************************************************)
CONSTANTS
  Ids,          (* fragment identities, one per relative path              *)
  Readers,      (* commands that read fragments                            *)
  ContentsOf,   (* ContentsOf[i]: the contents a writer may give i         *)
  Mutable,      (* identities of the kinds written with Store::overwrite   *)
  Collectable,  (* identities gc-derived may remove                        *)
  Absent,       (* no fragment                                             *)
  NoRead        (* nothing read yet                                        *)

VARIABLES
  published,    (* published[i]: the content readers find, or Absent       *)
  seen          (* seen[r]: <<identity, content>> of the latest read of r  *)

vars == <<published, seen>>

Init ==
  /\ published = [i \in Ids |-> Absent]
  /\ seen = [r \in Readers |-> NoRead]

Publish(i, c) ==
  /\ c \in ContentsOf[i]
  /\ published[i] = Absent \/ i \in Mutable
  /\ published' = [published EXCEPT ![i] = c]
  /\ UNCHANGED seen

Remove(i) ==
  /\ i \in Collectable
  /\ published' = [published EXCEPT ![i] = Absent]
  /\ UNCHANGED seen

Read(r, i) ==
  /\ published[i] # Absent
  /\ seen' = [seen EXCEPT ![r] = <<i, published[i]>>]
  /\ UNCHANGED published

Next ==
  \/ \E i \in Ids : Remove(i) \/ (\E c \in ContentsOf[i] : Publish(i, c))
  \/ \E r \in Readers, i \in Ids : Read(r, i)

Spec == Init /\ [][Next]_vars
=============================================================================
