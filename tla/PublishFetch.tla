---------------------------- MODULE PublishFetch ----------------------------
(***************************************************************************)
(* publish and fetch-fragments: a publisher writes fragments and then a    *)
(* manifest of their hashes into a directory, in place; mirrors read the   *)
(* manifest and put what they lack into their own stores.  Nothing keeps a *)
(* mirror from reading a set that is being written again, or one that an   *)
(* interrupted publish left half-way.  A hash is the content it is of, and *)
(* putting one fetched file in place is atomic (AtomicStore).              *)
(***************************************************************************)
EXTENDS Naturals, Sequences

CONSTANTS
  Sites,        (* published directories, each with its publisher's store  *)
  Mirrors,      (* stores that fetch                                       *)
  Urls,         (* the sites a mirror's unit fetches, one after the other  *)
  Paths,        (* fragment paths                                          *)
  ContentsOf,   (* ContentsOf[p]: what a file of that path can hold          *)
  Rejected,     (* paths fetch refuses: absolute or with ".."              *)
  Mutable,      (* paths of kinds written with Store::overwrite            *)
  Collectable,  (* paths gc-derived removes                                *)
  MaxChanges,   (* bound on changes of the publishers' stores              *)
  MaxCrashes,   (* bound on crashes and I/O errors                         *)
  Absent,       (* no file                                                 *)
  Torn          (* a file that is being written, or was half-written       *)

Contents == UNION {ContentsOf[p] : p \in Paths}

ASSUME PublishAssumption ==
  /\ Urls \in Seq(Sites) /\ Urls # <<>>
  /\ {Absent, Torn} \cap Contents = {} /\ Absent # Torn
  /\ Rejected \subseteq Paths
  /\ MaxChanges \in Nat /\ MaxCrashes \in Nat

Entries == Paths \X Contents

(* A manifest.json: not there, being written, or whole.                     *)
Manifests == [state : {"absent", "torn", "whole"}, entries : SUBSET Entries]

VARIABLES
  source,       (* source[s][p]: the publisher's own file, or Absent       *)
  stale,        (* stale[s]: the store changed since s was published       *)
  pc,           (* pc[s]: the step of the publisher of s; "half" when the
                   latest publish was interrupted                          *)
  todo,         (* todo[s]: the paths it has still to write                *)
  current,      (* current[s]: the <<path, bytes>> it is writing           *)
  entries,      (* entries[s]: the manifest it is making                   *)
  set,          (* set[s][p]: the published file                           *)
  manifest,     (* manifest[s]: its manifest.json                          *)
  vouched,      (* history: the entries of every complete manifest         *)
  store,        (* store[m][p]: the mirror's own file                      *)
  step,         (* step[m]: the step of a mirror                           *)
  url,          (* url[m]: the position in Urls of the set it fetches      *)
  listed,       (* listed[m]: the manifest it has read                     *)
  left,         (* left[m]: the entries it has still to look at            *)
  got,          (* got[m]: the <<path, bytes>> it has read                 *)
  changes, crashes

publisherVars == <<source, stale, pc, todo, current, entries, set, manifest, vouched>>
mirrorVars == <<store, step, url, listed, left, got>>
vars == <<publisherVars, mirrorVars, changes, crashes>>

None == <<Absent, Absent>>
Files == [Paths -> Contents \cup {Absent}]

Init ==
  /\ source \in [Sites -> [Paths -> {Absent}]]
  /\ stale = [s \in Sites |-> TRUE]
  /\ pc = [s \in Sites |-> "idle"]
  /\ todo = [s \in Sites |-> {}]
  /\ current = [s \in Sites |-> None]
  /\ entries = [s \in Sites |-> {}]
  /\ set = [s \in Sites |-> [p \in Paths |-> Absent]]
  /\ manifest = [s \in Sites |-> [state |-> "absent", entries |-> {}]]
  /\ vouched = {}
  /\ store = [m \in Mirrors |-> [p \in Paths |-> Absent]]
  /\ step = [m \in Mirrors |-> "idle"]
  /\ url = [m \in Mirrors |-> 1]
  /\ listed = [m \in Mirrors |-> {}]
  /\ left = [m \in Mirrors |-> {}]
  /\ got = [m \in Mirrors |-> None]
  /\ changes = 0 /\ crashes = 0

-----------------------------------------------------------------------------
(***************************************************************************)
(* The publisher.                                                          *)
(***************************************************************************)
Present(s) == {p \in Paths : source[s][p] # Absent}

\* Extraction adds a fragment, a rule run overwrites its run fragment,
\* gc-derived removes one.
Change(s, p, c) ==
  /\ changes < MaxChanges /\ source[s][p] # c
  /\ source[s][p] # Absent /\ c # Absent => p \in Mutable
  /\ c = Absent => p \in Collectable
  /\ source' = [source EXCEPT ![s][p] = c]
  /\ stale' = [stale EXCEPT ![s] = TRUE]
  /\ changes' = changes + 1
  /\ UNCHANGED <<pc, todo, current, entries, set, manifest, vouched, mirrorVars, crashes>>

\* publish --all takes what is listed, publish some of it.  It is run when
\* there is something new, or the latest run failed.
Publish(s, paths) ==
  /\ pc[s] = "half" \/ (pc[s] = "idle" /\ stale[s])
  /\ paths \subseteq Present(s)
  /\ pc' = [pc EXCEPT ![s] = "read"]
  /\ todo' = [todo EXCEPT ![s] = paths]
  /\ entries' = [entries EXCEPT ![s] = {}]
  /\ stale' = [stale EXCEPT ![s] = FALSE]
  /\ UNCHANGED <<source, current, set, manifest, vouched, mirrorVars, changes, crashes>>

\* fs::read of one fragment, then fs::write of its copy: emptied, then filled.
ReadSource(s, p) ==
  /\ pc[s] = "read" /\ p \in todo[s] /\ source[s][p] # Absent
  /\ current' = [current EXCEPT ![s] = <<p, source[s][p]>>]
  /\ pc' = [pc EXCEPT ![s] = "empty"]
  /\ UNCHANGED <<source, stale, todo, entries, set, manifest, vouched, mirrorVars, changes, crashes>>
EmptyCopy(s) ==
  /\ pc[s] = "empty"
  /\ set' = [set EXCEPT ![s][current[s][1]] = Torn]
  /\ pc' = [pc EXCEPT ![s] = "fill"]
  /\ UNCHANGED <<source, stale, todo, current, entries, manifest, vouched, mirrorVars, changes, crashes>>

\* Mutant of FillCopy: the hash is taken of the file as it is by now in the store.
FillAndRehash(s) ==
  /\ pc[s] = "fill"
  /\ set' = [set EXCEPT ![s][current[s][1]] = current[s][2]]
  /\ entries' = [entries EXCEPT ![s] =
       @ \cup (({current[s][1]} \X {source[s][current[s][1]]}) \cap Entries)]
  /\ todo' = [todo EXCEPT ![s] = @ \ {current[s][1]}]
  /\ current' = [current EXCEPT ![s] = None]
  /\ pc' = [pc EXCEPT ![s] = "read"]
  /\ UNCHANGED <<source, stale, manifest, vouched, mirrorVars, changes, crashes>>

FillCopy(s) ==
  /\ pc[s] = "fill"
  /\ set' = [set EXCEPT ![s][current[s][1]] = current[s][2]]
  /\ entries' = [entries EXCEPT ![s] = @ \cup {current[s]}]
  /\ todo' = [todo EXCEPT ![s] = @ \ {current[s][1]}]
  /\ current' = [current EXCEPT ![s] = None]
  /\ pc' = [pc EXCEPT ![s] = "read"]
  /\ UNCHANGED <<source, stale, manifest, vouched, mirrorVars, changes, crashes>>

\* The manifest is written last, in place like the copies.
EmptyManifest(s) ==
  /\ pc[s] = "read" /\ todo[s] = {}
  /\ manifest' = [manifest EXCEPT ![s] = [state |-> "torn", entries |-> {}]]
  /\ pc' = [pc EXCEPT ![s] = "manifest"]
  /\ UNCHANGED <<source, stale, todo, current, entries, set, vouched, mirrorVars, changes, crashes>>
FillManifest(s) ==
  /\ pc[s] = "manifest"
  /\ manifest' = [manifest EXCEPT ![s] = [state |-> "whole", entries |-> entries[s]]]
  /\ vouched' = vouched \cup entries[s]
  /\ entries' = [entries EXCEPT ![s] = {}]
  /\ pc' = [pc EXCEPT ![s] = "idle"]
  /\ UNCHANGED <<source, stale, todo, current, set, mirrorVars, changes, crashes>>

\* publish ends half-way.
Interrupted(s) ==
  /\ pc' = [pc EXCEPT ![s] = "half"]
  /\ todo' = [todo EXCEPT ![s] = {}]
  /\ current' = [current EXCEPT ![s] = None]
  /\ entries' = [entries EXCEPT ![s] = {}]
  /\ UNCHANGED <<source, stale, set, manifest, vouched, mirrorVars, changes>>

\* A fragment was removed after the listing.
ReadSourceFails(s, p) ==
  /\ pc[s] = "read" /\ p \in todo[s] /\ source[s][p] = Absent
  /\ Interrupted(s)
  /\ UNCHANGED crashes
PublisherCrash(s) ==
  /\ pc[s] \notin {"idle", "half"} /\ crashes < MaxCrashes
  /\ crashes' = crashes + 1
  /\ Interrupted(s)

PublisherStep(s) ==
  \/ \E paths \in SUBSET Paths : Publish(s, paths)
  \/ \E p \in Paths : ReadSource(s, p) \/ ReadSourceFails(s, p)
  \/ EmptyCopy(s) \/ FillCopy(s) \/ EmptyManifest(s) \/ FillManifest(s)

-----------------------------------------------------------------------------
(***************************************************************************)
(* The mirror: the unit fetches its urls in turn, an error ends it, and    *)
(* the timer starts it again.                                              *)
(***************************************************************************)
Site(m) == Urls[url[m]]

Fail(m) ==
  /\ step' = [step EXCEPT ![m] = "idle"]
  /\ url' = [url EXCEPT ![m] = 1]
  /\ listed' = [listed EXCEPT ![m] = {}]
  /\ left' = [left EXCEPT ![m] = {}]
  /\ got' = [got EXCEPT ![m] = None]
  /\ UNCHANGED <<publisherVars, store, changes>>

ReadManifest(m) ==
  /\ step[m] = "idle" /\ manifest[Site(m)].state = "whole"
  /\ listed' = [listed EXCEPT ![m] = manifest[Site(m)].entries]
  /\ left' = [left EXCEPT ![m] = manifest[Site(m)].entries]
  /\ step' = [step EXCEPT ![m] = "next"]
  /\ UNCHANGED <<publisherVars, store, url, got, changes, crashes>>

\* No manifest, or one that does not parse.
ReadManifestFails(m) ==
  /\ step[m] = "idle" /\ manifest[Site(m)].state # "whole"
  /\ Fail(m)
  /\ UNCHANGED crashes

\* A path fetch rejects, or one the store has already.
PassOver(m, e) ==
  /\ step[m] = "next" /\ e \in left[m]
  /\ e[1] \in Rejected \/ store[m][e[1]] # Absent
  /\ left' = [left EXCEPT ![m] = @ \ {e}]
  /\ UNCHANGED <<publisherVars, store, step, url, listed, got, changes, crashes>>

\* Mutant of Get: the hash is not compared.
GetUnverified(m, e) ==
  /\ step[m] = "next" /\ e \in left[m]
  /\ e[1] \notin Rejected /\ store[m][e[1]] = Absent
  /\ set[Site(m)][e[1]] # Absent
  /\ got' = [got EXCEPT ![m] = <<e[1], set[Site(m)][e[1]]>>]
  /\ left' = [left EXCEPT ![m] = @ \ {e}]
  /\ step' = [step EXCEPT ![m] = "put"]
  /\ UNCHANGED <<publisherVars, store, url, listed, changes, crashes>>

\* get_bytes, and the hash is that of the manifest read before.
Get(m, e) ==
  /\ step[m] = "next" /\ e \in left[m]
  /\ e[1] \notin Rejected /\ store[m][e[1]] = Absent
  /\ set[Site(m)][e[1]] = e[2]
  /\ got' = [got EXCEPT ![m] = e]
  /\ left' = [left EXCEPT ![m] = @ \ {e}]
  /\ step' = [step EXCEPT ![m] = "put"]
  /\ UNCHANGED <<publisherVars, store, url, listed, changes, crashes>>

\* Mutant of GetFails: a fragment that cannot be had is left out.
GetPassesOver(m, e) ==
  /\ step[m] = "next" /\ e \in left[m]
  /\ e[1] \notin Rejected /\ store[m][e[1]] = Absent
  /\ set[Site(m)][e[1]] # e[2]
  /\ left' = [left EXCEPT ![m] = @ \ {e}]
  /\ UNCHANGED <<publisherVars, store, step, url, listed, got, changes, crashes>>

\* The file is not there, or is not the one the manifest was made of.
GetFails(m, e) ==
  /\ step[m] = "next" /\ e \in left[m]
  /\ e[1] \notin Rejected /\ store[m][e[1]] = Absent
  /\ set[Site(m)][e[1]] # e[2]
  /\ Fail(m)
  /\ UNCHANGED crashes

\* The file is put in place, over one that came in the meantime.
Put(m) ==
  /\ step[m] = "put"
  /\ store' = [store EXCEPT ![m][got[m][1]] = got[m][2]]
  /\ got' = [got EXCEPT ![m] = None]
  /\ step' = [step EXCEPT ![m] = "next"]
  /\ UNCHANGED <<publisherVars, url, listed, left, changes, crashes>>

Done(m) ==
  /\ step[m] = "next" /\ left[m] = {}
  /\ step' = [step EXCEPT ![m] = "done"]
  /\ UNCHANGED <<publisherVars, store, url, listed, left, got, changes, crashes>>

\* Mutant of NextUrl: after the last url comes the last url.
NextUrlStays(m) ==
  /\ step[m] = "done"
  /\ url' = [url EXCEPT ![m] = IF @ = Len(Urls) THEN @ ELSE @ + 1]
  /\ listed' = [listed EXCEPT ![m] = {}]
  /\ step' = [step EXCEPT ![m] = "idle"]
  /\ UNCHANGED <<publisherVars, store, left, got, changes, crashes>>

NextUrl(m) ==
  /\ step[m] = "done"
  /\ url' = [url EXCEPT ![m] = IF @ = Len(Urls) THEN 1 ELSE @ + 1]
  /\ listed' = [listed EXCEPT ![m] = {}]
  /\ step' = [step EXCEPT ![m] = "idle"]
  /\ UNCHANGED <<publisherVars, store, left, got, changes, crashes>>

MirrorCrash(m) ==
  /\ step[m] # "idle" /\ crashes < MaxCrashes
  /\ crashes' = crashes + 1
  /\ Fail(m)

\* gc-derived of the mirror.
Collect(m, p) ==
  /\ changes < MaxChanges /\ p \in Collectable /\ store[m][p] # Absent
  /\ store' = [store EXCEPT ![m][p] = Absent]
  /\ changes' = changes + 1
  /\ UNCHANGED <<publisherVars, step, url, listed, left, got, crashes>>

MirrorStep(m) ==
  \/ ReadManifest(m) \/ ReadManifestFails(m)
  \/ \E e \in left[m] : PassOver(m, e) \/ Get(m, e) \/ GetFails(m, e)
  \/ Put(m) \/ Done(m) \/ NextUrl(m)

-----------------------------------------------------------------------------
Next ==
  \/ \E s \in Sites : PublisherStep(s) \/ PublisherCrash(s)
  \/ \E s \in Sites, p \in Paths : \E c \in ContentsOf[p] \cup {Absent} : Change(s, p, c)
  \/ \E m \in Mirrors : MirrorStep(m) \/ MirrorCrash(m)
  \/ \E m \in Mirrors, p \in Paths : Collect(m, p)

Spec == Init /\ [][Next]_vars

\* What runs runs on; a publisher publishes what changed and repeats what
\* failed; the mirror's timer starts its unit again and again.
FairSpec ==
  /\ Spec
  /\ \A s \in Sites : WF_vars(PublisherStep(s))
  /\ \A m \in Mirrors : WF_vars(MirrorStep(m))

-----------------------------------------------------------------------------
(***************************************************************************)
(* Properties.                                                             *)
(***************************************************************************)
TypeOK ==
  /\ source \in [Sites -> Files]
  /\ stale \in [Sites -> BOOLEAN]
  /\ pc \in [Sites -> {"idle", "half", "read", "empty", "fill", "manifest"}]
  /\ todo \in [Sites -> SUBSET Paths]
  /\ current \in [Sites -> Entries \cup {None}]
  /\ entries \in [Sites -> SUBSET Entries]
  /\ set \in [Sites -> [Paths -> Contents \cup {Absent, Torn}]]
  /\ manifest \in [Sites -> Manifests]
  /\ vouched \in SUBSET Entries
  /\ store \in [Mirrors -> Files]
  /\ step \in [Mirrors -> {"idle", "next", "put", "done"}]
  /\ url \in [Mirrors -> DOMAIN Urls]
  /\ listed \in [Mirrors -> SUBSET Entries] /\ left \in [Mirrors -> SUBSET Entries]
  /\ got \in [Mirrors -> Entries \cup {None}]
  /\ changes \in Nat /\ crashes \in Nat

\* "Verifies the hash of every file" (publish.rs): whatever a mirror has, some
\* complete manifest named with that content, also when the set was written
\* again, or was half written, while it was fetched.
OnlyVouchedFor ==
  \A m \in Mirrors, p \in Paths : store[m][p] # Absent => <<p, store[m][p]>> \in vouched

\* A fetch that ends well has all that the manifest it read names (what the
\* mirror's own gc-derived removes excepted), although the set may have
\* changed under it.
FetchIsComplete ==
  \A m \in Mirrors : step[m] = "done" =>
    \A e \in listed[m] :
      e[1] \in Rejected \cup Collectable \/ store[m][e[1]] # Absent

\* A publish that ends well leaves a manifest that is true of the files beside
\* it, although the publisher's store may have changed since it was listed,
\* and whatever an interrupted publish left before.
SiteIsTrue ==
  \A s \in Sites : pc[s] = "idle" =>
    manifest[s].state # "torn" /\ \A e \in manifest[s].entries : set[s][e[1]] = e[2]

\* Once each url has been published, a mirror gets what the manifests name,
\* again and again, in spite of changes, of sets that are written while they
\* are fetched, and of crashes on either side.  (A url that is never
\* published keeps the unit from those after it.)
InStep(m, s) ==
  manifest[s].state = "whole" =>
    \A e \in manifest[s].entries : e[1] \in Rejected \/ store[m][e[1]] # Absent
MirrorsCatchUp ==
  (\A s \in Sites : <>(manifest[s].state = "whole")) =>
    \A m \in Mirrors, s \in Sites : []<>InStep(m, s)
=============================================================================
