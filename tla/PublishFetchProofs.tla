------------------------- MODULE PublishFetchProofs -------------------------
(***************************************************************************)
(* Proofs about PublishFetch, for any sites, mirrors, paths, contents and  *)
(* bounds.                                                                 *)
(***************************************************************************)
EXTENDS PublishFetch, TLAPS

\* What is being written and what has been read is a file.
TypeInv ==
  /\ TypeOK
  /\ \A s \in Sites : pc[s] \in {"empty", "fill"} => current[s] \in Entries
  /\ \A m \in Mirrors : step[m] = "put" => got[m] \in Entries

\* A mirror works from complete manifests only.
VouchedInv ==
  /\ OnlyVouchedFor
  /\ \A s \in Sites : manifest[s].entries \subseteq vouched
  /\ \A m \in Mirrors : left[m] \subseteq vouched /\ (step[m] = "put" => got[m] \in vouched)

\* What the next manifest lists has been written, and will not be again.
Publishing == {"read", "empty", "fill", "manifest"}
SiteInv ==
  \A s \in Sites :
    /\ pc[s] = "idle" =>
         manifest[s].state # "torn" /\ \A e \in manifest[s].entries : set[s][e[1]] = e[2]
    /\ pc[s] \in Publishing =>
         \A e \in entries[s] : set[s][e[1]] = e[2] /\ e[1] \notin todo[s]
    /\ pc[s] \in {"empty", "fill"} => current[s][1] \in todo[s]

\* What the manifest lists is in the store, or on its way to it.
Have(m, e) == e[1] \in Rejected \cup Collectable \/ store[m][e[1]] # Absent
FetchInv ==
  \A m \in Mirrors :
    /\ step[m] \in {"next", "put", "done"} =>
         \A e \in listed[m] : e \in left[m] \/ (step[m] = "put" /\ got[m] = e) \/ Have(m, e)
    /\ step[m] = "done" => left[m] = {}

-----------------------------------------------------------------------------
LEMMA UrlsAreSites == /\ Urls \in Seq(Sites) /\ DOMAIN Urls = 1..Len(Urls)
                      /\ Len(Urls) \in Nat \ {0}
  BY PublishAssumption

LEMMA ListedEntries ==
  ASSUME TypeOK, NEW m \in Mirrors
  PROVE  /\ Site(m) \in Sites /\ 1 \in DOMAIN Urls
         /\ manifest[Site(m)].entries \in SUBSET Entries
<1>1. Site(m) \in Sites /\ 1 \in DOMAIN Urls
  BY UrlsAreSites DEF TypeOK, Site
<1>2. QED
  BY <1>1 DEF TypeOK, Manifests

LEMMA TypeInvInit == Init => TypeInv
  BY PublishAssumption DEF Init, TypeInv, TypeOK, Files, Manifests

LEMMA TypeInvStep == TypeInv /\ [Next]_vars => TypeInv'
<1> SUFFICES ASSUME TypeInv, [Next]_vars PROVE TypeInv'
  OBVIOUS
<1> USE DEF TypeInv, TypeOK, publisherVars, mirrorVars
<1>1. ASSUME NEW s \in Sites, NEW paths \in SUBSET Paths, Publish(s, paths) PROVE TypeInv'
  BY <1>1 DEF Publish, Files, Manifests, Entries, Contents
<1>2. ASSUME NEW s \in Sites, NEW p \in Paths, ReadSource(s, p) PROVE TypeInv'
  <2>1. source[s][p] \in Contents
    BY <1>2 DEF ReadSource, Files
  <2>2. <<p, source[s][p]>> \in Entries
    BY <2>1 DEF Entries
  <2>3. QED
    BY <1>2, <2>2 DEF ReadSource
<1>3. ASSUME NEW s \in Sites, EmptyCopy(s) PROVE TypeInv'
  BY <1>3 DEF EmptyCopy, Files, Manifests, Entries, Contents
<1>4. ASSUME NEW s \in Sites, FillCopy(s) PROVE TypeInv'
  <2>1. current[s] \in Entries /\ current[s][1] \in Paths /\ current[s][2] \in Contents
    BY <1>4 DEF FillCopy, Entries
  <2>2. set' \in [Sites -> [Paths -> Contents \cup {Absent, Torn}]]
    BY <1>4, <2>1 DEF FillCopy
  <2>3. entries' \in [Sites -> SUBSET Entries] /\ todo' \in [Sites -> SUBSET Paths]
    BY <1>4, <2>1 DEF FillCopy
  <2>4. pc' = [pc EXCEPT ![s] = "read"] /\ current' = [current EXCEPT ![s] = None]
    BY <1>4 DEF FillCopy
  <2>5. UNCHANGED <<source, stale, manifest, vouched, store, step, url, listed, left, got, changes, crashes>>
    BY <1>4 DEF FillCopy
  <2>6. QED
    BY <2>2, <2>3, <2>4, <2>5
<1>5. ASSUME NEW s \in Sites, EmptyManifest(s) PROVE TypeInv'
  BY <1>5 DEF EmptyManifest, Files, Manifests, Entries, Contents
<1>6. ASSUME NEW s \in Sites, FillManifest(s) PROVE TypeInv'
  BY <1>6 DEF FillManifest, Files, Manifests, Entries, Contents
<1>7. ASSUME NEW s \in Sites, NEW p \in Paths, ReadSourceFails(s, p) PROVE TypeInv'
  BY <1>7 DEF ReadSourceFails, Interrupted, Files, Manifests, Entries, Contents
<1>8. ASSUME NEW s \in Sites, PublisherCrash(s) PROVE TypeInv'
  BY <1>8 DEF PublisherCrash, Interrupted, Files, Manifests, Entries, Contents
<1>9. ASSUME NEW m \in Mirrors, ReadManifest(m) PROVE TypeInv'
  BY <1>9, ListedEntries DEF ReadManifest
<1>10. ASSUME NEW m \in Mirrors, ReadManifestFails(m) PROVE TypeInv'
  BY <1>10, ListedEntries DEF ReadManifestFails, Fail
<1>11. ASSUME NEW m \in Mirrors, NEW e \in left[m], PassOver(m, e) PROVE TypeInv'
  BY <1>11 DEF PassOver, Files, Manifests, Entries, Contents
<1>12. ASSUME NEW m \in Mirrors, NEW e \in left[m], Get(m, e) PROVE TypeInv'
  BY <1>12 DEF Get, Files, Manifests, Entries, Contents
<1>13. ASSUME NEW m \in Mirrors, NEW e \in left[m], GetFails(m, e) PROVE TypeInv'
  BY <1>13, ListedEntries DEF GetFails, Fail
<1>14. ASSUME NEW m \in Mirrors, Put(m) PROVE TypeInv'
  BY <1>14 DEF Put, Files, Manifests, Entries, Contents
<1>15. ASSUME NEW m \in Mirrors, Done(m) PROVE TypeInv'
  BY <1>15 DEF Done, Files, Manifests, Entries, Contents
<1>16. ASSUME NEW m \in Mirrors, NextUrl(m) PROVE TypeInv'
  <2>1. (IF url[m] = Len(Urls) THEN 1 ELSE url[m] + 1) \in DOMAIN Urls
    BY UrlsAreSites
  <2>2. url' \in [Mirrors -> DOMAIN Urls]
    BY <1>16, <2>1 DEF NextUrl
  <2>3. QED
    BY <1>16, <2>2 DEF NextUrl
<1>17. ASSUME NEW m \in Mirrors, MirrorCrash(m) PROVE TypeInv'
  BY <1>17, ListedEntries DEF MirrorCrash, Fail
<1>18. ASSUME NEW m \in Mirrors, NEW p \in Paths, Collect(m, p) PROVE TypeInv'
  BY <1>18 DEF Collect, Files, Manifests, Entries, Contents
<1>19. ASSUME NEW s \in Sites, NEW p \in Paths, NEW c \in ContentsOf[p] \cup {Absent}, Change(s, p, c)
      PROVE  TypeInv'
  BY <1>19 DEF Change, Files, Manifests, Entries, Contents
<1>20. CASE UNCHANGED vars
  BY <1>20 DEF vars, Files, Manifests, Entries, Contents
<1>21. QED
  BY <1>1, <1>2, <1>3, <1>4, <1>5, <1>6, <1>7, <1>8, <1>9, <1>10, <1>11, <1>12, <1>13, <1>14, <1>15, <1>16, <1>17, <1>18, <1>19, <1>20 DEF Next, PublisherStep, MirrorStep

(* TypeOK of PublishFetch: every reachable state of publish and            *)
(* fetch-fragments is well formed.                                         *)
THEOREM PublishTypeCorrect == Spec => []TypeOK
<1>1. TypeInv => TypeOK
  BY DEF TypeInv
<1>2. QED
  BY TypeInvInit, TypeInvStep, <1>1, PTL DEF Spec

-----------------------------------------------------------------------------
LEMMA VouchedInvInit == Init => VouchedInv
  BY DEF Init, VouchedInv, OnlyVouchedFor

LEMMA VouchedInvStep == TypeInv /\ VouchedInv /\ [Next]_vars => VouchedInv'
<1> SUFFICES ASSUME TypeInv, VouchedInv, [Next]_vars PROVE VouchedInv'
  OBVIOUS
<1> USE DEF VouchedInv, TypeInv, TypeOK, publisherVars, mirrorVars
<1>1. ASSUME NEW s \in Sites, NEW paths \in SUBSET Paths, Publish(s, paths) PROVE VouchedInv'
  BY <1>1 DEF Publish, OnlyVouchedFor
<1>2. ASSUME NEW s \in Sites, NEW p \in Paths, ReadSource(s, p) PROVE VouchedInv'
  BY <1>2 DEF ReadSource, OnlyVouchedFor
<1>3. ASSUME NEW s \in Sites, EmptyCopy(s) PROVE VouchedInv'
  BY <1>3 DEF EmptyCopy, OnlyVouchedFor
<1>4. ASSUME NEW s \in Sites, FillCopy(s) PROVE VouchedInv'
  BY <1>4 DEF FillCopy, OnlyVouchedFor
<1>5. ASSUME NEW s \in Sites, EmptyManifest(s) PROVE VouchedInv'
  BY <1>5 DEF EmptyManifest, OnlyVouchedFor
<1>6. ASSUME NEW s \in Sites, FillManifest(s) PROVE VouchedInv'
  BY <1>6 DEF FillManifest, OnlyVouchedFor
<1>7. ASSUME NEW s \in Sites, NEW p \in Paths, ReadSourceFails(s, p) PROVE VouchedInv'
  BY <1>7 DEF ReadSourceFails, Interrupted, OnlyVouchedFor
<1>8. ASSUME NEW s \in Sites, PublisherCrash(s) PROVE VouchedInv'
  BY <1>8 DEF PublisherCrash, Interrupted, OnlyVouchedFor
<1>9. ASSUME NEW m \in Mirrors, ReadManifest(m) PROVE VouchedInv'
  BY <1>9, ListedEntries DEF ReadManifest, OnlyVouchedFor
<1>10. ASSUME NEW m \in Mirrors, ReadManifestFails(m) PROVE VouchedInv'
  BY <1>10 DEF ReadManifestFails, Fail, OnlyVouchedFor
<1>11. ASSUME NEW m \in Mirrors, NEW e \in left[m], PassOver(m, e) PROVE VouchedInv'
  BY <1>11 DEF PassOver, OnlyVouchedFor
<1>12. ASSUME NEW m \in Mirrors, NEW e \in left[m], Get(m, e) PROVE VouchedInv'
  BY <1>12 DEF Get, OnlyVouchedFor
<1>13. ASSUME NEW m \in Mirrors, NEW e \in left[m], GetFails(m, e) PROVE VouchedInv'
  BY <1>13 DEF GetFails, Fail, OnlyVouchedFor
<1>14. ASSUME NEW m \in Mirrors, Put(m) PROVE VouchedInv'
  <2>1. got[m] = <<got[m][1], got[m][2]>> /\ got[m] \in vouched /\ got[m][1] \in Paths
    BY <1>14 DEF Put, Entries
  <2>2. OnlyVouchedFor'
    <3> SUFFICES ASSUME NEW n \in Mirrors, NEW p \in Paths, store'[n][p] # Absent
                 PROVE  <<p, store'[n][p]>> \in vouched
      BY <1>14 DEF Put, OnlyVouchedFor
    <3>1. CASE n = m /\ p = got[m][1]
      BY <1>14, <2>1, <3>1 DEF Put, Files
    <3>2. CASE ~(n = m /\ p = got[m][1])
      <4>1. store'[n][p] = store[n][p]
        BY <1>14, <3>2 DEF Put, Files
      <4>2. QED
        BY <4>1 DEF OnlyVouchedFor
    <3>3. QED
      BY <3>1, <3>2
  <2>3. QED
    BY <1>14, <2>2 DEF Put
<1>15. ASSUME NEW m \in Mirrors, Done(m) PROVE VouchedInv'
  BY <1>15 DEF Done, OnlyVouchedFor
<1>16. ASSUME NEW m \in Mirrors, NextUrl(m) PROVE VouchedInv'
  BY <1>16 DEF NextUrl, OnlyVouchedFor
<1>17. ASSUME NEW m \in Mirrors, MirrorCrash(m) PROVE VouchedInv'
  BY <1>17 DEF MirrorCrash, Fail, OnlyVouchedFor
<1>18. ASSUME NEW m \in Mirrors, NEW p \in Paths, Collect(m, p) PROVE VouchedInv'
  BY <1>18 DEF Collect, OnlyVouchedFor
<1>19. ASSUME NEW s \in Sites, NEW p \in Paths, NEW c \in ContentsOf[p] \cup {Absent}, Change(s, p, c)
      PROVE  VouchedInv'
  BY <1>19 DEF Change, OnlyVouchedFor
<1>20. CASE UNCHANGED vars
  BY <1>20 DEF vars, OnlyVouchedFor
<1>21. QED
  BY <1>1, <1>2, <1>3, <1>4, <1>5, <1>6, <1>7, <1>8, <1>9, <1>10, <1>11, <1>12, <1>13, <1>14, <1>15, <1>16, <1>17, <1>18, <1>19, <1>20 DEF Next, PublisherStep, MirrorStep

(* OnlyVouchedFor: whatever set is written again or left half-written      *)
(* while it is fetched, a mirror's store holds only files whose hash some  *)
(* complete manifest lists.                                                *)
THEOREM MirrorsHoldWhatWasVouchedFor == Spec => []OnlyVouchedFor
<1>1. TypeInv /\ VouchedInv => OnlyVouchedFor
  BY DEF VouchedInv, OnlyVouchedFor
<1>2. QED
  BY TypeInvInit, TypeInvStep, VouchedInvInit, VouchedInvStep, <1>1, PTL DEF Spec

-----------------------------------------------------------------------------
LEMMA SiteInvInit == Init => SiteInv
<1> SUFFICES ASSUME Init, NEW s \in Sites
             PROVE  /\ pc[s] = "idle" /\ manifest[s].state = "absent"
                    /\ manifest[s].entries = {} /\ entries[s] = {}
  BY DEF SiteInv, Publishing
<1>1. QED
  BY DEF Init

LEMMA SiteInvStep == TypeInv /\ SiteInv /\ [Next]_vars => SiteInv'
<1> SUFFICES ASSUME TypeInv, SiteInv, [Next]_vars PROVE SiteInv'
  OBVIOUS
<1> USE DEF SiteInv, TypeInv, TypeOK, publisherVars, mirrorVars
<1>1. ASSUME NEW s \in Sites, NEW paths \in SUBSET Paths, Publish(s, paths) PROVE SiteInv'
  BY <1>1 DEF Publish, Publishing, Manifests
<1>2. ASSUME NEW s \in Sites, NEW p \in Paths, ReadSource(s, p) PROVE SiteInv'
  BY <1>2 DEF ReadSource, Publishing, Manifests
<1>3. ASSUME NEW s \in Sites, EmptyCopy(s) PROVE SiteInv'
  BY <1>3 DEF EmptyCopy, Publishing, Manifests
<1>4. ASSUME NEW s \in Sites, FillCopy(s) PROVE SiteInv'
  BY <1>4 DEF FillCopy, Publishing, Manifests
<1>5. ASSUME NEW s \in Sites, EmptyManifest(s) PROVE SiteInv'
  BY <1>5 DEF EmptyManifest, Publishing, Manifests
<1>6. ASSUME NEW s \in Sites, FillManifest(s) PROVE SiteInv'
  BY <1>6 DEF FillManifest, Publishing, Manifests
<1>7. ASSUME NEW s \in Sites, NEW p \in Paths, ReadSourceFails(s, p) PROVE SiteInv'
  BY <1>7 DEF ReadSourceFails, Interrupted, Publishing, Manifests
<1>8. ASSUME NEW s \in Sites, PublisherCrash(s) PROVE SiteInv'
  BY <1>8 DEF PublisherCrash, Interrupted, Publishing, Manifests
<1>9. ASSUME NEW m \in Mirrors, ReadManifest(m) PROVE SiteInv'
  BY <1>9 DEF ReadManifest, Publishing, Manifests
<1>10. ASSUME NEW m \in Mirrors, ReadManifestFails(m) PROVE SiteInv'
  BY <1>10 DEF ReadManifestFails, Fail, Publishing, Manifests
<1>11. ASSUME NEW m \in Mirrors, NEW e \in left[m], PassOver(m, e) PROVE SiteInv'
  BY <1>11 DEF PassOver, Publishing, Manifests
<1>12. ASSUME NEW m \in Mirrors, NEW e \in left[m], Get(m, e) PROVE SiteInv'
  BY <1>12 DEF Get, Publishing, Manifests
<1>13. ASSUME NEW m \in Mirrors, NEW e \in left[m], GetFails(m, e) PROVE SiteInv'
  BY <1>13 DEF GetFails, Fail, Publishing, Manifests
<1>14. ASSUME NEW m \in Mirrors, Put(m) PROVE SiteInv'
  BY <1>14 DEF Put, Publishing, Manifests
<1>15. ASSUME NEW m \in Mirrors, Done(m) PROVE SiteInv'
  BY <1>15 DEF Done, Publishing, Manifests
<1>16. ASSUME NEW m \in Mirrors, NextUrl(m) PROVE SiteInv'
  BY <1>16 DEF NextUrl, Publishing, Manifests
<1>17. ASSUME NEW m \in Mirrors, MirrorCrash(m) PROVE SiteInv'
  BY <1>17 DEF MirrorCrash, Fail, Publishing, Manifests
<1>18. ASSUME NEW m \in Mirrors, NEW p \in Paths, Collect(m, p) PROVE SiteInv'
  BY <1>18 DEF Collect, Publishing, Manifests
<1>19. ASSUME NEW s \in Sites, NEW p \in Paths, NEW c \in ContentsOf[p] \cup {Absent}, Change(s, p, c)
      PROVE  SiteInv'
  BY <1>19 DEF Change, Publishing, Manifests
<1>20. CASE UNCHANGED vars
  BY <1>20 DEF vars, Publishing, Manifests
<1>21. QED
  BY <1>1, <1>2, <1>3, <1>4, <1>5, <1>6, <1>7, <1>8, <1>9, <1>10, <1>11, <1>12, <1>13, <1>14, <1>15, <1>16, <1>17, <1>18, <1>19, <1>20 DEF Next, PublisherStep, MirrorStep

(* SiteIsTrue: a manifest that publish leaves is true of the files beside  *)
(* it, whatever the publisher's store does meanwhile.                      *)
THEOREM SitesAreTrue == Spec => []SiteIsTrue
<1>1. TypeInv /\ SiteInv => SiteIsTrue
  BY DEF SiteInv, SiteIsTrue
<1>2. QED
  BY TypeInvInit, TypeInvStep, SiteInvInit, SiteInvStep, <1>1, PTL DEF Spec

-----------------------------------------------------------------------------
LEMMA FetchInvInit == Init => FetchInv
  BY DEF Init, FetchInv, Have

LEMMA FetchInvStep == TypeInv /\ FetchInv /\ [Next]_vars => FetchInv'
<1> SUFFICES ASSUME TypeInv, FetchInv, [Next]_vars PROVE FetchInv'
  OBVIOUS
<1> USE DEF FetchInv, TypeInv, TypeOK, publisherVars, mirrorVars
<1>1. ASSUME NEW s \in Sites, NEW paths \in SUBSET Paths, Publish(s, paths) PROVE FetchInv'
  BY <1>1 DEF Publish, Have
<1>2. ASSUME NEW s \in Sites, NEW p \in Paths, ReadSource(s, p) PROVE FetchInv'
  BY <1>2 DEF ReadSource, Have
<1>3. ASSUME NEW s \in Sites, EmptyCopy(s) PROVE FetchInv'
  BY <1>3 DEF EmptyCopy, Have
<1>4. ASSUME NEW s \in Sites, FillCopy(s) PROVE FetchInv'
  BY <1>4 DEF FillCopy, Have
<1>5. ASSUME NEW s \in Sites, EmptyManifest(s) PROVE FetchInv'
  BY <1>5 DEF EmptyManifest, Have
<1>6. ASSUME NEW s \in Sites, FillManifest(s) PROVE FetchInv'
  BY <1>6 DEF FillManifest, Have
<1>7. ASSUME NEW s \in Sites, NEW p \in Paths, ReadSourceFails(s, p) PROVE FetchInv'
  BY <1>7 DEF ReadSourceFails, Interrupted, Have
<1>8. ASSUME NEW s \in Sites, PublisherCrash(s) PROVE FetchInv'
  BY <1>8 DEF PublisherCrash, Interrupted, Have
<1>9. ASSUME NEW m \in Mirrors, ReadManifest(m) PROVE FetchInv'
  BY <1>9 DEF ReadManifest, Have
<1>10. ASSUME NEW m \in Mirrors, ReadManifestFails(m) PROVE FetchInv'
  BY <1>10 DEF ReadManifestFails, Fail, Have
<1>11. ASSUME NEW m \in Mirrors, NEW e \in left[m], PassOver(m, e) PROVE FetchInv'
  BY <1>11 DEF PassOver, Have
<1>12. ASSUME NEW m \in Mirrors, NEW e \in left[m], Get(m, e) PROVE FetchInv'
  BY <1>12 DEF Get, Have
<1>13. ASSUME NEW m \in Mirrors, NEW e \in left[m], GetFails(m, e) PROVE FetchInv'
  BY <1>13 DEF GetFails, Fail, Have
<1>14. ASSUME NEW m \in Mirrors, Put(m) PROVE FetchInv'
  <2>1. got[m] \in Entries /\ got[m][1] \in Paths /\ got[m][2] # Absent
    BY <1>14, PublishAssumption DEF Put, Entries
  <2>2. \A n \in Mirrors, p \in Paths :
          store[n][p] # Absent \/ (n = m /\ p = got[m][1]) => store'[n][p] # Absent
    BY <1>14, <2>1 DEF Put, Files
  <2>3. \A n \in Mirrors : listed[n] \subseteq Entries
    OBVIOUS
  <2>4. \A n \in Mirrors, e \in Entries : Have(n, e) \/ (n = m /\ e = got[m]) => Have(n, e)'
    BY <2>2 DEF Have, Entries
  <2>5. QED
    BY <1>14, <2>3, <2>4 DEF Put
<1>15. ASSUME NEW m \in Mirrors, Done(m) PROVE FetchInv'
  BY <1>15 DEF Done, Have
<1>16. ASSUME NEW m \in Mirrors, NextUrl(m) PROVE FetchInv'
  BY <1>16 DEF NextUrl, Have
<1>17. ASSUME NEW m \in Mirrors, MirrorCrash(m) PROVE FetchInv'
  BY <1>17 DEF MirrorCrash, Fail, Have
<1>18. ASSUME NEW m \in Mirrors, NEW p \in Paths, Collect(m, p) PROVE FetchInv'
  BY <1>18 DEF Collect, Have
<1>19. ASSUME NEW s \in Sites, NEW p \in Paths, NEW c \in ContentsOf[p] \cup {Absent}, Change(s, p, c)
      PROVE  FetchInv'
  BY <1>19 DEF Change, Have
<1>20. CASE UNCHANGED vars
  BY <1>20 DEF vars, Have
<1>21. QED
  BY <1>1, <1>2, <1>3, <1>4, <1>5, <1>6, <1>7, <1>8, <1>9, <1>10, <1>11, <1>12, <1>13, <1>14, <1>15, <1>16, <1>17, <1>18, <1>19, <1>20 DEF Next, PublisherStep, MirrorStep

(* FetchIsComplete: a fetch that ends well leaves nothing out of what its  *)
(* manifest lists.                                                         *)
THEOREM FetchesAreComplete == Spec => []FetchIsComplete
<1>1. TypeInv /\ FetchInv => FetchIsComplete
  BY DEF FetchInv, FetchIsComplete, Have
<1>2. QED
  BY TypeInvInit, TypeInvStep, FetchInvInit, FetchInvStep, <1>1, PTL DEF Spec
=============================================================================
