-------------------------- MODULE IriSchemeProofs --------------------------
(***************************************************************************)
(* Proofs about IriScheme, for any hashes, names, API groups and NAR       *)
(* hashes, names that are words of the scheme included: that names are     *)
(* unambiguous, and that fragment_for_iri is their inverse.                *)
(*                                                                         *)
(* For every constructor there is a lemma that says which sequence of      *)
(* segments it makes.  Three functions read such a sequence: EntityOf an   *)
(* IRI, KindOfPath a path and KindOfGraph a graph.  Each gives back what   *)
(* the sequence was made from (ReadsBack, PathReadsBack, GraphReadsBack),  *)
(* by cases on the constructor, so no two things share a name.  The same   *)
(* cases show what fragment_for_iri makes of a graph (GraphLeadsBack) and  *)
(* of the IRI of an entity (EntityLeads).                                  *)
(***************************************************************************)
EXTENDS IriScheme, SequenceTheorems, TLAPS

-----------------------------------------------------------------------------
(***************************************************************************)
(* Short sequences, one element at a time.                                 *)
(***************************************************************************)
\* A hash that is not encoded is one segment.
LEMMA RawOfHash == ASSUME NEW h \in Hashes PROVE Raw(h) = <<h>>
<1>1. h = <<h[1]>> /\ DOMAIN h = {1}
  BY SchemeAssumption
<1>2. Raw(h) = [i \in {1} |-> <<h[i]>>]
  BY <1>1 DEF Raw
<1>3. Raw(h) = [i \in {1} |-> h]
  BY <1>1, <1>2
<1>. QED BY <1>3

\* An element more.
LEMMA Snoc ==
  ASSUME NEW S, NEW s \in Seq(S), NEW x
  PROVE  /\ s \o <<x>> \in Seq(S \cup {x})
         /\ Len(s \o <<x>>) = Len(s) + 1
         /\ \A i \in 1 .. Len(s) : (s \o <<x>>)[i] = s[i]
         /\ (s \o <<x>>)[Len(s) + 1] = x
<1>1. s \in Seq(S \cup {x}) /\ <<x>> \in Seq(S \cup {x})
  BY SeqMonotonic
<1>. QED BY <1>1, ConcatProperties

LEMMA Add ==
  ASSUME NEW S, NEW s \in Seq(S), NEW x, NEW t \in Seq(S \cup {x}),
         Len(t) = Len(s) + 1, \A i \in 1 .. Len(s) : t[i] = s[i], t[Len(t)] = x
  PROVE  s \o <<x>> = t
<1> DEFINE u == s \o <<x>>
<1>1. Len(s) \in Nat
  BY LenProperties
<1>2. u \in Seq(S \cup {x}) /\ Len(u) = Len(t)
  BY Snoc
<1>3. \A i \in 1 .. Len(u) : u[i] = t[i]
  BY <1>1, <1>2, Snoc
<1>. HIDE DEF u
<1>4. u = t
  BY <1>2, <1>3, SeqEqual
<1>. QED BY <1>4 DEF u

\* The sequences of two to seven elements that concatenation makes.
LEMMA Two ==
  ASSUME NEW a, NEW b
  PROVE  <<a>> \o <<b>> = <<a, b>>
<1> DEFINE S == {a}
           s == <<a>>
           t == <<a, b>>
<1>1. s \in Seq(S) /\ t \in Seq(S \cup {b})
  OBVIOUS
<1>2. Len(t) = Len(s) + 1 /\ t[Len(t)] = b
  OBVIOUS
<1>3. \A i \in 1 .. Len(s) : t[i] = s[i]
  OBVIOUS
<1>4. s \o <<b>> = t
  <2>. HIDE DEF S, s, t
  <2>. QED BY <1>1, <1>2, <1>3, Add
<1>. QED BY <1>4

LEMMA Three ==
  ASSUME NEW a, NEW b, NEW c
  PROVE  <<a, b>> \o <<c>> = <<a, b, c>>
<1> DEFINE S == {a, b}
           s == <<a, b>>
           t == <<a, b, c>>
<1>1. s \in Seq(S) /\ t \in Seq(S \cup {c})
  OBVIOUS
<1>2. Len(t) = Len(s) + 1 /\ t[Len(t)] = c
  OBVIOUS
<1>3. \A i \in 1 .. Len(s) : t[i] = s[i]
  OBVIOUS
<1>4. s \o <<c>> = t
  <2>. HIDE DEF S, s, t
  <2>. QED BY <1>1, <1>2, <1>3, Add
<1>. QED BY <1>4

LEMMA Four ==
  ASSUME NEW a, NEW b, NEW c, NEW d
  PROVE  <<a, b, c>> \o <<d>> = <<a, b, c, d>>
<1> DEFINE S == {a, b, c}
           s == <<a, b, c>>
           t == <<a, b, c, d>>
<1>1. s \in Seq(S) /\ t \in Seq(S \cup {d})
  OBVIOUS
<1>2. Len(t) = Len(s) + 1 /\ t[Len(t)] = d
  OBVIOUS
<1>3. \A i \in 1 .. Len(s) : t[i] = s[i]
  OBVIOUS
<1>4. s \o <<d>> = t
  <2>. HIDE DEF S, s, t
  <2>. QED BY <1>1, <1>2, <1>3, Add
<1>. QED BY <1>4

LEMMA Five ==
  ASSUME NEW a, NEW b, NEW c, NEW d, NEW e
  PROVE  <<a, b, c, d>> \o <<e>> = <<a, b, c, d, e>>
<1> DEFINE S == {a, b, c, d}
           s == <<a, b, c, d>>
           t == <<a, b, c, d, e>>
<1>1. s \in Seq(S) /\ t \in Seq(S \cup {e})
  OBVIOUS
<1>2. Len(t) = Len(s) + 1 /\ t[Len(t)] = e
  OBVIOUS
<1>3. \A i \in 1 .. Len(s) : t[i] = s[i]
  OBVIOUS
<1>4. s \o <<e>> = t
  <2>. HIDE DEF S, s, t
  <2>. QED BY <1>1, <1>2, <1>3, Add
<1>. QED BY <1>4

LEMMA Six ==
  ASSUME NEW a, NEW b, NEW c, NEW d, NEW e, NEW f
  PROVE  <<a, b, c, d, e>> \o <<f>> = <<a, b, c, d, e, f>>
<1> DEFINE S == {a, b, c, d, e}
           s == <<a, b, c, d, e>>
           t == <<a, b, c, d, e, f>>
<1>1. s \in Seq(S) /\ t \in Seq(S \cup {f})
  OBVIOUS
<1>2. Len(t) = Len(s) + 1 /\ t[Len(t)] = f
  OBVIOUS
<1>3. \A i \in 1 .. Len(s) : t[i] = s[i]
  OBVIOUS
<1>4. s \o <<f>> = t
  <2>. HIDE DEF S, s, t
  <2>. QED BY <1>1, <1>2, <1>3, Add
<1>. QED BY <1>4

LEMMA Seven ==
  ASSUME NEW a, NEW b, NEW c, NEW d, NEW e, NEW f, NEW g
  PROVE  <<a, b, c, d, e, f>> \o <<g>> = <<a, b, c, d, e, f, g>>
<1> DEFINE S == {a, b, c, d, e, f}
           s == <<a, b, c, d, e, f>>
           t == <<a, b, c, d, e, f, g>>
<1>1. s \in Seq(S) /\ t \in Seq(S \cup {g})
  OBVIOUS
<1>2. Len(t) = Len(s) + 1 /\ t[Len(t)] = g
  OBVIOUS
<1>3. \A i \in 1 .. Len(s) : t[i] = s[i]
  OBVIOUS
<1>4. s \o <<g>> = t
  <2>. HIDE DEF S, s, t
  <2>. QED BY <1>1, <1>2, <1>3, Add
<1>. QED BY <1>4

-----------------------------------------------------------------------------
(***************************************************************************)
(* The IRIs of iri.rs, constructor by constructor.                         *)
(***************************************************************************)
LEMMA Chain3 ==
  ASSUME NEW a, NEW b, NEW c
  PROVE  <<a>> \o <<b>> \o <<c>> = <<a, b, c>>
<1>2. <<a>> \o <<b>> = <<a, b>>
  BY Two
<1>3. <<a, b>> \o <<c>> = <<a, b, c>>
  BY Three
<1>. QED BY <1>2, <1>3

LEMMA Chain4 ==
  ASSUME NEW a, NEW b, NEW c, NEW d
  PROVE  <<a>> \o <<b>> \o <<c>> \o <<d>> = <<a, b, c, d>>
<1>2. <<a>> \o <<b>> = <<a, b>>
  BY Two
<1>3. <<a, b>> \o <<c>> = <<a, b, c>>
  BY Three
<1>4. <<a, b, c>> \o <<d>> = <<a, b, c, d>>
  BY Four
<1>. QED BY <1>2, <1>3, <1>4

\* The one segment of a NAR hash, and of an API group.
NarSegment(n) == nar_hash_segment(n)[1]
GroupSegment(group) == IF group = <<>> THEN <<"core">> ELSE group

LEMMA NarSegments ==
  ASSUME NEW n \in Nars
  PROVE  nar_hash_segment(n) = <<NarSegment(n)>> /\ decode_nar(NarSegment(n)) = n
BY SchemeAssumption DEF NarSegment, nar_hash_segment, decode_nar, encode_segment

LEMMA GroupSegments ==
  ASSUME NEW group \in Groups
  PROVE  (IF GroupSegment(group) = <<"core">> THEN <<>> ELSE GroupSegment(group))
           = group
BY SchemeAssumption DEF GroupSegment

LEMMA SimpleIri ==
  ASSUME NEW kind \in {"drv", "out", "nixpkgs", "gen", "value", "pack"},
         NEW h \in Hashes
  PROVE  Iri(<<kind, h>>) = <<<<kind>>, h>>
BY Two, RawOfHash
   DEF Iri, OfK8s, Lit, nix_iri

LEMMA OfNarIri ==
  ASSUME NEW kind \in {"src", "pin"}, NEW n \in Nars
  PROVE  Iri(<<kind, n>>) = <<<<kind>>, NarSegment(n)>>
BY Two, NarSegments
   DEF Iri, OfK8s, Lit, nix_iri

LEMMA FlakeInputIri ==
  ASSUME NEW n \in Nars, NEW a \in Names, NEW b \in Names
  PROVE  Iri(<<"flake_input", n, a, b>>)
           = <<<<"pin">>, NarSegment(n), <<"input">>, a, b>>
<1>1. Iri(<<"flake_input", n, a, b>>)
        = <<<<"pin">>>> \o <<NarSegment(n)>> \o <<<<"input">>>> \o <<a>> \o <<b>>
  BY NarSegments DEF Iri, OfK8s, Lit, nix_iri, encode_segment, flake_input
<1>2. <<<<"pin">>>> \o <<NarSegment(n)>> \o <<<<"input">>>> \o <<a>> \o <<b>>
        = <<<<"pin">>, NarSegment(n), <<"input">>, a, b>>
  <2>1. <<<<"pin">>>> \o <<NarSegment(n)>> \o <<<<"input">>>> \o <<a>>
          = <<<<"pin">>, NarSegment(n), <<"input">>, a>>
    BY Chain4
  <2>2. <<<<"pin">>, NarSegment(n), <<"input">>, a>> \o <<b>>
          = <<<<"pin">>, NarSegment(n), <<"input">>, a, b>>
    BY Five
  <2>. QED BY <2>1, <2>2
<1>. QED BY <1>1, <1>2

LEMMA PinAttrIri ==
  ASSUME NEW n \in Nars, NEW a \in Names
  PROVE  Iri(<<"pin_attr", n, a>>) = <<<<"pin">>, NarSegment(n), <<"attr">>, a>>
<1>1. Iri(<<"pin_attr", n, a>>)
        = <<<<"pin">>>> \o <<NarSegment(n)>> \o <<<<"attr">>>> \o <<a>>
  BY NarSegments DEF Iri, OfK8s, Lit, nix_iri, encode_segment
<1>2. <<<<"pin">>>> \o <<NarSegment(n)>> \o <<<<"attr">>>> \o <<a>>
        = <<<<"pin">>, NarSegment(n), <<"attr">>, a>>
  BY Chain4
<1>. QED BY <1>1, <1>2

LEMMA ConfigurationIri ==
  ASSUME NEW n \in Nars, NEW a \in Names
  PROVE  Iri(<<"nixos_configuration", n, a>>)
           = <<<<"pin">>, NarSegment(n), <<"nixosConfigurations">>, a>>
<1>1. Iri(<<"nixos_configuration", n, a>>)
        = <<<<"pin">>>> \o <<NarSegment(n)>> \o <<<<"nixosConfigurations">>>> \o <<a>>
  BY NarSegments DEF Iri, OfK8s, Lit, nix_iri, encode_segment
<1>2. <<<<"pin">>>> \o <<NarSegment(n)>> \o <<<<"nixosConfigurations">>>> \o <<a>>
        = <<<<"pin">>, NarSegment(n), <<"nixosConfigurations">>, a>>
  BY Chain4
<1>. QED BY <1>1, <1>2

LEMMA NixpkgsAttrIri ==
  ASSUME NEW h \in Hashes, NEW a \in Names
  PROVE  Iri(<<"nixpkgs_attr", h, a>>) = <<<<"nixpkgs">>, h, <<"attr">>, a>>
<1>1. Iri(<<"nixpkgs_attr", h, a>>)
        = <<<<"nixpkgs">>>> \o <<h>> \o <<<<"attr">>>> \o <<a>>
  BY RawOfHash DEF Iri, OfK8s, Lit, nix_iri, encode_segment
<1>2. <<<<"nixpkgs">>>> \o <<h>> \o <<<<"attr">>>> \o <<a>>
        = <<<<"nixpkgs">>, h, <<"attr">>, a>>
  BY Chain4
<1>. QED BY <1>1, <1>2

LEMMA PackageVersionIri ==
  ASSUME NEW a \in Names, NEW b \in Names
  PROVE  Iri(<<"package_version", a, b>>) = <<<<"pkgver">>, a, b>>
BY Chain3
   DEF Iri, OfK8s, Lit, nix_iri, encode_segment

LEMMA NamedIri ==
  ASSUME NEW kind \in {"release", "option"}, NEW a \in Names
  PROVE  Iri(<<kind, a>>) = <<<<kind>>, a>>
BY Two
   DEF Iri, OfK8s, Lit, nix_iri, encode_segment

LEMMA CommitIri ==
  ASSUME NEW a \in Names, NEW h \in Hashes
  PROVE  Iri(<<"commit", a, h>>) = <<<<"git">>, a, h>>
BY Chain3, RawOfHash
   DEF Iri, OfK8s, Lit, nix_iri, encode_segment

LEMMA OptionValueIri ==
  ASSUME NEW h \in Hashes, NEW a \in Names
  PROVE  Iri(<<"option_value", h, a>>) = <<<<"gen">>, h, <<"opt">>, a>>
<1>1. Iri(<<"option_value", h, a>>)
        = <<<<"gen">>>> \o <<h>> \o <<<<"opt">>>> \o <<a>>
  BY RawOfHash DEF Iri, OfK8s, Lit, nix_iri, encode_segment
<1>2. <<<<"gen">>>> \o <<h>> \o <<<<"opt">>>> \o <<a>>
        = <<<<"gen">>, h, <<"opt">>, a>>
  BY Chain4
<1>. QED BY <1>1, <1>2

LEMMA OptionDefinitionIri ==
  ASSUME NEW h \in Hashes, NEW a \in Names, NEW g \in Hashes
  PROVE  Iri(<<"option_definition", h, a, g>>)
           = <<<<"gen">>, h, <<"opt">>, a, <<"def">>, g>>
<1>1. Iri(<<"option_definition", h, a, g>>)
        = <<<<"gen">>>> \o <<h>> \o <<<<"opt">>>> \o <<a>> \o <<<<"def">>>> \o <<g>>
  BY RawOfHash DEF Iri, OfK8s, Lit, nix_iri, encode_segment
<1>2. <<<<"gen">>>> \o <<h>> \o <<<<"opt">>>> \o <<a>> \o <<<<"def">>>> \o <<g>>
        = <<<<"gen">>, h, <<"opt">>, a, <<"def">>, g>>
  <2>1. <<<<"gen">>>> \o <<h>> \o <<<<"opt">>>> \o <<a>>
          = <<<<"gen">>, h, <<"opt">>, a>>
    BY Chain4
  <2>2. <<<<"gen">>, h, <<"opt">>, a>> \o <<<<"def">>>>
          = <<<<"gen">>, h, <<"opt">>, a, <<"def">>>>
    BY Five
  <2>3. <<<<"gen">>, h, <<"opt">>, a, <<"def">>>> \o <<g>>
          = <<<<"gen">>, h, <<"opt">>, a, <<"def">>, g>>
    BY Six
  <2>. QED BY <2>1, <2>2, <2>3
<1>. QED BY <1>1, <1>2

LEMMA ImageIri ==
  ASSUME NEW h \in Hashes
  PROVE  Iri(<<"image", h>>) = <<<<"oci">>, <<"sha256">>, h>>
BY Chain3, RawOfHash
   DEF Iri, OfK8s, Lit, nix_iri

LEMMA LayerIri ==
  ASSUME NEW h \in Hashes
  PROVE  Iri(<<"layer", h>>) = <<<<"oci">>, <<"layer">>, <<"sha256">>, h>>
<1>1. Iri(<<"layer", h>>)
        = <<<<"oci">>>> \o <<<<"layer">>>> \o <<<<"sha256">>>> \o <<h>>
  BY RawOfHash DEF Iri, OfK8s, Lit, nix_iri
<1>2. <<<<"oci">>>> \o <<<<"layer">>>> \o <<<<"sha256">>>> \o <<h>>
        = <<<<"oci">>, <<"layer">>, <<"sha256">>, h>>
  BY Chain4
<1>. QED BY <1>1, <1>2

LEMMA DerivedIri ==
  ASSUME NEW h \in Hashes, NEW g \in Hashes
  PROVE  Iri(<<"derived", h, g>>) = <<<<"derived">>, h \o g>>
BY Two
   DEF Iri, OfK8s, Lit, nix_iri, Joined

LEMMA OwnerIri ==
  ASSUME NEW a \in Names
  PROVE  Iri(<<"owner", a>>) = <<<<"org">>, <<"owner">>, a>>
BY Chain3
   DEF Iri, OfK8s, Lit, nix_iri, encode_segment

LEMMA ClusterIri ==
  ASSUME NEW a \in Names
  PROVE  Iri(<<"k8s_cluster", a>>) = <<<<"k8s">>, <<"cluster">>, a>>
BY Chain3
   DEF Iri, OfK8s, Lit, k8s_iri, encode_segment

LEMMA NodeIri ==
  ASSUME NEW a \in Names, NEW b \in Names
  PROVE  Iri(<<"k8s_node", a, b>>) = <<<<"k8s">>, a, <<"node">>, b>>
<1>1. Iri(<<"k8s_node", a, b>>)
        = <<<<"k8s">>>> \o <<a>> \o <<<<"node">>>> \o <<b>>
  BY DEF Iri, OfK8s, Lit, k8s_iri, encode_segment
<1>2. <<<<"k8s">>>> \o <<a>> \o <<<<"node">>>> \o <<b>>
        = <<<<"k8s">>, a, <<"node">>, b>>
  BY Chain4
<1>. QED BY <1>1, <1>2

LEMMA NamespaceIri ==
  ASSUME NEW a \in Names, NEW b \in Names
  PROVE  Iri(<<"k8s_namespace", a, b>>) = <<<<"k8s">>, a, <<"ns">>, b>>
<1>1. Iri(<<"k8s_namespace", a, b>>)
        = <<<<"k8s">>>> \o <<a>> \o <<<<"ns">>>> \o <<b>>
  BY DEF Iri, OfK8s, Lit, k8s_iri, encode_segment
<1>2. <<<<"k8s">>>> \o <<a>> \o <<<<"ns">>>> \o <<b>>
        = <<<<"k8s">>, a, <<"ns">>, b>>
  BY Chain4
<1>. QED BY <1>1, <1>2

LEMMA ServiceIri ==
  ASSUME NEW a \in Names, NEW b \in Names, NEW c \in Names
  PROVE  Iri(<<"k8s_service", a, b, c>>) = <<<<"k8s">>, a, <<"service">>, b, c>>
<1>1. Iri(<<"k8s_service", a, b, c>>)
        = <<<<"k8s">>>> \o <<a>> \o <<<<"service">>>> \o <<b>> \o <<c>>
  BY DEF Iri, OfK8s, Lit, k8s_iri, encode_segment
<1>2. <<<<"k8s">>>> \o <<a>> \o <<<<"service">>>> \o <<b>> \o <<c>>
        = <<<<"k8s">>, a, <<"service">>, b, c>>
  <2>1. <<<<"k8s">>>> \o <<a>> \o <<<<"service">>>> \o <<b>>
          = <<<<"k8s">>, a, <<"service">>, b>>
    BY Chain4
  <2>2. <<<<"k8s">>, a, <<"service">>, b>> \o <<c>>
          = <<<<"k8s">>, a, <<"service">>, b, c>>
    BY Five
  <2>. QED BY <2>1, <2>2
<1>. QED BY <1>1, <1>2

LEMMA ContainerIri ==
  ASSUME NEW a \in Names, NEW b \in Names, NEW c \in Names, NEW d \in Names
  PROVE  Iri(<<"k8s_container", a, b, c, d>>)
           = <<<<"k8s">>, a, <<"deployment">>, b, c, <<"c">>, d>>
<1>1. Iri(<<"k8s_container", a, b, c, d>>)
        = <<<<"k8s">>>> \o <<a>> \o <<<<"deployment">>>> \o <<b>> \o <<c>>
           \o <<<<"c">>>> \o <<d>>
  BY DEF Iri, OfK8s, Lit, k8s_iri, encode_segment
<1>2. <<<<"k8s">>>> \o <<a>> \o <<<<"deployment">>>> \o <<b>> \o <<c>>
        \o <<<<"c">>>> \o <<d>>
        = <<<<"k8s">>, a, <<"deployment">>, b, c, <<"c">>, d>>
  <2>1. <<<<"k8s">>>> \o <<a>> \o <<<<"deployment">>>> \o <<b>>
          = <<<<"k8s">>, a, <<"deployment">>, b>>
    BY Chain4
  <2>2. <<<<"k8s">>, a, <<"deployment">>, b>> \o <<c>>
          = <<<<"k8s">>, a, <<"deployment">>, b, c>>
    BY Five
  <2>3. <<<<"k8s">>, a, <<"deployment">>, b, c>> \o <<<<"c">>>>
          = <<<<"k8s">>, a, <<"deployment">>, b, c, <<"c">>>>
    BY Six
  <2>4. <<<<"k8s">>, a, <<"deployment">>, b, c, <<"c">>>> \o <<d>>
          = <<<<"k8s">>, a, <<"deployment">>, b, c, <<"c">>, d>>
    BY Seven
  <2>. QED BY <2>1, <2>2, <2>3, <2>4
<1>. QED BY <1>1, <1>2

LEMMA SnapshotIri ==
  ASSUME NEW a \in Names, NEW h \in Hashes
  PROVE  Iri(<<"k8s_snapshot", a, h>>) = <<<<"k8s">>, a, <<"snapshot">>, h>>
<1>1. Iri(<<"k8s_snapshot", a, h>>)
        = <<<<"k8s">>>> \o <<a>> \o <<<<"snapshot">>>> \o <<h>>
  BY RawOfHash DEF Iri, OfK8s, Lit, k8s_iri, encode_segment
<1>2. <<<<"k8s">>>> \o <<a>> \o <<<<"snapshot">>>> \o <<h>>
        = <<<<"k8s">>, a, <<"snapshot">>, h>>
  BY Chain4
<1>. QED BY <1>1, <1>2

LEMMA NodesIri ==
  ASSUME NEW a \in Names, NEW h \in Hashes
  PROVE  Iri(<<"k8s_nodes_fragment", a, h>>) = <<<<"k8s">>, a, <<"nodes">>, h>>
<1>1. Iri(<<"k8s_nodes_fragment", a, h>>)
        = <<<<"k8s">>>> \o <<a>> \o <<<<"nodes">>>> \o <<h>>
  BY RawOfHash DEF Iri, OfK8s, Lit, k8s_iri, encode_segment
<1>2. <<<<"k8s">>>> \o <<a>> \o <<<<"nodes">>>> \o <<h>>
        = <<<<"k8s">>, a, <<"nodes">>, h>>
  BY Chain4
<1>. QED BY <1>1, <1>2

LEMMA ZoneIri ==
  ASSUME NEW a \in Names, NEW b \in Names
  PROVE  Iri(<<"k8s_zone", a, b>>) = <<<<"k8s">>, a, <<"domain">>, <<"zone">>, b>>
<1>1. Iri(<<"k8s_zone", a, b>>)
        = <<<<"k8s">>>> \o <<a>> \o <<<<"domain">>>> \o <<<<"zone">>>> \o <<b>>
  BY DEF Iri, OfK8s, Lit, k8s_iri, encode_segment
<1>2. <<<<"k8s">>>> \o <<a>> \o <<<<"domain">>>> \o <<<<"zone">>>> \o <<b>>
        = <<<<"k8s">>, a, <<"domain">>, <<"zone">>, b>>
  <2>1. <<<<"k8s">>>> \o <<a>> \o <<<<"domain">>>> \o <<<<"zone">>>>
          = <<<<"k8s">>, a, <<"domain">>, <<"zone">>>>
    BY Chain4
  <2>2. <<<<"k8s">>, a, <<"domain">>, <<"zone">>>> \o <<b>>
          = <<<<"k8s">>, a, <<"domain">>, <<"zone">>, b>>
    BY Five
  <2>. QED BY <2>1, <2>2
<1>. QED BY <1>1, <1>2

LEMMA PermissionIri ==
  ASSUME NEW a \in Names, NEW p \in Groups, NEW b \in Names, NEW c \in Names
  PROVE  Iri(<<"k8s_permission", a, p, b, c>>)
           = <<<<"k8s">>, a, <<"permission">>, GroupSegment(p), b, c>>
<1>1. Iri(<<"k8s_permission", a, p, b, c>>)
        = <<<<"k8s">>>> \o <<a>> \o <<<<"permission">>>> \o <<GroupSegment(p)>>
           \o <<b>> \o <<c>>
  BY DEF Iri, OfK8s, Lit, k8s_iri, encode_segment, GroupSegment
<1>2. <<<<"k8s">>>> \o <<a>> \o <<<<"permission">>>> \o <<GroupSegment(p)>>
        \o <<b>> \o <<c>>
        = <<<<"k8s">>, a, <<"permission">>, GroupSegment(p), b, c>>
  <2>1. <<<<"k8s">>>> \o <<a>> \o <<<<"permission">>>> \o <<GroupSegment(p)>>
          = <<<<"k8s">>, a, <<"permission">>, GroupSegment(p)>>
    BY Chain4
  <2>2. <<<<"k8s">>, a, <<"permission">>, GroupSegment(p)>> \o <<b>>
          = <<<<"k8s">>, a, <<"permission">>, GroupSegment(p), b>>
    BY Five
  <2>3. <<<<"k8s">>, a, <<"permission">>, GroupSegment(p), b>> \o <<c>>
          = <<<<"k8s">>, a, <<"permission">>, GroupSegment(p), b, c>>
    BY Six
  <2>. QED BY <2>1, <2>2, <2>3
<1>. QED BY <1>1, <1>2

\* What an entity is.
LEMMA EntityForms ==
  ASSUME NEW e \in Entities
  PROVE  \/ e \in {"drv", "out", "nixpkgs", "gen", "value", "pack"} \X Hashes
         \/ e \in {"src", "pin"} \X Nars
         \/ e \in {"flake_input"} \X Nars \X Names \X Names
         \/ e \in {"pin_attr"} \X Nars \X Names
         \/ e \in {"nixos_configuration"} \X Nars \X Names
         \/ e \in {"nixpkgs_attr"} \X Hashes \X Names
         \/ e \in {"package_version"} \X Names \X Names
         \/ e \in {"release", "option"} \X Names
         \/ e \in {"commit"} \X Names \X Hashes
         \/ e \in {"option_value"} \X Hashes \X Names
         \/ e \in {"option_definition"} \X Hashes \X Names \X Hashes
         \/ e \in {"image"} \X Hashes
         \/ e \in {"layer"} \X Hashes
         \/ e \in {"derived"} \X Hashes \X Hashes
         \/ e \in {"owner"} \X Names
         \/ e \in {"k8s_cluster"} \X Names
         \/ e \in {"k8s_node"} \X Names \X Names
         \/ e \in {"k8s_namespace"} \X Names \X Names
         \/ e \in {"k8s_service"} \X Names \X Names \X Names
         \/ e \in {"k8s_container"} \X Names \X Names \X Names \X Names
         \/ e \in {"k8s_snapshot"} \X Names \X Hashes
         \/ e \in {"k8s_nodes_fragment"} \X Names \X Hashes
         \/ e \in {"k8s_zone"} \X Names \X Names
         \/ e \in {"k8s_permission"} \X Names \X Groups \X Names \X Names
<1>1. \/ e \in {"drv", "out", "nixpkgs", "gen", "value", "image", "layer", "pack"}
           \X Hashes
      \/ e \in {"release", "option", "owner", "k8s_cluster"} \X Names
      \/ e \in {"src", "pin"} \X Nars
      \/ e \in {"pin_attr", "nixos_configuration"} \X Nars \X Names
      \/ e \in {"flake_input"} \X Nars \X Names \X Names
      \/ e \in {"nixpkgs_attr", "option_value"} \X Hashes \X Names
      \/ e \in {"package_version"} \X Names \X Names
      \/ e \in {"commit", "k8s_snapshot", "k8s_nodes_fragment"} \X Names \X Hashes
      \/ e \in {"derived"} \X Hashes \X Hashes
      \/ e \in {"option_definition"} \X Hashes \X Names \X Hashes
      \/ e \in {"k8s_node", "k8s_namespace", "k8s_zone"} \X Names \X Names
      \/ e \in {"k8s_service"} \X Names \X Names \X Names
      \/ e \in {"k8s_container"} \X Names \X Names \X Names \X Names
      \/ e \in {"k8s_permission"} \X Names \X Groups \X Names \X Names
  BY DEF Entities
<1>2. e \in {"drv", "out", "nixpkgs", "gen", "value", "image", "layer", "pack"}
        \X Hashes =>
         \/ e \in {"drv", "out", "nixpkgs", "gen", "value", "pack"} \X Hashes
         \/ e \in {"image"} \X Hashes
         \/ e \in {"layer"} \X Hashes
  OBVIOUS
<1>3. e \in {"release", "option", "owner", "k8s_cluster"} \X Names =>
         \/ e \in {"release", "option"} \X Names
         \/ e \in {"owner"} \X Names
         \/ e \in {"k8s_cluster"} \X Names
  OBVIOUS
<1>4. e \in {"pin_attr", "nixos_configuration"} \X Nars \X Names =>
         \/ e \in {"pin_attr"} \X Nars \X Names
         \/ e \in {"nixos_configuration"} \X Nars \X Names
  OBVIOUS
<1>5. e \in {"nixpkgs_attr", "option_value"} \X Hashes \X Names =>
         \/ e \in {"nixpkgs_attr"} \X Hashes \X Names
         \/ e \in {"option_value"} \X Hashes \X Names
  OBVIOUS
<1>6. e \in {"commit", "k8s_snapshot", "k8s_nodes_fragment"} \X Names \X Hashes =>
         \/ e \in {"commit"} \X Names \X Hashes
         \/ e \in {"k8s_snapshot"} \X Names \X Hashes
         \/ e \in {"k8s_nodes_fragment"} \X Names \X Hashes
  OBVIOUS
<1>7. e \in {"k8s_node", "k8s_namespace", "k8s_zone"} \X Names \X Names =>
         \/ e \in {"k8s_node"} \X Names \X Names
         \/ e \in {"k8s_namespace"} \X Names \X Names
         \/ e \in {"k8s_zone"} \X Names \X Names
  OBVIOUS
<1>. QED BY <1>1, <1>2, <1>3, <1>4, <1>5, <1>6, <1>7, Zenon

-----------------------------------------------------------------------------
(***************************************************************************)
(* What an IRI was made for.                                               *)
(***************************************************************************)
EntityOf(iri) ==
  LET word == iri[1][1]
      nar == decode_nar(iri[2])
  IN CASE word \in {"drv", "out", "value", "pack", "release", "option"} ->
            <<word, iri[2]>>
       [] word = "nixpkgs" ->
            IF Len(iri) = 2 THEN <<"nixpkgs", iri[2]>>
            ELSE <<"nixpkgs_attr", iri[2], iri[4]>>
       [] word = "gen" ->
            IF Len(iri) = 2 THEN <<"gen", iri[2]>>
            ELSE IF Len(iri) = 4 THEN <<"option_value", iri[2], iri[4]>>
            ELSE <<"option_definition", iri[2], iri[4], iri[6]>>
       [] word = "src" -> <<"src", nar>>
       [] word = "pin" ->
            IF Len(iri) = 2 THEN <<"pin", nar>>
            ELSE IF Len(iri) = 5 THEN <<"flake_input", nar, iri[4], iri[5]>>
            ELSE <<IF iri[3] = <<"attr">> THEN "pin_attr" ELSE "nixos_configuration", nar,
                   iri[4]>>
       [] word = "pkgver" -> <<"package_version", iri[2], iri[3]>>
       [] word = "git" -> <<"commit", iri[2], iri[3]>>
       [] word = "oci" ->
            IF Len(iri) = 3 THEN <<"image", iri[3]>> ELSE <<"layer", iri[4]>>
       [] word = "derived" -> <<"derived", <<iri[2][1]>>, <<iri[2][2]>>>>
       [] word = "org" -> <<"owner", iri[3]>>
       [] word = "k8s" ->
            IF Len(iri) = 3 THEN <<"k8s_cluster", iri[3]>>
            ELSE CASE iri[3] = <<"node">> -> <<"k8s_node", iri[2], iri[4]>>
                   [] iri[3] = <<"ns">> -> <<"k8s_namespace", iri[2], iri[4]>>
                   [] iri[3] = <<"service">> -> <<"k8s_service", iri[2], iri[4], iri[5]>>
                   [] iri[3] = <<"deployment">> ->
                        <<"k8s_container", iri[2], iri[4], iri[5], iri[7]>>
                   [] iri[3] = <<"snapshot">> -> <<"k8s_snapshot", iri[2], iri[4]>>
                   [] iri[3] = <<"nodes">> -> <<"k8s_nodes_fragment", iri[2], iri[4]>>
                   [] iri[3] = <<"domain">> -> <<"k8s_zone", iri[2], iri[5]>>
                   [] iri[3] = <<"permission">> ->
                        <<"k8s_permission", iri[2],
                          IF iri[4] = <<"core">> THEN <<>> ELSE iri[4], iri[5], iri[6]>>

\* Every entity can be told from its IRI.
LEMMA ReadsBack ==
  ASSUME NEW e \in Entities
  PROVE  EntityOf(Iri(e)) = e
<1>1. CASE e \in {"drv", "out", "nixpkgs", "gen", "value", "pack"} \X Hashes
  <2>1. /\ e = <<e[1], e[2]>>
        /\ e[1] \in {"drv", "out", "nixpkgs", "gen", "value", "pack"} /\ e[2] \in Hashes
    BY <1>1
  <2>2. Iri(e) = <<<<e[1]>>, e[2]>>
    BY <2>1, SimpleIri
  <2>. QED BY <2>1, <2>2 DEF EntityOf
<1>2. CASE e \in {"src", "pin"} \X Nars
  <2>1. e = <<e[1], e[2]>> /\ e[1] \in {"src", "pin"} /\ e[2] \in Nars
    BY <1>2
  <2>2. Iri(e) = <<<<e[1]>>, NarSegment(e[2])>>
    BY <2>1, OfNarIri
  <2>. QED BY <2>1, <2>2, NarSegments DEF EntityOf
<1>3. CASE e \in {"flake_input"} \X Nars \X Names \X Names
  <2>1. /\ e = <<"flake_input", e[2], e[3], e[4]>>
        /\ e[2] \in Nars /\ e[3] \in Names /\ e[4] \in Names
    BY <1>3
  <2>2. Iri(e) = <<<<"pin">>, NarSegment(e[2]), <<"input">>, e[3], e[4]>>
    BY <2>1, FlakeInputIri
  <2>. QED BY <2>1, <2>2, NarSegments DEF EntityOf
<1>4. CASE e \in {"pin_attr"} \X Nars \X Names
  <2>1. e = <<"pin_attr", e[2], e[3]>> /\ e[2] \in Nars /\ e[3] \in Names
    BY <1>4
  <2>2. Iri(e) = <<<<"pin">>, NarSegment(e[2]), <<"attr">>, e[3]>>
    BY <2>1, PinAttrIri
  <2>. QED BY <2>1, <2>2, NarSegments DEF EntityOf
<1>5. CASE e \in {"nixos_configuration"} \X Nars \X Names
  <2>1. e = <<"nixos_configuration", e[2], e[3]>> /\ e[2] \in Nars /\ e[3] \in Names
    BY <1>5
  <2>2. Iri(e) = <<<<"pin">>, NarSegment(e[2]), <<"nixosConfigurations">>, e[3]>>
    BY <2>1, ConfigurationIri
  <2>. QED BY <2>1, <2>2, NarSegments DEF EntityOf
<1>6. CASE e \in {"nixpkgs_attr"} \X Hashes \X Names
  <2>1. e = <<"nixpkgs_attr", e[2], e[3]>> /\ e[2] \in Hashes /\ e[3] \in Names
    BY <1>6
  <2>2. Iri(e) = <<<<"nixpkgs">>, e[2], <<"attr">>, e[3]>>
    BY <2>1, NixpkgsAttrIri
  <2>. QED BY <2>1, <2>2 DEF EntityOf
<1>7. CASE e \in {"package_version"} \X Names \X Names
  <2>1. e = <<"package_version", e[2], e[3]>> /\ e[2] \in Names /\ e[3] \in Names
    BY <1>7
  <2>2. Iri(e) = <<<<"pkgver">>, e[2], e[3]>>
    BY <2>1, PackageVersionIri
  <2>. QED BY <2>1, <2>2 DEF EntityOf
<1>8. CASE e \in {"release", "option"} \X Names
  <2>1. e = <<e[1], e[2]>> /\ e[1] \in {"release", "option"} /\ e[2] \in Names
    BY <1>8
  <2>2. Iri(e) = <<<<e[1]>>, e[2]>>
    BY <2>1, NamedIri
  <2>. QED BY <2>1, <2>2 DEF EntityOf
<1>9. CASE e \in {"commit"} \X Names \X Hashes
  <2>1. e = <<"commit", e[2], e[3]>> /\ e[2] \in Names /\ e[3] \in Hashes
    BY <1>9
  <2>2. Iri(e) = <<<<"git">>, e[2], e[3]>>
    BY <2>1, CommitIri
  <2>. QED BY <2>1, <2>2 DEF EntityOf
<1>10. CASE e \in {"option_value"} \X Hashes \X Names
  <2>1. e = <<"option_value", e[2], e[3]>> /\ e[2] \in Hashes /\ e[3] \in Names
    BY <1>10
  <2>2. Iri(e) = <<<<"gen">>, e[2], <<"opt">>, e[3]>>
    BY <2>1, OptionValueIri
  <2>. QED BY <2>1, <2>2 DEF EntityOf
<1>11. CASE e \in {"option_definition"} \X Hashes \X Names \X Hashes
  <2>1. /\ e = <<"option_definition", e[2], e[3], e[4]>>
        /\ e[2] \in Hashes /\ e[3] \in Names /\ e[4] \in Hashes
    BY <1>11
  <2>2. Iri(e) = <<<<"gen">>, e[2], <<"opt">>, e[3], <<"def">>, e[4]>>
    BY <2>1, OptionDefinitionIri
  <2>. QED BY <2>1, <2>2 DEF EntityOf
<1>12. CASE e \in {"image"} \X Hashes
  <2>1. e = <<"image", e[2]>> /\ e[2] \in Hashes
    BY <1>12
  <2>2. Iri(e) = <<<<"oci">>, <<"sha256">>, e[2]>>
    BY <2>1, ImageIri
  <2>. QED BY <2>1, <2>2 DEF EntityOf
<1>13. CASE e \in {"layer"} \X Hashes
  <2>1. e = <<"layer", e[2]>> /\ e[2] \in Hashes
    BY <1>13
  <2>2. Iri(e) = <<<<"oci">>, <<"layer">>, <<"sha256">>, e[2]>>
    BY <2>1, LayerIri
  <2>. QED BY <2>1, <2>2 DEF EntityOf
<1>14. CASE e \in {"derived"} \X Hashes \X Hashes
  <2>1. e = <<"derived", e[2], e[3]>> /\ e[2] \in Hashes /\ e[3] \in Hashes
    BY <1>14
  <2>2. Iri(e) = <<<<"derived">>, e[2] \o e[3]>>
    BY <2>1, DerivedIri
  <2>. QED BY <2>1, <2>2, SchemeAssumption DEF EntityOf
<1>15. CASE e \in {"owner"} \X Names
  <2>1. e = <<"owner", e[2]>> /\ e[2] \in Names
    BY <1>15
  <2>2. Iri(e) = <<<<"org">>, <<"owner">>, e[2]>>
    BY <2>1, OwnerIri
  <2>. QED BY <2>1, <2>2 DEF EntityOf
<1>16. CASE e \in {"k8s_cluster"} \X Names
  <2>1. e = <<"k8s_cluster", e[2]>> /\ e[2] \in Names
    BY <1>16
  <2>2. Iri(e) = <<<<"k8s">>, <<"cluster">>, e[2]>>
    BY <2>1, ClusterIri
  <2>. QED BY <2>1, <2>2 DEF EntityOf
<1>17. CASE e \in {"k8s_node"} \X Names \X Names
  <2>1. e = <<"k8s_node", e[2], e[3]>> /\ e[2] \in Names /\ e[3] \in Names
    BY <1>17
  <2>2. Iri(e) = <<<<"k8s">>, e[2], <<"node">>, e[3]>>
    BY <2>1, NodeIri
  <2>. QED BY <2>1, <2>2 DEF EntityOf
<1>18. CASE e \in {"k8s_namespace"} \X Names \X Names
  <2>1. e = <<"k8s_namespace", e[2], e[3]>> /\ e[2] \in Names /\ e[3] \in Names
    BY <1>18
  <2>2. Iri(e) = <<<<"k8s">>, e[2], <<"ns">>, e[3]>>
    BY <2>1, NamespaceIri
  <2>. QED BY <2>1, <2>2 DEF EntityOf
<1>19. CASE e \in {"k8s_service"} \X Names \X Names \X Names
  <2>1. /\ e = <<"k8s_service", e[2], e[3], e[4]>>
        /\ e[2] \in Names /\ e[3] \in Names /\ e[4] \in Names
    BY <1>19
  <2>2. Iri(e) = <<<<"k8s">>, e[2], <<"service">>, e[3], e[4]>>
    BY <2>1, ServiceIri
  <2>. QED BY <2>1, <2>2 DEF EntityOf
<1>20. CASE e \in {"k8s_container"} \X Names \X Names \X Names \X Names
  <2>1. /\ e = <<"k8s_container", e[2], e[3], e[4], e[5]>>
        /\ e[2] \in Names /\ e[3] \in Names /\ e[4] \in Names /\ e[5] \in Names
    BY <1>20
  <2>2. Iri(e) = <<<<"k8s">>, e[2], <<"deployment">>, e[3], e[4], <<"c">>, e[5]>>
    BY <2>1, ContainerIri
  <2>. QED BY <2>1, <2>2 DEF EntityOf
<1>21. CASE e \in {"k8s_snapshot"} \X Names \X Hashes
  <2>1. e = <<"k8s_snapshot", e[2], e[3]>> /\ e[2] \in Names /\ e[3] \in Hashes
    BY <1>21
  <2>2. Iri(e) = <<<<"k8s">>, e[2], <<"snapshot">>, e[3]>>
    BY <2>1, SnapshotIri
  <2>. QED BY <2>1, <2>2 DEF EntityOf
<1>22. CASE e \in {"k8s_nodes_fragment"} \X Names \X Hashes
  <2>1. e = <<"k8s_nodes_fragment", e[2], e[3]>> /\ e[2] \in Names /\ e[3] \in Hashes
    BY <1>22
  <2>2. Iri(e) = <<<<"k8s">>, e[2], <<"nodes">>, e[3]>>
    BY <2>1, NodesIri
  <2>. QED BY <2>1, <2>2 DEF EntityOf
<1>23. CASE e \in {"k8s_zone"} \X Names \X Names
  <2>1. e = <<"k8s_zone", e[2], e[3]>> /\ e[2] \in Names /\ e[3] \in Names
    BY <1>23
  <2>2. Iri(e) = <<<<"k8s">>, e[2], <<"domain">>, <<"zone">>, e[3]>>
    BY <2>1, ZoneIri
  <2>. QED BY <2>1, <2>2 DEF EntityOf
<1>24. CASE e \in {"k8s_permission"} \X Names \X Groups \X Names \X Names
  <2>1. /\ e = <<"k8s_permission", e[2], e[3], e[4], e[5]>>
        /\ e[2] \in Names /\ e[3] \in Groups /\ e[4] \in Names /\ e[5] \in Names
    BY <1>24
  <2>2. Iri(e) = <<<<"k8s">>, e[2], <<"permission">>, GroupSegment(e[3]), e[4], e[5]>>
    BY <2>1, PermissionIri
  <2>. QED BY <2>1, <2>2, GroupSegments DEF EntityOf
<1>25. \/ e \in {"drv", "out", "nixpkgs", "gen", "value", "pack"} \X Hashes
       \/ e \in {"src", "pin"} \X Nars
       \/ e \in {"flake_input"} \X Nars \X Names \X Names
       \/ e \in {"pin_attr"} \X Nars \X Names
       \/ e \in {"nixos_configuration"} \X Nars \X Names
       \/ e \in {"nixpkgs_attr"} \X Hashes \X Names
       \/ e \in {"package_version"} \X Names \X Names
       \/ e \in {"release", "option"} \X Names
       \/ e \in {"commit"} \X Names \X Hashes
       \/ e \in {"option_value"} \X Hashes \X Names
       \/ e \in {"option_definition"} \X Hashes \X Names \X Hashes
       \/ e \in {"image"} \X Hashes
       \/ e \in {"layer"} \X Hashes
       \/ e \in {"derived"} \X Hashes \X Hashes
       \/ e \in {"owner"} \X Names
       \/ e \in {"k8s_cluster"} \X Names
       \/ e \in {"k8s_node"} \X Names \X Names
       \/ e \in {"k8s_namespace"} \X Names \X Names
       \/ e \in {"k8s_service"} \X Names \X Names \X Names
       \/ e \in {"k8s_container"} \X Names \X Names \X Names \X Names
       \/ e \in {"k8s_snapshot"} \X Names \X Hashes
       \/ e \in {"k8s_nodes_fragment"} \X Names \X Hashes
       \/ e \in {"k8s_zone"} \X Names \X Names
       \/ e \in {"k8s_permission"} \X Names \X Groups \X Names \X Names
  BY EntityForms
<1>. QED BY <1>1, <1>2, <1>3, <1>4, <1>5, <1>6, <1>7, <1>8, <1>9, <1>10, <1>11,
   <1>12, <1>13, <1>14, <1>15, <1>16, <1>17, <1>18, <1>19, <1>20, <1>21, <1>22,
   <1>23, <1>24, <1>25, Zenon

-----------------------------------------------------------------------------
(***************************************************************************)
(* The paths and the graphs of fragment.rs, kind by kind.                  *)
(***************************************************************************)
LEMMA TwoAndThree ==
  ASSUME NEW a, NEW b, NEW c, NEW d, NEW e
  PROVE  (<<a>> \o <<b>>) \o (<<c>> \o <<d>> \o <<e>>) = <<a, b, c, d, e>>
<1> DEFINE S == {a, b, c, d, e}
           u == <<a, b>>
           v == <<c, d, e>>
           t == <<a, b, c, d, e>>
<1>1. u \in Seq(S) /\ v \in Seq(S) /\ t \in Seq(S) /\ Len(u) = 2 /\ Len(v)
        = 3 /\ Len(t) = 5
  OBVIOUS
<1>2. /\ u[1] = t[1] /\ u[2] = t[2]
      /\ v[1] = t[3] /\ v[2] = t[4] /\ v[3] = t[5]
  OBVIOUS
<1>. HIDE DEF S, u, v, t
<1>3. /\ u \o v \in Seq(S)
      /\ Len(u \o v) = Len(u) + Len(v)
      /\ \A i \in 1 .. Len(u) + Len(v) :
           (u \o v)[i] = IF i <= Len(u) THEN u[i] ELSE v[i - Len(u)]
  <2>. u \in Seq(S) /\ v \in Seq(S)
    BY <1>1
  <2>. QED BY ConcatProperties
<1>4. Len(u \o v) = Len(t)
  BY <1>1, <1>3
<1>5. \A i \in 1 .. Len(u \o v) : (u \o v)[i] = t[i]
  BY <1>1, <1>2, <1>3
<1>6. u \o v = t
  BY <1>1, <1>3, <1>4, <1>5, SeqEqual
<1>7. <<a>> \o <<b>> = u /\ <<c>> \o <<d>> \o <<e>> = v
  BY Two, Chain3 DEF u, v
<1>. QED BY <1>6, <1>7 DEF t

LEMMA DrvNames ==
  ASSUME NEW h \in Hashes
  PROVE  /\ graph(<<"Drv", h>>) = <<<<"drv">>, h>>
         /\ relative_path(<<"Drv", h>>) = <<<<"drv">>, h>>
<1>1. graph(<<"Drv", h>>) = <<<<"drv">>, h>>
  BY SimpleIri DEF graph
<1>2. relative_path(<<"Drv", h>>) = <<<<"drv">>, h>>
  BY Two, RawOfHash DEF relative_path, Lit
<1>. QED BY <1>1, <1>2

LEMMA OutNames ==
  ASSUME NEW h \in Hashes
  PROVE  /\ graph(<<"Out", h>>) = <<<<"fragment">>, <<"out">>, h>>
         /\ relative_path(<<"Out", h>>) = <<<<"out">>, h>>
<1>1. graph(<<"Out", h>>) = <<<<"fragment">>, <<"out">>, h>>
  BY Chain3, RawOfHash DEF graph, fragment_iri, Lit
<1>2. relative_path(<<"Out", h>>) = <<<<"out">>, h>>
  BY Two, RawOfHash DEF relative_path, Lit
<1>. QED BY <1>1, <1>2

LEMMA NixpkgsNames ==
  ASSUME NEW h \in Hashes
  PROVE  /\ graph(<<"Nixpkgs", h>>) = <<<<"nixpkgs">>, h>>
         /\ relative_path(<<"Nixpkgs", h>>) = <<<<"nixpkgs">>, h>>
<1>1. graph(<<"Nixpkgs", h>>) = <<<<"nixpkgs">>, h>>
  BY SimpleIri DEF graph
<1>2. relative_path(<<"Nixpkgs", h>>) = <<<<"nixpkgs">>, h>>
  BY Two, RawOfHash DEF relative_path, Lit
<1>. QED BY <1>1, <1>2

LEMMA GenNames ==
  ASSUME NEW h \in Hashes
  PROVE  /\ graph(<<"Gen", h>>) = <<<<"gen">>, h>>
         /\ relative_path(<<"Gen", h>>) = <<<<"gen">>, h>>
<1>1. graph(<<"Gen", h>>) = <<<<"gen">>, h>>
  BY SimpleIri DEF graph
<1>2. relative_path(<<"Gen", h>>) = <<<<"gen">>, h>>
  BY Two, RawOfHash DEF relative_path, Lit
<1>. QED BY <1>1, <1>2

LEMMA ImageNames ==
  ASSUME NEW h \in Hashes
  PROVE  /\ graph(<<"Image", h>>) = <<<<"oci">>, <<"sha256">>, h>>
         /\ relative_path(<<"Image", h>>) = <<<<"image">>, h>>
<1>1. graph(<<"Image", h>>) = <<<<"oci">>, <<"sha256">>, h>>
  BY ImageIri DEF graph
<1>2. relative_path(<<"Image", h>>) = <<<<"image">>, h>>
  BY Two, RawOfHash DEF relative_path, Lit
<1>. QED BY <1>1, <1>2

LEMMA IndexNames ==
  ASSUME NEW h \in Hashes
  PROVE  /\ graph(<<"Index", h>>)
              = <<<<"fragment">>, <<"index">>, <<"nixpkgs-multiverse">> \o h>>
         /\ relative_path(<<"Index", h>>)
              = <<<<"index">>, <<"nixpkgs-multiverse">> \o h>>
<1>1. graph(<<"Index", h>>)
        = <<<<"fragment">>, <<"index">>, <<"nixpkgs-multiverse">> \o h>>
  BY Chain3 DEF graph, fragment_iri, Lit, Joined
<1>2. relative_path(<<"Index", h>>) = <<<<"index">>, <<"nixpkgs-multiverse">> \o h>>
  BY Two DEF relative_path, Lit, Joined
<1>. QED BY <1>1, <1>2

LEMMA ValueNames ==
  ASSUME NEW h \in Hashes
  PROVE  /\ graph(<<"Value", h>>) = <<<<"fragment">>, <<"values">>, h>>
         /\ relative_path(<<"Value", h>>) = <<<<"values">>, h>>
<1>1. graph(<<"Value", h>>) = <<<<"fragment">>, <<"values">>, h>>
  BY Chain3, RawOfHash DEF graph, fragment_iri, Lit
<1>2. relative_path(<<"Value", h>>) = <<<<"values">>, h>>
  BY Two, RawOfHash DEF relative_path, Lit
<1>. QED BY <1>1, <1>2

LEMMA EnvNames ==
  ASSUME NEW h \in Hashes
  PROVE  /\ graph(<<"Env", h>>) = <<<<"fragment">>, <<"env">>, h>>
         /\ relative_path(<<"Env", h>>) = <<<<"env">>, h>>
<1>1. graph(<<"Env", h>>) = <<<<"fragment">>, <<"env">>, h>>
  BY Chain3, RawOfHash DEF graph, fragment_iri, Lit
<1>2. relative_path(<<"Env", h>>) = <<<<"env">>, h>>
  BY Two, RawOfHash DEF relative_path, Lit
<1>. QED BY <1>1, <1>2

LEMMA SrcNames ==
  ASSUME NEW n \in Nars
  PROVE  /\ graph(<<"Src", n>>) = <<<<"src">>, NarSegment(n)>>
         /\ relative_path(<<"Src", n>>) = <<<<"src">>, NarSegment(n)>>
<1>1. graph(<<"Src", n>>) = <<<<"src">>, NarSegment(n)>>
  BY OfNarIri DEF graph
<1>2. relative_path(<<"Src", n>>) = <<<<"src">>, NarSegment(n)>>
  BY Two, NarSegments DEF relative_path, Lit
<1>. QED BY <1>1, <1>2

LEMMA PinNames ==
  ASSUME NEW n \in Nars
  PROVE  /\ graph(<<"Pin", n>>) = <<<<"pin">>, NarSegment(n)>>
         /\ relative_path(<<"Pin", n>>) = <<<<"pin">>, NarSegment(n)>>
<1>1. graph(<<"Pin", n>>) = <<<<"pin">>, NarSegment(n)>>
  BY OfNarIri DEF graph
<1>2. relative_path(<<"Pin", n>>) = <<<<"pin">>, NarSegment(n)>>
  BY Two, NarSegments DEF relative_path, Lit
<1>. QED BY <1>1, <1>2

LEMMA CommitNames ==
  ASSUME NEW a \in Names, NEW h \in Hashes
  PROVE  /\ graph(<<"Commit", a, h>>) = <<<<"git">>, a, h>>
         /\ relative_path(<<"Commit", a, h>>) = <<<<"commit">>, a, h>>
<1>1. graph(<<"Commit", a, h>>) = <<<<"git">>, a, h>>
  BY CommitIri DEF graph
<1>2. relative_path(<<"Commit", a, h>>) = <<<<"commit">>, a, h>>
  BY Chain3, RawOfHash DEF relative_path, Lit, encode_segment
<1>. QED BY <1>1, <1>2

LEMMA K8sSnapshotNames ==
  ASSUME NEW a \in Names, NEW h \in Hashes
  PROVE  /\ graph(<<"K8sSnapshot", a, h>>) = <<<<"k8s">>, a, <<"snapshot">>, h>>
         /\ relative_path(<<"K8sSnapshot", a, h>>) = <<<<"k8s">>, a, <<"snapshot">>, h>>
<1>1. graph(<<"K8sSnapshot", a, h>>) = <<<<"k8s">>, a, <<"snapshot">>, h>>
  BY SnapshotIri DEF graph
<1>2. relative_path(<<"K8sSnapshot", a, h>>) = <<<<"k8s">>, a, <<"snapshot">>, h>>
  <2>1. relative_path(<<"K8sSnapshot", a, h>>)
          = <<<<"k8s">>>> \o <<a>> \o <<<<"snapshot">>>> \o <<h>>
    BY RawOfHash DEF relative_path, Lit, encode_segment
  <2>2. <<<<"k8s">>>> \o <<a>> \o <<<<"snapshot">>>> \o <<h>>
          = <<<<"k8s">>, a, <<"snapshot">>, h>>
    BY Chain4
  <2>. QED BY <2>1, <2>2
<1>. QED BY <1>1, <1>2

LEMMA K8sNodesNames ==
  ASSUME NEW a \in Names, NEW h \in Hashes
  PROVE  /\ graph(<<"K8sNodes", a, h>>) = <<<<"k8s">>, a, <<"nodes">>, h>>
         /\ relative_path(<<"K8sNodes", a, h>>) = <<<<"k8s">>, a, <<"nodes">>, h>>
<1>1. graph(<<"K8sNodes", a, h>>) = <<<<"k8s">>, a, <<"nodes">>, h>>
  BY NodesIri DEF graph
<1>2. relative_path(<<"K8sNodes", a, h>>) = <<<<"k8s">>, a, <<"nodes">>, h>>
  <2>1. relative_path(<<"K8sNodes", a, h>>)
          = <<<<"k8s">>>> \o <<a>> \o <<<<"nodes">>>> \o <<h>>
    BY RawOfHash DEF relative_path, Lit, encode_segment
  <2>2. <<<<"k8s">>>> \o <<a>> \o <<<<"nodes">>>> \o <<h>>
          = <<<<"k8s">>, a, <<"nodes">>, h>>
    BY Chain4
  <2>. QED BY <2>1, <2>2
<1>. QED BY <1>1, <1>2

LEMMA DerivedNames ==
  ASSUME NEW h \in Hashes, NEW g \in Hashes
  PROVE  /\ graph(<<"Derived", h, g>>) = <<<<"derived">>, h \o g>>
         /\ relative_path(<<"Derived", h, g>>) = <<<<"derived">>, h, g>>
<1>1. graph(<<"Derived", h, g>>) = <<<<"derived">>, h \o g>>
  BY DerivedIri DEF graph
<1>2. relative_path(<<"Derived", h, g>>) = <<<<"derived">>, h, g>>
  BY Chain3, RawOfHash DEF relative_path, Lit
<1>. QED BY <1>1, <1>2

LEMMA RunNames ==
  ASSUME NEW h \in Hashes, NEW g \in Hashes
  PROVE  /\ graph(<<"Run", h, g>>) = <<<<"fragment">>, <<"run">>, h \o g>>
         /\ relative_path(<<"Run", h, g>>) = <<<<"runs">>, h, g>>
<1>1. graph(<<"Run", h, g>>) = <<<<"fragment">>, <<"run">>, h \o g>>
  BY Chain3 DEF graph, fragment_iri, Lit, Joined
<1>2. relative_path(<<"Run", h, g>>) = <<<<"runs">>, h, g>>
  BY Chain3, RawOfHash DEF relative_path, Lit, run_path
<1>. QED BY <1>1, <1>2

LEMMA K8sObservedNames ==
  ASSUME NEW a \in Names, NEW h \in Hashes, NEW b \in Names
  PROVE  /\ graph(<<"K8sObserved", a, h, b>>)
              = <<<<"fragment">>, <<"k8s-observed">>, a, h, b>>
         /\ relative_path(<<"K8sObserved", a, h, b>>)
              = <<<<"k8s">>, a, <<"observed">>, h \o b>>
<1>1. graph(<<"K8sObserved", a, h, b>>)
        = <<<<"fragment">>, <<"k8s-observed">>, a, h, b>>
  <2>1. graph(<<"K8sObserved", a, h, b>>)
          = (<<<<"fragment">>>> \o <<<<"k8s-observed">>>>) \o (<<a>> \o <<h>> \o <<b>>)
    BY RawOfHash DEF graph, fragment_iri, Lit, encode_segment
  <2>2. (<<<<"fragment">>>> \o <<<<"k8s-observed">>>>) \o (<<a>> \o <<h>> \o <<b>>)
          = <<<<"fragment">>, <<"k8s-observed">>, a, h, b>>
    BY TwoAndThree
  <2>. QED BY <2>1, <2>2
<1>2. relative_path(<<"K8sObserved", a, h, b>>)
        = <<<<"k8s">>, a, <<"observed">>, h \o b>>
  <2>1. relative_path(<<"K8sObserved", a, h, b>>)
          = <<<<"k8s">>>> \o <<a>> \o <<<<"observed">>>> \o <<h \o b>>
    BY DEF relative_path, Lit, Joined, encode_segment
  <2>2. \A u : <<<<"k8s">>>> \o <<a>> \o <<<<"observed">>>> \o <<u>>
                 = <<<<"k8s">>, a, <<"observed">>, u>>
    BY Chain4
  <2>. QED BY <2>1, <2>2
<1>. QED BY <1>1, <1>2

LEMMA ExtNames ==
  ASSUME NEW a \in {<<"trace">>}, NEW b \in Names
  PROVE  /\ graph(<<"Ext", a, b>>) = <<a, b>>
         /\ relative_path(<<"Ext", a, b>>) = <<<<"ext">>, a, b>>
<1>1. graph(<<"Ext", a, b>>) = <<a, b>>
  BY Two DEF graph, encode_segment
<1>2. relative_path(<<"Ext", a, b>>) = <<<<"ext">>, a, b>>
  BY Chain3 DEF relative_path, Lit, encode_segment
<1>. QED BY <1>1, <1>2

\* What joins two texts in one segment can be undone, for a hash has no slash.
LEMMA Cut ==
  ASSUME NEW h \in Hashes, NEW b \in Names
  PROVE  <<(h \o b)[1]>> = h /\ Tail(h \o b) = b
<1> DEFINE S == STRING \cup {h[1]}
           u == h \o b
<1>1. h = <<h[1]>> /\ b \in Seq(STRING)
  BY SchemeAssumption
<1>2. h \in Seq(S) /\ Len(h) = 1
  <2>1. <<h[1]>> \in Seq(S) /\ Len(<<h[1]>>) = 1
    OBVIOUS
  <2>. QED BY <1>1, <2>1
<1>3. b \in Seq(S)
  BY <1>1, SeqMonotonic
<1>. HIDE DEF S
<1>4. /\ u \in Seq(S)
      /\ Len(u) = Len(h) + Len(b)
      /\ \A i \in 1 .. Len(h) + Len(b) :
           u[i] = IF i <= Len(h) THEN h[i] ELSE b[i - Len(h)]
  BY <1>2, <1>3, ConcatProperties
<1>. HIDE DEF u
<1>5. Len(b) \in Nat
  BY <1>3, LenProperties
<1>6. u # <<>> /\ u[1] = h[1]
  BY <1>2, <1>4, <1>5, EmptySeq
<1>7. /\ Tail(u) \in Seq(S) /\ Len(Tail(u)) = Len(u) - 1
      /\ \A i \in 1 .. Len(Tail(u)) : Tail(u)[i] = u[i + 1]
  BY <1>4, <1>6, HeadTailProperties
<1>8. Len(Tail(u)) = Len(b) /\ \A i \in 1 .. Len(Tail(u)) : Tail(u)[i] = b[i]
  BY <1>2, <1>4, <1>5, <1>7
<1>9. Tail(u) = b
  BY <1>3, <1>7, <1>8, SeqEqual
<1>. QED BY <1>1, <1>6, <1>9 DEF u

LEMMA PairOfHashes ==
  ASSUME NEW h \in Hashes, NEW g \in Hashes
  PROVE  <<(h \o g)[1]>> = h /\ <<(h \o g)[2]>> = g
<1>1. h = <<h[1]>> /\ g = <<g[1]>>
  BY SchemeAssumption
<1>2. <<h[1]>> \o <<g[1]>> = <<h[1], g[1]>>
  BY Two
<1>3. h \o g = <<h[1], g[1]>>
  BY <1>1, <1>2
<1>. QED BY <1>1, <1>3

LEMMA OfMultiverse ==
  ASSUME NEW h \in Hashes
  PROVE  <<(<<"nixpkgs-multiverse">> \o h)[2]>> = h
<1>1. h = <<h[1]>>
  BY SchemeAssumption
<1>2. <<"nixpkgs-multiverse">> \o <<h[1]>> = <<"nixpkgs-multiverse", h[1]>>
  BY Two
<1>. QED BY <1>1, <1>2

\* What a fragment is.
LEMMA KindForms ==
  ASSUME NEW k \in FragmentKinds
  PROVE  \/ k \in {"Drv"} \X Hashes
         \/ k \in {"Out"} \X Hashes
         \/ k \in {"Nixpkgs"} \X Hashes
         \/ k \in {"Gen"} \X Hashes
         \/ k \in {"Image"} \X Hashes
         \/ k \in {"Index"} \X Hashes
         \/ k \in {"Value"} \X Hashes
         \/ k \in {"Env"} \X Hashes
         \/ k \in {"Src"} \X Nars
         \/ k \in {"Pin"} \X Nars
         \/ k \in {"Commit"} \X Names \X Hashes
         \/ k \in {"K8sSnapshot"} \X Names \X Hashes
         \/ k \in {"K8sNodes"} \X Names \X Hashes
         \/ k \in {"Derived"} \X Hashes \X Hashes
         \/ k \in {"Run"} \X Hashes \X Hashes
         \/ k \in {"K8sObserved"} \X Names \X Hashes \X Names
         \/ k \in {"Ext"} \X {<<"trace">>} \X Names
<1>1. \/ k \in {"Drv", "Out", "Nixpkgs", "Gen", "Image", "Index", "Value", "Env"}
           \X Hashes
      \/ k \in {"Src", "Pin"} \X Nars
      \/ k \in {"Commit", "K8sSnapshot", "K8sNodes"} \X Names \X Hashes
      \/ k \in {"Derived", "Run"} \X Hashes \X Hashes
      \/ k \in {"K8sObserved"} \X Names \X Hashes \X Names
      \/ k \in {"Ext"} \X {<<"trace">>} \X Names
  BY DEF FragmentKinds
<1>2. k \in {"Drv", "Out", "Nixpkgs", "Gen", "Image", "Index", "Value", "Env"}
        \X Hashes =>
         \/ k \in {"Drv"} \X Hashes
         \/ k \in {"Out"} \X Hashes
         \/ k \in {"Nixpkgs"} \X Hashes
         \/ k \in {"Gen"} \X Hashes
         \/ k \in {"Image"} \X Hashes
         \/ k \in {"Index"} \X Hashes
         \/ k \in {"Value"} \X Hashes
         \/ k \in {"Env"} \X Hashes
  OBVIOUS
<1>3. k \in {"Src", "Pin"} \X Nars =>
         \/ k \in {"Src"} \X Nars
         \/ k \in {"Pin"} \X Nars
  OBVIOUS
<1>4. k \in {"Commit", "K8sSnapshot", "K8sNodes"} \X Names \X Hashes =>
         \/ k \in {"Commit"} \X Names \X Hashes
         \/ k \in {"K8sSnapshot"} \X Names \X Hashes
         \/ k \in {"K8sNodes"} \X Names \X Hashes
  OBVIOUS
<1>5. k \in {"Derived", "Run"} \X Hashes \X Hashes =>
         \/ k \in {"Derived"} \X Hashes \X Hashes
         \/ k \in {"Run"} \X Hashes \X Hashes
  OBVIOUS
<1>. QED BY <1>1, <1>2, <1>3, <1>4, <1>5, Zenon

\* The fragment whose file has a path, and the one whose graph has an IRI.
KindOfPath(path) ==
  LET word == path[1][1]
  IN CASE word = "drv" -> <<"Drv", path[2]>>
       [] word = "out" -> <<"Out", path[2]>>
       [] word = "nixpkgs" -> <<"Nixpkgs", path[2]>>
       [] word = "gen" -> <<"Gen", path[2]>>
       [] word = "image" -> <<"Image", path[2]>>
       [] word = "index" -> <<"Index", <<path[2][2]>>>>
       [] word = "values" -> <<"Value", path[2]>>
       [] word = "env" -> <<"Env", path[2]>>
       [] word = "src" -> <<"Src", decode_nar(path[2])>>
       [] word = "pin" -> <<"Pin", decode_nar(path[2])>>
       [] word = "commit" -> <<"Commit", path[2], path[3]>>
       [] word = "derived" -> <<"Derived", path[2], path[3]>>
       [] word = "runs" -> <<"Run", path[2], path[3]>>
       [] word = "ext" -> <<"Ext", path[2], path[3]>>
       [] word = "k8s" ->
            IF path[3] = <<"snapshot">> THEN <<"K8sSnapshot", path[2], path[4]>>
            ELSE IF path[3] = <<"nodes">> THEN <<"K8sNodes", path[2], path[4]>>
            ELSE <<"K8sObserved", path[2], <<path[4][1]>>, Tail(path[4])>>

KindOfGraph(iri) ==
  LET word == iri[2][1]
  IN IF iri[1] = <<"fragment">> THEN
       CASE word = "out" -> <<"Out", iri[3]>>
         [] word = "values" -> <<"Value", iri[3]>>
         [] word = "env" -> <<"Env", iri[3]>>
         [] word = "index" -> <<"Index", <<iri[3][2]>>>>
         [] word = "run" -> <<"Run", <<iri[3][1]>>, <<iri[3][2]>>>>
         [] word = "k8s-observed" -> <<"K8sObserved", iri[3], iri[4], iri[5]>>
     ELSE IF iri[1] = <<"derived">> THEN <<"Derived", <<iri[2][1]>>, <<iri[2][2]>>>>
     ELSE IF iri[1] = <<"trace">> THEN <<"Ext", iri[1], iri[2]>>
     ELSE fragment_for_iri(iri)

\* Every kind can be told from its path.
LEMMA PathReadsBack ==
  ASSUME NEW k \in FragmentKinds
  PROVE  KindOfPath(relative_path(k)) = k
<1>1. CASE k \in {"Drv"} \X Hashes
  <2>1. k = <<"Drv", k[2]>> /\ k[2] \in Hashes
    BY <1>1
  <2>2. relative_path(k) = <<<<"drv">>, k[2]>>
    BY <2>1, DrvNames
  <2>. QED BY <2>1, <2>2 DEF KindOfPath
<1>2. CASE k \in {"Out"} \X Hashes
  <2>1. k = <<"Out", k[2]>> /\ k[2] \in Hashes
    BY <1>2
  <2>2. relative_path(k) = <<<<"out">>, k[2]>>
    BY <2>1, OutNames
  <2>. QED BY <2>1, <2>2 DEF KindOfPath
<1>3. CASE k \in {"Nixpkgs"} \X Hashes
  <2>1. k = <<"Nixpkgs", k[2]>> /\ k[2] \in Hashes
    BY <1>3
  <2>2. relative_path(k) = <<<<"nixpkgs">>, k[2]>>
    BY <2>1, NixpkgsNames
  <2>. QED BY <2>1, <2>2 DEF KindOfPath
<1>4. CASE k \in {"Gen"} \X Hashes
  <2>1. k = <<"Gen", k[2]>> /\ k[2] \in Hashes
    BY <1>4
  <2>2. relative_path(k) = <<<<"gen">>, k[2]>>
    BY <2>1, GenNames
  <2>. QED BY <2>1, <2>2 DEF KindOfPath
<1>5. CASE k \in {"Image"} \X Hashes
  <2>1. k = <<"Image", k[2]>> /\ k[2] \in Hashes
    BY <1>5
  <2>2. relative_path(k) = <<<<"image">>, k[2]>>
    BY <2>1, ImageNames
  <2>. QED BY <2>1, <2>2 DEF KindOfPath
<1>6. CASE k \in {"Index"} \X Hashes
  <2>1. k = <<"Index", k[2]>> /\ k[2] \in Hashes
    BY <1>6
  <2>2. relative_path(k) = <<<<"index">>, <<"nixpkgs-multiverse">> \o k[2]>>
    BY <2>1, IndexNames
  <2>. QED BY <2>1, <2>2, OfMultiverse DEF KindOfPath
<1>7. CASE k \in {"Value"} \X Hashes
  <2>1. k = <<"Value", k[2]>> /\ k[2] \in Hashes
    BY <1>7
  <2>2. relative_path(k) = <<<<"values">>, k[2]>>
    BY <2>1, ValueNames
  <2>. QED BY <2>1, <2>2 DEF KindOfPath
<1>8. CASE k \in {"Env"} \X Hashes
  <2>1. k = <<"Env", k[2]>> /\ k[2] \in Hashes
    BY <1>8
  <2>2. relative_path(k) = <<<<"env">>, k[2]>>
    BY <2>1, EnvNames
  <2>. QED BY <2>1, <2>2 DEF KindOfPath
<1>9. CASE k \in {"Src"} \X Nars
  <2>1. k = <<"Src", k[2]>> /\ k[2] \in Nars
    BY <1>9
  <2>2. relative_path(k) = <<<<"src">>, NarSegment(k[2])>>
    BY <2>1, SrcNames
  <2>. QED BY <2>1, <2>2, NarSegments DEF KindOfPath
<1>10. CASE k \in {"Pin"} \X Nars
  <2>1. k = <<"Pin", k[2]>> /\ k[2] \in Nars
    BY <1>10
  <2>2. relative_path(k) = <<<<"pin">>, NarSegment(k[2])>>
    BY <2>1, PinNames
  <2>. QED BY <2>1, <2>2, NarSegments DEF KindOfPath
<1>11. CASE k \in {"Commit"} \X Names \X Hashes
  <2>1. k = <<"Commit", k[2], k[3]>> /\ k[2] \in Names /\ k[3] \in Hashes
    BY <1>11
  <2>2. relative_path(k) = <<<<"commit">>, k[2], k[3]>>
    BY <2>1, CommitNames
  <2>. QED BY <2>1, <2>2 DEF KindOfPath
<1>12. CASE k \in {"K8sSnapshot"} \X Names \X Hashes
  <2>1. k = <<"K8sSnapshot", k[2], k[3]>> /\ k[2] \in Names /\ k[3] \in Hashes
    BY <1>12
  <2>2. relative_path(k) = <<<<"k8s">>, k[2], <<"snapshot">>, k[3]>>
    BY <2>1, K8sSnapshotNames
  <2>. QED BY <2>1, <2>2 DEF KindOfPath
<1>13. CASE k \in {"K8sNodes"} \X Names \X Hashes
  <2>1. k = <<"K8sNodes", k[2], k[3]>> /\ k[2] \in Names /\ k[3] \in Hashes
    BY <1>13
  <2>2. relative_path(k) = <<<<"k8s">>, k[2], <<"nodes">>, k[3]>>
    BY <2>1, K8sNodesNames
  <2>. QED BY <2>1, <2>2 DEF KindOfPath
<1>14. CASE k \in {"Derived"} \X Hashes \X Hashes
  <2>1. k = <<"Derived", k[2], k[3]>> /\ k[2] \in Hashes /\ k[3] \in Hashes
    BY <1>14
  <2>2. relative_path(k) = <<<<"derived">>, k[2], k[3]>>
    BY <2>1, DerivedNames
  <2>. QED BY <2>1, <2>2 DEF KindOfPath
<1>15. CASE k \in {"Run"} \X Hashes \X Hashes
  <2>1. k = <<"Run", k[2], k[3]>> /\ k[2] \in Hashes /\ k[3] \in Hashes
    BY <1>15
  <2>2. relative_path(k) = <<<<"runs">>, k[2], k[3]>>
    BY <2>1, RunNames
  <2>. QED BY <2>1, <2>2 DEF KindOfPath
<1>16. CASE k \in {"K8sObserved"} \X Names \X Hashes \X Names
  <2>1. /\ k = <<"K8sObserved", k[2], k[3], k[4]>>
        /\ k[2] \in Names /\ k[3] \in Hashes /\ k[4] \in Names
    BY <1>16
  <2>2. relative_path(k) = <<<<"k8s">>, k[2], <<"observed">>, k[3] \o k[4]>>
    BY <2>1, K8sObservedNames
  <2>. QED BY <2>1, <2>2, Cut DEF KindOfPath
<1>17. CASE k \in {"Ext"} \X {<<"trace">>} \X Names
  <2>1. k = <<"Ext", k[2], k[3]>> /\ k[2] \in {<<"trace">>} /\ k[3] \in Names
    BY <1>17
  <2>2. relative_path(k) = <<<<"ext">>, k[2], k[3]>>
    BY <2>1, ExtNames
  <2>. QED BY <2>1, <2>2 DEF KindOfPath
<1>. QED BY <1>1, <1>2, <1>3, <1>4, <1>5, <1>6, <1>7, <1>8, <1>9, <1>10, <1>11,
   <1>12, <1>13, <1>14, <1>15, <1>16, <1>17, KindForms

-----------------------------------------------------------------------------
(***************************************************************************)
(* The way back: fragment_for_iri.                                         *)
(***************************************************************************)
LEMMA Tails ==
  ASSUME NEW a, NEW b
  PROVE  /\ Tail(<<a, b>>) = <<b>>
         /\ \A c, d, e, f, g :
              /\ Tail(<<a, b, c>>) = <<b, c>>
              /\ Tail(<<a, b, c, d>>) = <<b, c, d>>
              /\ Tail(<<a, b, c, d, e>>) = <<b, c, d, e>>
              /\ Tail(<<a, b, c, d, e, f>>) = <<b, c, d, e, f>>
              /\ Tail(<<a, b, c, d, e, f, g>>) = <<b, c, d, e, f, g>>
OBVIOUS

LEMMA TextOfHash ==
  ASSUME NEW h \in Hashes
  PROVE  Text(<<h>>) = h
<1>1. h = <<h[1]>>
  BY SchemeAssumption
<1>2. Text(<<h>>) = <<h[1]>>
  BY DEF Text
<1>. QED BY <1>1, <1>2

\* A graph leads to its fragment, of the kinds that are found by their IRI.
LEMMA GraphLeadsBack ==
  ASSUME NEW k \in FragmentKinds
  PROVE  fragment_for_iri(graph(k)) = IF k[1] \in ByIri THEN k ELSE NoFragment
<1>1. CASE k \in {"Drv"} \X Hashes
  <2>1. k = <<"Drv", k[2]>> /\ k[2] \in Hashes
    BY <1>1
  <2>2. graph(k) = <<<<"drv">>, k[2]>>
    BY <2>1, DrvNames
  <2>. QED BY <2>1, <2>2, Tails, TextOfHash DEF fragment_for_iri, percent_decode, ByIri
<1>2. CASE k \in {"Out"} \X Hashes
  <2>1. k = <<"Out", k[2]>> /\ k[2] \in Hashes
    BY <1>2
  <2>2. graph(k) = <<<<"fragment">>, <<"out">>, k[2]>>
    BY <2>1, OutNames
  <2>. QED BY <2>1, <2>2, Tails, TextOfHash DEF fragment_for_iri, percent_decode, ByIri
<1>3. CASE k \in {"Nixpkgs"} \X Hashes
  <2>1. k = <<"Nixpkgs", k[2]>> /\ k[2] \in Hashes
    BY <1>3
  <2>2. graph(k) = <<<<"nixpkgs">>, k[2]>>
    BY <2>1, NixpkgsNames
  <2>. QED BY <2>1, <2>2, Tails, TextOfHash DEF fragment_for_iri, percent_decode, ByIri
<1>4. CASE k \in {"Gen"} \X Hashes
  <2>1. k = <<"Gen", k[2]>> /\ k[2] \in Hashes
    BY <1>4
  <2>2. graph(k) = <<<<"gen">>, k[2]>>
    BY <2>1, GenNames
  <2>. QED BY <2>1, <2>2, Tails, TextOfHash DEF fragment_for_iri, percent_decode, ByIri
<1>5. CASE k \in {"Image"} \X Hashes
  <2>1. k = <<"Image", k[2]>> /\ k[2] \in Hashes
    BY <1>5
  <2>2. graph(k) = <<<<"oci">>, <<"sha256">>, k[2]>>
    BY <2>1, ImageNames
  <2>. QED BY <2>1, <2>2, Tails, TextOfHash DEF fragment_for_iri, percent_decode, ByIri
<1>6. CASE k \in {"Index"} \X Hashes
  <2>1. k = <<"Index", k[2]>> /\ k[2] \in Hashes
    BY <1>6
  <2>2. graph(k) = <<<<"fragment">>, <<"index">>, <<"nixpkgs-multiverse">> \o k[2]>>
    BY <2>1, IndexNames
  <2>. QED BY <2>1, <2>2, Tails, TextOfHash DEF fragment_for_iri, percent_decode, ByIri
<1>7. CASE k \in {"Value"} \X Hashes
  <2>1. k = <<"Value", k[2]>> /\ k[2] \in Hashes
    BY <1>7
  <2>2. graph(k) = <<<<"fragment">>, <<"values">>, k[2]>>
    BY <2>1, ValueNames
  <2>. QED BY <2>1, <2>2, Tails, TextOfHash DEF fragment_for_iri, percent_decode, ByIri
<1>8. CASE k \in {"Env"} \X Hashes
  <2>1. k = <<"Env", k[2]>> /\ k[2] \in Hashes
    BY <1>8
  <2>2. graph(k) = <<<<"fragment">>, <<"env">>, k[2]>>
    BY <2>1, EnvNames
  <2>. QED BY <2>1, <2>2, Tails, TextOfHash DEF fragment_for_iri, percent_decode, ByIri
<1>9. CASE k \in {"Src"} \X Nars
  <2>1. k = <<"Src", k[2]>> /\ k[2] \in Nars
    BY <1>9
  <2>2. graph(k) = <<<<"src">>, NarSegment(k[2])>>
    BY <2>1, SrcNames
  <2>. QED BY <2>1, <2>2, Tails, NarSegments DEF fragment_for_iri, percent_decode, ByIri
<1>10. CASE k \in {"Pin"} \X Nars
  <2>1. k = <<"Pin", k[2]>> /\ k[2] \in Nars
    BY <1>10
  <2>2. graph(k) = <<<<"pin">>, NarSegment(k[2])>>
    BY <2>1, PinNames
  <2>. QED BY <2>1, <2>2, Tails, NarSegments DEF fragment_for_iri, percent_decode, ByIri
<1>11. CASE k \in {"Commit"} \X Names \X Hashes
  <2>1. k = <<"Commit", k[2], k[3]>> /\ k[2] \in Names /\ k[3] \in Hashes
    BY <1>11
  <2>2. graph(k) = <<<<"git">>, k[2], k[3]>>
    BY <2>1, CommitNames
  <2>. QED BY <2>1, <2>2, Tails, TextOfHash DEF fragment_for_iri, percent_decode, ByIri
<1>12. CASE k \in {"K8sSnapshot"} \X Names \X Hashes
  <2>1. k = <<"K8sSnapshot", k[2], k[3]>> /\ k[2] \in Names /\ k[3] \in Hashes
    BY <1>12
  <2>2. graph(k) = <<<<"k8s">>, k[2], <<"snapshot">>, k[3]>>
    BY <2>1, K8sSnapshotNames
  <2>. QED BY <2>1, <2>2, Tails, TextOfHash DEF fragment_for_iri, percent_decode, ByIri
<1>13. CASE k \in {"K8sNodes"} \X Names \X Hashes
  <2>1. k = <<"K8sNodes", k[2], k[3]>> /\ k[2] \in Names /\ k[3] \in Hashes
    BY <1>13
  <2>2. graph(k) = <<<<"k8s">>, k[2], <<"nodes">>, k[3]>>
    BY <2>1, K8sNodesNames
  <2>. QED BY <2>1, <2>2, Tails, TextOfHash DEF fragment_for_iri, percent_decode, ByIri
<1>14. CASE k \in {"Derived"} \X Hashes \X Hashes
  <2>1. k = <<"Derived", k[2], k[3]>> /\ k[2] \in Hashes /\ k[3] \in Hashes
    BY <1>14
  <2>2. graph(k) = <<<<"derived">>, k[2] \o k[3]>>
    BY <2>1, DerivedNames
  <2>. QED BY <2>1, <2>2, Tails, TextOfHash DEF fragment_for_iri, percent_decode, ByIri
<1>15. CASE k \in {"Run"} \X Hashes \X Hashes
  <2>1. k = <<"Run", k[2], k[3]>> /\ k[2] \in Hashes /\ k[3] \in Hashes
    BY <1>15
  <2>2. graph(k) = <<<<"fragment">>, <<"run">>, k[2] \o k[3]>>
    BY <2>1, RunNames
  <2>. QED BY <2>1, <2>2, Tails, TextOfHash DEF fragment_for_iri, percent_decode, ByIri
<1>16. CASE k \in {"K8sObserved"} \X Names \X Hashes \X Names
  <2>1. /\ k = <<"K8sObserved", k[2], k[3], k[4]>>
        /\ k[2] \in Names /\ k[3] \in Hashes /\ k[4] \in Names
    BY <1>16
  <2>2. graph(k) = <<<<"fragment">>, <<"k8s-observed">>, k[2], k[3], k[4]>>
    BY <2>1, K8sObservedNames
  <2>. QED BY <2>1, <2>2, Tails, TextOfHash DEF fragment_for_iri, percent_decode, ByIri
<1>17. CASE k \in {"Ext"} \X {<<"trace">>} \X Names
  <2>1. k = <<"Ext", k[2], k[3]>> /\ k[2] \in {<<"trace">>} /\ k[3] \in Names
    BY <1>17
  <2>2. graph(k) = <<k[2], k[3]>>
    BY <2>1, ExtNames
  <2>. QED BY <2>1, <2>2, Tails DEF fragment_for_iri, percent_decode, ByIri
<1>. QED BY <1>1, <1>2, <1>3, <1>4, <1>5, <1>6, <1>7, <1>8, <1>9, <1>10, <1>11,
   <1>12, <1>13, <1>14, <1>15, <1>16, <1>17, KindForms

\* Every kind can be told from its graph.
LEMMA GraphReadsBack ==
  ASSUME NEW k \in FragmentKinds
  PROVE  KindOfGraph(graph(k)) = k
<1>1. CASE k \in {"Drv"} \X Hashes
  <2>1. k = <<"Drv", k[2]>> /\ k[2] \in Hashes
    BY <1>1
  <2>2. graph(k) = <<<<"drv">>, k[2]>>
    BY <2>1, DrvNames
  <2>. QED BY <2>1, <2>2, GraphLeadsBack DEF KindOfGraph, ByIri
<1>2. CASE k \in {"Out"} \X Hashes
  <2>1. k = <<"Out", k[2]>> /\ k[2] \in Hashes
    BY <1>2
  <2>2. graph(k) = <<<<"fragment">>, <<"out">>, k[2]>>
    BY <2>1, OutNames
  <2>. QED BY <2>1, <2>2 DEF KindOfGraph
<1>3. CASE k \in {"Nixpkgs"} \X Hashes
  <2>1. k = <<"Nixpkgs", k[2]>> /\ k[2] \in Hashes
    BY <1>3
  <2>2. graph(k) = <<<<"nixpkgs">>, k[2]>>
    BY <2>1, NixpkgsNames
  <2>. QED BY <2>1, <2>2, GraphLeadsBack DEF KindOfGraph, ByIri
<1>4. CASE k \in {"Gen"} \X Hashes
  <2>1. k = <<"Gen", k[2]>> /\ k[2] \in Hashes
    BY <1>4
  <2>2. graph(k) = <<<<"gen">>, k[2]>>
    BY <2>1, GenNames
  <2>. QED BY <2>1, <2>2, GraphLeadsBack DEF KindOfGraph, ByIri
<1>5. CASE k \in {"Image"} \X Hashes
  <2>1. k = <<"Image", k[2]>> /\ k[2] \in Hashes
    BY <1>5
  <2>2. graph(k) = <<<<"oci">>, <<"sha256">>, k[2]>>
    BY <2>1, ImageNames
  <2>. QED BY <2>1, <2>2, GraphLeadsBack DEF KindOfGraph, ByIri
<1>6. CASE k \in {"Index"} \X Hashes
  <2>1. k = <<"Index", k[2]>> /\ k[2] \in Hashes
    BY <1>6
  <2>2. graph(k) = <<<<"fragment">>, <<"index">>, <<"nixpkgs-multiverse">> \o k[2]>>
    BY <2>1, IndexNames
  <2>. QED BY <2>1, <2>2, OfMultiverse DEF KindOfGraph
<1>7. CASE k \in {"Value"} \X Hashes
  <2>1. k = <<"Value", k[2]>> /\ k[2] \in Hashes
    BY <1>7
  <2>2. graph(k) = <<<<"fragment">>, <<"values">>, k[2]>>
    BY <2>1, ValueNames
  <2>. QED BY <2>1, <2>2 DEF KindOfGraph
<1>8. CASE k \in {"Env"} \X Hashes
  <2>1. k = <<"Env", k[2]>> /\ k[2] \in Hashes
    BY <1>8
  <2>2. graph(k) = <<<<"fragment">>, <<"env">>, k[2]>>
    BY <2>1, EnvNames
  <2>. QED BY <2>1, <2>2 DEF KindOfGraph
<1>9. CASE k \in {"Src"} \X Nars
  <2>1. k = <<"Src", k[2]>> /\ k[2] \in Nars
    BY <1>9
  <2>2. graph(k) = <<<<"src">>, NarSegment(k[2])>>
    BY <2>1, SrcNames
  <2>. QED BY <2>1, <2>2, NarSegments, GraphLeadsBack DEF KindOfGraph, ByIri
<1>10. CASE k \in {"Pin"} \X Nars
  <2>1. k = <<"Pin", k[2]>> /\ k[2] \in Nars
    BY <1>10
  <2>2. graph(k) = <<<<"pin">>, NarSegment(k[2])>>
    BY <2>1, PinNames
  <2>. QED BY <2>1, <2>2, NarSegments, GraphLeadsBack DEF KindOfGraph, ByIri
<1>11. CASE k \in {"Commit"} \X Names \X Hashes
  <2>1. k = <<"Commit", k[2], k[3]>> /\ k[2] \in Names /\ k[3] \in Hashes
    BY <1>11
  <2>2. graph(k) = <<<<"git">>, k[2], k[3]>>
    BY <2>1, CommitNames
  <2>. QED BY <2>1, <2>2, GraphLeadsBack DEF KindOfGraph, ByIri
<1>12. CASE k \in {"K8sSnapshot"} \X Names \X Hashes
  <2>1. k = <<"K8sSnapshot", k[2], k[3]>> /\ k[2] \in Names /\ k[3] \in Hashes
    BY <1>12
  <2>2. graph(k) = <<<<"k8s">>, k[2], <<"snapshot">>, k[3]>>
    BY <2>1, K8sSnapshotNames
  <2>. QED BY <2>1, <2>2, GraphLeadsBack DEF KindOfGraph, ByIri
<1>13. CASE k \in {"K8sNodes"} \X Names \X Hashes
  <2>1. k = <<"K8sNodes", k[2], k[3]>> /\ k[2] \in Names /\ k[3] \in Hashes
    BY <1>13
  <2>2. graph(k) = <<<<"k8s">>, k[2], <<"nodes">>, k[3]>>
    BY <2>1, K8sNodesNames
  <2>. QED BY <2>1, <2>2, GraphLeadsBack DEF KindOfGraph, ByIri
<1>14. CASE k \in {"Derived"} \X Hashes \X Hashes
  <2>1. k = <<"Derived", k[2], k[3]>> /\ k[2] \in Hashes /\ k[3] \in Hashes
    BY <1>14
  <2>2. graph(k) = <<<<"derived">>, k[2] \o k[3]>>
    BY <2>1, DerivedNames
  <2>3. <<(k[2] \o k[3])[1]>> = k[2] /\ <<(k[2] \o k[3])[2]>> = k[3]
    BY <2>1, PairOfHashes
  <2>4. \A u : KindOfGraph(<<<<"derived">>, u>>) = <<"Derived", <<u[1]>>, <<u[2]>>>>
    BY DEF KindOfGraph
  <2>. QED BY <2>1, <2>2, <2>3, <2>4
<1>15. CASE k \in {"Run"} \X Hashes \X Hashes
  <2>1. k = <<"Run", k[2], k[3]>> /\ k[2] \in Hashes /\ k[3] \in Hashes
    BY <1>15
  <2>2. graph(k) = <<<<"fragment">>, <<"run">>, k[2] \o k[3]>>
    BY <2>1, RunNames
  <2>3. <<(k[2] \o k[3])[1]>> = k[2] /\ <<(k[2] \o k[3])[2]>> = k[3]
    BY <2>1, PairOfHashes
  <2>. QED BY <2>1, <2>2, <2>3 DEF KindOfGraph
<1>16. CASE k \in {"K8sObserved"} \X Names \X Hashes \X Names
  <2>1. /\ k = <<"K8sObserved", k[2], k[3], k[4]>>
        /\ k[2] \in Names /\ k[3] \in Hashes /\ k[4] \in Names
    BY <1>16
  <2>2. graph(k) = <<<<"fragment">>, <<"k8s-observed">>, k[2], k[3], k[4]>>
    BY <2>1, K8sObservedNames
  <2>. QED BY <2>1, <2>2 DEF KindOfGraph
<1>17. CASE k \in {"Ext"} \X {<<"trace">>} \X Names
  <2>1. k = <<"Ext", k[2], k[3]>> /\ k[2] \in {<<"trace">>} /\ k[3] \in Names
    BY <1>17
  <2>2. graph(k) = <<k[2], k[3]>>
    BY <2>1, ExtNames
  <2>. QED BY <2>1, <2>2 DEF KindOfGraph
<1>. QED BY <1>1, <1>2, <1>3, <1>4, <1>5, <1>6, <1>7, <1>8, <1>9, <1>10, <1>11,
   <1>12, <1>13, <1>14, <1>15, <1>16, <1>17, KindForms

\* What fragment_for_iri may answer about an IRI.
Answers(iri) == {k \in FragmentKinds : k[1] \in ByIri /\ graph(k) = iri} \cup {NoFragment}

\* The IRI of an entity leads to no fragment but one whose graph it is.
LEMMA EntityLeads ==
  ASSUME NEW e \in Entities
  PROVE  fragment_for_iri(Iri(e)) \in Answers(Iri(e))
<1>1. CASE e \in {"drv", "out", "nixpkgs", "gen", "value", "pack"} \X Hashes
  <2>1. /\ e = <<e[1], e[2]>>
        /\ e[1] \in {"drv", "out", "nixpkgs", "gen", "value", "pack"} /\ e[2] \in Hashes
    BY <1>1
  <2>2. Iri(e) = <<<<e[1]>>, e[2]>>
    BY <2>1, SimpleIri
  <2>3. e[1] = "drv" => fragment_for_iri(Iri(e)) = <<"Drv", e[2]>>
    BY <2>1, <2>2, Tails, TextOfHash DEF fragment_for_iri, percent_decode
  <2>4. <<"Drv", e[2]>> \in FragmentKinds
    BY <2>1 DEF FragmentKinds
  <2>5. e[1] = "drv" => graph(<<"Drv", e[2]>>) = Iri(e)
    BY <2>1, <2>2, DrvNames
  <2>6. e[1] = "drv" => fragment_for_iri(Iri(e)) \in Answers(Iri(e))
    BY <2>3, <2>4, <2>5 DEF Answers, ByIri
  <2>7. e[1] = "nixpkgs" => fragment_for_iri(Iri(e)) = <<"Nixpkgs", e[2]>>
    BY <2>1, <2>2, Tails, TextOfHash DEF fragment_for_iri, percent_decode
  <2>8. <<"Nixpkgs", e[2]>> \in FragmentKinds
    BY <2>1 DEF FragmentKinds
  <2>9. e[1] = "nixpkgs" => graph(<<"Nixpkgs", e[2]>>) = Iri(e)
    BY <2>1, <2>2, NixpkgsNames
  <2>10. e[1] = "nixpkgs" => fragment_for_iri(Iri(e)) \in Answers(Iri(e))
    BY <2>7, <2>8, <2>9 DEF Answers, ByIri
  <2>11. e[1] = "gen" => fragment_for_iri(Iri(e)) = <<"Gen", e[2]>>
    BY <2>1, <2>2, Tails, TextOfHash DEF fragment_for_iri, percent_decode
  <2>12. <<"Gen", e[2]>> \in FragmentKinds
    BY <2>1 DEF FragmentKinds
  <2>13. e[1] = "gen" => graph(<<"Gen", e[2]>>) = Iri(e)
    BY <2>1, <2>2, GenNames
  <2>14. e[1] = "gen" => fragment_for_iri(Iri(e)) \in Answers(Iri(e))
    BY <2>11, <2>12, <2>13 DEF Answers, ByIri
  <2>15. e[1] \in {"out", "value", "pack"} =>
           fragment_for_iri(Iri(e)) \in Answers(Iri(e))
    BY <2>1, <2>2, Tails, TextOfHash DEF fragment_for_iri, Answers
  <2>. QED BY <2>1, <2>6, <2>10, <2>14, <2>15
<1>2. CASE e \in {"src", "pin"} \X Nars
  <2>1. e = <<e[1], e[2]>> /\ e[1] \in {"src", "pin"} /\ e[2] \in Nars
    BY <1>2
  <2>2. Iri(e) = <<<<e[1]>>, NarSegment(e[2])>>
    BY <2>1, OfNarIri
  <2>3. e[1] = "src" => fragment_for_iri(Iri(e)) = <<"Src", e[2]>>
    BY <2>1, <2>2, Tails, NarSegments DEF fragment_for_iri, percent_decode
  <2>4. <<"Src", e[2]>> \in FragmentKinds
    BY <2>1 DEF FragmentKinds
  <2>5. e[1] = "src" => graph(<<"Src", e[2]>>) = Iri(e)
    BY <2>1, <2>2, SrcNames
  <2>6. e[1] = "src" => fragment_for_iri(Iri(e)) \in Answers(Iri(e))
    BY <2>3, <2>4, <2>5 DEF Answers, ByIri
  <2>7. e[1] = "pin" => fragment_for_iri(Iri(e)) = <<"Pin", e[2]>>
    BY <2>1, <2>2, Tails, NarSegments DEF fragment_for_iri, percent_decode
  <2>8. <<"Pin", e[2]>> \in FragmentKinds
    BY <2>1 DEF FragmentKinds
  <2>9. e[1] = "pin" => graph(<<"Pin", e[2]>>) = Iri(e)
    BY <2>1, <2>2, PinNames
  <2>10. e[1] = "pin" => fragment_for_iri(Iri(e)) \in Answers(Iri(e))
    BY <2>7, <2>8, <2>9 DEF Answers, ByIri
  <2>. QED BY <2>1, <2>6, <2>10
<1>3. CASE e \in {"flake_input"} \X Nars \X Names \X Names
  <2>1. /\ e = <<"flake_input", e[2], e[3], e[4]>>
        /\ e[2] \in Nars /\ e[3] \in Names /\ e[4] \in Names
    BY <1>3
  <2>2. Iri(e) = <<<<"pin">>, NarSegment(e[2]), <<"input">>, e[3], e[4]>>
    BY <2>1, FlakeInputIri
  <2>3. fragment_for_iri(Iri(e)) = NoFragment
    BY <2>1, <2>2, Tails, NarSegments DEF fragment_for_iri
  <2>. QED BY <2>3 DEF Answers
<1>4. CASE e \in {"pin_attr"} \X Nars \X Names
  <2>1. e = <<"pin_attr", e[2], e[3]>> /\ e[2] \in Nars /\ e[3] \in Names
    BY <1>4
  <2>2. Iri(e) = <<<<"pin">>, NarSegment(e[2]), <<"attr">>, e[3]>>
    BY <2>1, PinAttrIri
  <2>3. fragment_for_iri(Iri(e)) = NoFragment
    BY <2>1, <2>2, Tails, NarSegments DEF fragment_for_iri
  <2>. QED BY <2>3 DEF Answers
<1>5. CASE e \in {"nixos_configuration"} \X Nars \X Names
  <2>1. e = <<"nixos_configuration", e[2], e[3]>> /\ e[2] \in Nars /\ e[3] \in Names
    BY <1>5
  <2>2. Iri(e) = <<<<"pin">>, NarSegment(e[2]), <<"nixosConfigurations">>, e[3]>>
    BY <2>1, ConfigurationIri
  <2>3. fragment_for_iri(Iri(e)) = NoFragment
    BY <2>1, <2>2, Tails, NarSegments DEF fragment_for_iri
  <2>. QED BY <2>3 DEF Answers
<1>6. CASE e \in {"nixpkgs_attr"} \X Hashes \X Names
  <2>1. e = <<"nixpkgs_attr", e[2], e[3]>> /\ e[2] \in Hashes /\ e[3] \in Names
    BY <1>6
  <2>2. Iri(e) = <<<<"nixpkgs">>, e[2], <<"attr">>, e[3]>>
    BY <2>1, NixpkgsAttrIri
  <2>3. fragment_for_iri(Iri(e)) = NoFragment
    BY <2>1, <2>2, Tails, TextOfHash DEF fragment_for_iri
  <2>. QED BY <2>3 DEF Answers
<1>7. CASE e \in {"package_version"} \X Names \X Names
  <2>1. e = <<"package_version", e[2], e[3]>> /\ e[2] \in Names /\ e[3] \in Names
    BY <1>7
  <2>2. Iri(e) = <<<<"pkgver">>, e[2], e[3]>>
    BY <2>1, PackageVersionIri
  <2>3. fragment_for_iri(Iri(e)) = NoFragment
    BY <2>1, <2>2, Tails DEF fragment_for_iri
  <2>. QED BY <2>3 DEF Answers
<1>8. CASE e \in {"release", "option"} \X Names
  <2>1. e = <<e[1], e[2]>> /\ e[1] \in {"release", "option"} /\ e[2] \in Names
    BY <1>8
  <2>2. Iri(e) = <<<<e[1]>>, e[2]>>
    BY <2>1, NamedIri
  <2>3. fragment_for_iri(Iri(e)) = NoFragment
    BY <2>1, <2>2, Tails DEF fragment_for_iri
  <2>. QED BY <2>3 DEF Answers
<1>9. CASE e \in {"commit"} \X Names \X Hashes
  <2>1. e = <<"commit", e[2], e[3]>> /\ e[2] \in Names /\ e[3] \in Hashes
    BY <1>9
  <2>2. Iri(e) = <<<<"git">>, e[2], e[3]>>
    BY <2>1, CommitIri
  <2>3. fragment_for_iri(Iri(e)) = <<"Commit", e[2], e[3]>>
    BY <2>1, <2>2, Tails, TextOfHash DEF fragment_for_iri, percent_decode
  <2>4. <<"Commit", e[2], e[3]>> \in FragmentKinds
    BY <2>1 DEF FragmentKinds
  <2>5. graph(<<"Commit", e[2], e[3]>>) = Iri(e)
    BY <2>1, <2>2, CommitNames
  <2>6. fragment_for_iri(Iri(e)) \in Answers(Iri(e))
    BY <2>3, <2>4, <2>5 DEF Answers, ByIri
  <2>. QED BY <2>1, <2>6
<1>10. CASE e \in {"option_value"} \X Hashes \X Names
  <2>1. e = <<"option_value", e[2], e[3]>> /\ e[2] \in Hashes /\ e[3] \in Names
    BY <1>10
  <2>2. Iri(e) = <<<<"gen">>, e[2], <<"opt">>, e[3]>>
    BY <2>1, OptionValueIri
  <2>3. fragment_for_iri(Iri(e)) = NoFragment
    BY <2>1, <2>2, Tails, TextOfHash DEF fragment_for_iri
  <2>. QED BY <2>3 DEF Answers
<1>11. CASE e \in {"option_definition"} \X Hashes \X Names \X Hashes
  <2>1. /\ e = <<"option_definition", e[2], e[3], e[4]>>
        /\ e[2] \in Hashes /\ e[3] \in Names /\ e[4] \in Hashes
    BY <1>11
  <2>2. Iri(e) = <<<<"gen">>, e[2], <<"opt">>, e[3], <<"def">>, e[4]>>
    BY <2>1, OptionDefinitionIri
  <2>3. fragment_for_iri(Iri(e)) = NoFragment
    BY <2>1, <2>2, Tails, TextOfHash DEF fragment_for_iri
  <2>. QED BY <2>3 DEF Answers
<1>12. CASE e \in {"image"} \X Hashes
  <2>1. e = <<"image", e[2]>> /\ e[2] \in Hashes
    BY <1>12
  <2>2. Iri(e) = <<<<"oci">>, <<"sha256">>, e[2]>>
    BY <2>1, ImageIri
  <2>3. fragment_for_iri(Iri(e)) = <<"Image", e[2]>>
    BY <2>1, <2>2, Tails, TextOfHash DEF fragment_for_iri, percent_decode
  <2>4. <<"Image", e[2]>> \in FragmentKinds
    BY <2>1 DEF FragmentKinds
  <2>5. graph(<<"Image", e[2]>>) = Iri(e)
    BY <2>1, <2>2, ImageNames
  <2>6. fragment_for_iri(Iri(e)) \in Answers(Iri(e))
    BY <2>3, <2>4, <2>5 DEF Answers, ByIri
  <2>. QED BY <2>1, <2>6
<1>13. CASE e \in {"layer"} \X Hashes
  <2>1. e = <<"layer", e[2]>> /\ e[2] \in Hashes
    BY <1>13
  <2>2. Iri(e) = <<<<"oci">>, <<"layer">>, <<"sha256">>, e[2]>>
    BY <2>1, LayerIri
  <2>3. fragment_for_iri(Iri(e)) = NoFragment
    BY <2>1, <2>2, Tails, TextOfHash DEF fragment_for_iri
  <2>. QED BY <2>3 DEF Answers
<1>14. CASE e \in {"derived"} \X Hashes \X Hashes
  <2>1. e = <<"derived", e[2], e[3]>> /\ e[2] \in Hashes /\ e[3] \in Hashes
    BY <1>14
  <2>2. Iri(e) = <<<<"derived">>, e[2] \o e[3]>>
    BY <2>1, DerivedIri
  <2>3. fragment_for_iri(Iri(e)) = NoFragment
    BY <2>1, <2>2, Tails, TextOfHash DEF fragment_for_iri
  <2>. QED BY <2>3 DEF Answers
<1>15. CASE e \in {"owner"} \X Names
  <2>1. e = <<"owner", e[2]>> /\ e[2] \in Names
    BY <1>15
  <2>2. Iri(e) = <<<<"org">>, <<"owner">>, e[2]>>
    BY <2>1, OwnerIri
  <2>3. fragment_for_iri(Iri(e)) = NoFragment
    BY <2>1, <2>2, Tails DEF fragment_for_iri
  <2>. QED BY <2>3 DEF Answers
<1>16. CASE e \in {"k8s_cluster"} \X Names
  <2>1. e = <<"k8s_cluster", e[2]>> /\ e[2] \in Names
    BY <1>16
  <2>2. Iri(e) = <<<<"k8s">>, <<"cluster">>, e[2]>>
    BY <2>1, ClusterIri
  <2>3. fragment_for_iri(Iri(e)) = NoFragment
    BY <2>1, <2>2, Tails DEF fragment_for_iri
  <2>. QED BY <2>3 DEF Answers
<1>17. CASE e \in {"k8s_node"} \X Names \X Names
  <2>1. e = <<"k8s_node", e[2], e[3]>> /\ e[2] \in Names /\ e[3] \in Names
    BY <1>17
  <2>2. Iri(e) = <<<<"k8s">>, e[2], <<"node">>, e[3]>>
    BY <2>1, NodeIri
  <2>3. fragment_for_iri(Iri(e)) = NoFragment
    BY <2>1, <2>2, Tails DEF fragment_for_iri
  <2>. QED BY <2>3 DEF Answers
<1>18. CASE e \in {"k8s_namespace"} \X Names \X Names
  <2>1. e = <<"k8s_namespace", e[2], e[3]>> /\ e[2] \in Names /\ e[3] \in Names
    BY <1>18
  <2>2. Iri(e) = <<<<"k8s">>, e[2], <<"ns">>, e[3]>>
    BY <2>1, NamespaceIri
  <2>3. fragment_for_iri(Iri(e)) = NoFragment
    BY <2>1, <2>2, Tails DEF fragment_for_iri
  <2>. QED BY <2>3 DEF Answers
<1>19. CASE e \in {"k8s_service"} \X Names \X Names \X Names
  <2>1. /\ e = <<"k8s_service", e[2], e[3], e[4]>>
        /\ e[2] \in Names /\ e[3] \in Names /\ e[4] \in Names
    BY <1>19
  <2>2. Iri(e) = <<<<"k8s">>, e[2], <<"service">>, e[3], e[4]>>
    BY <2>1, ServiceIri
  <2>3. fragment_for_iri(Iri(e)) = NoFragment
    BY <2>1, <2>2, Tails DEF fragment_for_iri
  <2>. QED BY <2>3 DEF Answers
<1>20. CASE e \in {"k8s_container"} \X Names \X Names \X Names \X Names
  <2>1. /\ e = <<"k8s_container", e[2], e[3], e[4], e[5]>>
        /\ e[2] \in Names /\ e[3] \in Names /\ e[4] \in Names /\ e[5] \in Names
    BY <1>20
  <2>2. Iri(e) = <<<<"k8s">>, e[2], <<"deployment">>, e[3], e[4], <<"c">>, e[5]>>
    BY <2>1, ContainerIri
  <2>3. fragment_for_iri(Iri(e)) = NoFragment
    BY <2>1, <2>2, Tails DEF fragment_for_iri
  <2>. QED BY <2>3 DEF Answers
<1>21. CASE e \in {"k8s_snapshot"} \X Names \X Hashes
  <2>1. e = <<"k8s_snapshot", e[2], e[3]>> /\ e[2] \in Names /\ e[3] \in Hashes
    BY <1>21
  <2>2. Iri(e) = <<<<"k8s">>, e[2], <<"snapshot">>, e[3]>>
    BY <2>1, SnapshotIri
  <2>3. fragment_for_iri(Iri(e)) = <<"K8sSnapshot", e[2], e[3]>>
    BY <2>1, <2>2, Tails, TextOfHash DEF fragment_for_iri, percent_decode
  <2>4. <<"K8sSnapshot", e[2], e[3]>> \in FragmentKinds
    BY <2>1 DEF FragmentKinds
  <2>5. graph(<<"K8sSnapshot", e[2], e[3]>>) = Iri(e)
    BY <2>1, <2>2, K8sSnapshotNames
  <2>6. fragment_for_iri(Iri(e)) \in Answers(Iri(e))
    BY <2>3, <2>4, <2>5 DEF Answers, ByIri
  <2>. QED BY <2>1, <2>6
<1>22. CASE e \in {"k8s_nodes_fragment"} \X Names \X Hashes
  <2>1. e = <<"k8s_nodes_fragment", e[2], e[3]>> /\ e[2] \in Names /\ e[3] \in Hashes
    BY <1>22
  <2>2. Iri(e) = <<<<"k8s">>, e[2], <<"nodes">>, e[3]>>
    BY <2>1, NodesIri
  <2>3. fragment_for_iri(Iri(e)) = <<"K8sNodes", e[2], e[3]>>
    BY <2>1, <2>2, Tails, TextOfHash DEF fragment_for_iri, percent_decode
  <2>4. <<"K8sNodes", e[2], e[3]>> \in FragmentKinds
    BY <2>1 DEF FragmentKinds
  <2>5. graph(<<"K8sNodes", e[2], e[3]>>) = Iri(e)
    BY <2>1, <2>2, K8sNodesNames
  <2>6. fragment_for_iri(Iri(e)) \in Answers(Iri(e))
    BY <2>3, <2>4, <2>5 DEF Answers, ByIri
  <2>. QED BY <2>1, <2>6
<1>23. CASE e \in {"k8s_zone"} \X Names \X Names
  <2>1. e = <<"k8s_zone", e[2], e[3]>> /\ e[2] \in Names /\ e[3] \in Names
    BY <1>23
  <2>2. Iri(e) = <<<<"k8s">>, e[2], <<"domain">>, <<"zone">>, e[3]>>
    BY <2>1, ZoneIri
  <2>3. fragment_for_iri(Iri(e)) = NoFragment
    BY <2>1, <2>2, Tails DEF fragment_for_iri
  <2>. QED BY <2>3 DEF Answers
<1>24. CASE e \in {"k8s_permission"} \X Names \X Groups \X Names \X Names
  <2>1. /\ e = <<"k8s_permission", e[2], e[3], e[4], e[5]>>
        /\ e[2] \in Names /\ e[3] \in Groups /\ e[4] \in Names /\ e[5] \in Names
    BY <1>24
  <2>2. Iri(e) = <<<<"k8s">>, e[2], <<"permission">>, GroupSegment(e[3]), e[4], e[5]>>
    BY <2>1, PermissionIri
  <2>3. fragment_for_iri(Iri(e)) = NoFragment
    BY <2>1, <2>2, Tails DEF fragment_for_iri
  <2>. QED BY <2>3 DEF Answers
<1>. QED BY <1>1, <1>2, <1>3, <1>4, <1>5, <1>6, <1>7, <1>8, <1>9, <1>10, <1>11,
   <1>12, <1>13, <1>14, <1>15, <1>16, <1>17, <1>18, <1>19, <1>20, <1>21, <1>22,
   <1>23, <1>24, EntityForms

\* The two sorts of IRIs that are looked up.
LEMMA EntityIsNoGraph ==
  ASSUME NEW e \in Entities
  PROVE  e[1] # "graph"
BY EntityForms

-----------------------------------------------------------------------------
\* What is known of an IRI is what fragment_for_iri makes of it.
LookUpInv ==
  LookedUp =>
    /\ entity \in Entities \cup ({"graph"} \X FragmentKinds)
    /\ found = fragment_for_iri(IriOf(entity))

LEMMA LookUpIsInvariant == IriSpec => []LookUpInv
<1>1. IriInit => LookUpInv
  BY DEF IriInit, LookUpInv, LookedUp
<1>2. LookUpInv /\ [IriNext]_iriVars => LookUpInv'
  <2> SUFFICES ASSUME LookUpInv, [IriNext]_iriVars PROVE LookUpInv'
    OBVIOUS
  <2>1. CASE UNCHANGED iriVars
    BY <2>1 DEF LookUpInv, LookedUp, iriVars
  <2>2. CASE IriNext
    <3>1. PICK e \in Entities \cup ({"graph"} \X FragmentKinds) : Resolve(e)
      BY <2>2 DEF IriNext
    <3>. QED BY <3>1 DEF Resolve, LookUpInv
  <2>. QED BY <2>1, <2>2
<1>. QED BY <1>1, <1>2, PTL DEF IriSpec

\* fragment_for_iri (reason.rs) leads from an IRI to the fragment whose graph
\* it is, when such fragments are found by their IRI, and to none otherwise.
THEOREM LookUpIsSound == IriSpec => []FindsItsFragment
<1>1. LookUpInv => FindsItsFragment
  <2> SUFFICES ASSUME LookUpInv, LookedUp
               PROVE  LET mine == {k \in FragmentKinds :
                                     k[1] \in ByIri /\ graph(k) = IriOf(entity)}
                      IN IF mine = {} THEN found = NoFragment ELSE mine = {found}
    BY DEF FindsItsFragment
  <2> DEFINE mine == {k \in FragmentKinds : k[1] \in ByIri /\ graph(k) = IriOf(entity)}
  <2>1. found \in mine \cup {NoFragment}
    <3>1. CASE entity \in Entities
      BY <3>1, EntityLeads, EntityIsNoGraph DEF LookUpInv, IriOf, Answers
    <3>2. CASE entity \in {"graph"} \X FragmentKinds
      BY <3>2, GraphLeadsBack DEF LookUpInv, IriOf
    <3>. QED BY <3>1, <3>2 DEF LookUpInv
  <2>2. \A k \in mine : k = found
    BY GraphLeadsBack DEF LookUpInv
  <2>. HIDE DEF mine
  <2>3. IF mine = {} THEN found = NoFragment ELSE mine = {found}
    BY <2>1, <2>2
  <2>. QED BY <2>3 DEF mine
<1>. QED BY <1>1, LookUpIsInvariant, PTL

\* The IRIs of iri.rs are unambiguous, and so are the paths and the graphs of
\* fragment.rs: from each of them, what it is the name of can be told.
THEOREM NamesAreUnambiguous == IriSpec => []OneNameOneThing
<1>1. LookUpInv => OneNameOneThing
  <2> SUFFICES ASSUME LookUpInv, LookedUp
               PROVE  IF entity[1] # "graph"
                        THEN \A e \in Entities \ {entity} : Iri(e) # Iri(entity)
                        ELSE \A k \in FragmentKinds \ {entity[2]} :
                               /\ relative_path(k) # relative_path(entity[2])
                               /\ graph(k) # graph(entity[2])
    BY DEF OneNameOneThing
  <2>1. CASE entity \in Entities
    BY <2>1, EntityIsNoGraph, ReadsBack
  <2>2. CASE entity \in {"graph"} \X FragmentKinds
    <3>1. entity[1] = "graph" /\ entity[2] \in FragmentKinds
      BY <2>2
    <3>. QED BY <3>1, PathReadsBack, GraphReadsBack
  <2>. QED BY <2>1, <2>2 DEF LookUpInv
<1>. QED BY <1>1, LookUpIsInvariant, PTL
=============================================================================
