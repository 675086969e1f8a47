----------------------------- MODULE IriScheme -----------------------------
(* The IRIs of the tool (iri.rs), the graph IRI and the path of a fragment *)
(* (fragment.rs), and the way back from an IRI to the fragment that        *)
(* defines it (reason.rs, fragment_for_iri).  A text is the sequence of    *)
(* its pieces between slashes.  An IRI below ID_BASE, or a path, is the    *)
(* sequence of its segments: encode_segment turns a text into one segment, *)
(* an unencoded text leaves as many segments as it has pieces.             *)
EXTENDS Naturals, Sequences, FiniteSets

CONSTANTS
  Hashes,    \* texts of one piece: hashes, revisions, digests
  Names,     \* texts: attributes, repositories, clusters, names
  Groups,    \* the API groups of Kubernetes, <<>> for the core one
  Nars,      \* NAR hashes: <<"sri", v>>, or <<v>> for one that is not base64
  NoFragment \* no entity; no fragment

\* A hash has no slash, and no API group that has a name is named "core".
ASSUME SchemeAssumption ==
  /\ Names \subseteq Seq(STRING) /\ \A h \in Hashes : h = <<h[1]>>
  /\ \A n \in Nars : n[1] # "url" /\ n = IF n[1] = "sri" THEN <<"sri", n[2]>> ELSE <<n[1]>>
  /\ <<"core">> \notin Groups

VARIABLES
  entity, \* what the IRI was made for
  found   \* what fragment_for_iri makes of it

iriVars == <<entity, found>>

-----------------------------------------------------------------------------
\* One segment, whatever the text holds; percent_decode gives the text back.
encode_segment(text) == <<text>>
percent_decode(segment) == segment

\* What format! does with a text that is not encoded.
Raw(text) == [i \in DOMAIN text |-> <<text[i]>>]

\* Of an iri, the segments as the text they were before they were split.
Text(segments) == [i \in DOMAIN segments |-> segments[i][1]]

\* SRI base64 becomes base64url, and back; another form stays as it is.
nar_hash_segment(n) ==
  IF n[1] = "sri" THEN <<<<"url", n[2]>>>> ELSE encode_segment(n)

\* Mutant of decode_nar: base64url is taken for the hash.
decode_nar_raw(segment) == segment

decode_nar(segment) ==
  IF segment[1] = "url" THEN <<"sri", segment[2]>> ELSE segment

Lit(word) == <<<<word>>>>
\* Two texts with a colon or a dash between them, in one segment.
Joined(a, b) == <<a \o b>>

-----------------------------------------------------------------------------
\* Every constructor of an instance IRI: what it is called with.
Entities ==
  UNION {
    {"drv", "out", "nixpkgs", "gen", "value", "image", "layer", "pack"} \X Hashes,
    {"release", "option", "owner", "k8s_cluster"} \X Names,
    {"src", "pin"} \X Nars,
    {"pin_attr", "nixos_configuration"} \X Nars \X Names,
    {"flake_input"} \X Nars \X Names \X Names,
    {"nixpkgs_attr", "option_value"} \X Hashes \X Names,
    {"package_version"} \X Names \X Names,
    {"commit", "k8s_snapshot", "k8s_nodes_fragment"} \X Names \X Hashes,
    {"derived"} \X Hashes \X Hashes,
    {"option_definition"} \X Hashes \X Names \X Hashes,
    {"k8s_node", "k8s_namespace", "k8s_zone"} \X Names \X Names,
    {"k8s_service"} \X Names \X Names \X Names,
    {"k8s_container"} \X Names \X Names \X Names \X Names,
    {"k8s_permission"} \X Names \X Groups \X Names \X Names}

\* Mutant of flake_input: an input is named without the node it is an input of.
flake_input_by_name(e) ==
  Lit("pin") \o nar_hash_segment(e[2]) \o Lit("input") \o encode_segment(e[4])

flake_input(e) ==
  Lit("pin") \o nar_hash_segment(e[2]) \o Lit("input")
    \o encode_segment(e[3]) \o encode_segment(e[4])

nix_iri(e) ==
  LET opt == Lit("gen") \o Raw(e[2]) \o Lit("opt") \o encode_segment(e[3])
  IN CASE e[1] \in {"drv", "out", "nixpkgs", "gen", "value", "pack"} ->
            Lit(e[1]) \o Raw(e[2])
       [] e[1] \in {"src", "pin"} -> Lit(e[1]) \o nar_hash_segment(e[2])
       [] e[1] = "flake_input" -> flake_input(e)
       [] e[1] = "pin_attr" ->
            Lit("pin") \o nar_hash_segment(e[2]) \o Lit("attr") \o encode_segment(e[3])
       [] e[1] = "nixos_configuration" ->
            Lit("pin") \o nar_hash_segment(e[2]) \o Lit("nixosConfigurations")
              \o encode_segment(e[3])
       [] e[1] = "nixpkgs_attr" ->
            Lit("nixpkgs") \o Raw(e[2]) \o Lit("attr") \o encode_segment(e[3])
       [] e[1] = "package_version" ->
            Lit("pkgver") \o encode_segment(e[2]) \o encode_segment(e[3])
       [] e[1] \in {"release", "option"} -> Lit(e[1]) \o encode_segment(e[2])
       [] e[1] = "commit" -> Lit("git") \o encode_segment(e[2]) \o Raw(e[3])
       [] e[1] = "option_value" -> opt
       [] e[1] = "option_definition" -> opt \o Lit("def") \o Raw(e[4])
       [] e[1] = "image" -> Lit("oci") \o Lit("sha256") \o Raw(e[2])
       [] e[1] = "layer" -> Lit("oci") \o Lit("layer") \o Lit("sha256") \o Raw(e[2])
       [] e[1] = "derived" -> Lit("derived") \o Joined(e[2], e[3])
       [] e[1] = "owner" -> Lit("org") \o Lit("owner") \o encode_segment(e[2])

k8s_iri(e) ==
  LET In(kind) == Lit("k8s") \o encode_segment(e[2]) \o Lit(kind)
  IN CASE e[1] = "k8s_cluster" -> Lit("k8s") \o Lit("cluster") \o encode_segment(e[2])
       [] e[1] = "k8s_node" -> In("node") \o encode_segment(e[3])
       [] e[1] = "k8s_namespace" -> In("ns") \o encode_segment(e[3])
       [] e[1] = "k8s_service" ->
            In("service") \o encode_segment(e[3]) \o encode_segment(e[4])
       [] e[1] = "k8s_container" ->
            In("deployment") \o encode_segment(e[3]) \o encode_segment(e[4])
              \o Lit("c") \o encode_segment(e[5])
       [] e[1] = "k8s_snapshot" -> In("snapshot") \o Raw(e[3])
       [] e[1] = "k8s_nodes_fragment" -> In("nodes") \o Raw(e[3])
       [] e[1] = "k8s_zone" -> In("domain") \o Lit("zone") \o encode_segment(e[3])
       [] e[1] = "k8s_permission" ->
            In("permission") \o encode_segment(IF e[3] = <<>> THEN <<"core">> ELSE e[3])
              \o encode_segment(e[4]) \o encode_segment(e[5])

OfK8s == {"k8s_cluster", "k8s_node", "k8s_namespace", "k8s_service", "k8s_container",
          "k8s_snapshot", "k8s_nodes_fragment", "k8s_zone", "k8s_permission"}
Iri(e) == IF e[1] \in OfK8s THEN k8s_iri(e) ELSE nix_iri(e)

-----------------------------------------------------------------------------
\* FragmentKind.  A kind of a downstream tool is none of this tool's.
FragmentKinds ==
  UNION {
    {"Drv", "Out", "Nixpkgs", "Gen", "Image", "Index", "Value", "Env"} \X Hashes,
    {"Src", "Pin"} \X Nars,
    {"Commit", "K8sSnapshot", "K8sNodes"} \X Names \X Hashes,
    {"Derived", "Run"} \X Hashes \X Hashes,
    {"K8sObserved"} \X Names \X Hashes \X Names,
    {"Ext"} \X {<<"trace">>} \X Names}

fragment_iri(kind, ident) == Lit("fragment") \o Lit(kind) \o ident

graph(k) ==
  CASE k[1] = "Drv" -> Iri(<<"drv", k[2]>>)
    [] k[1] = "Src" -> Iri(<<"src", k[2]>>)
    [] k[1] = "Pin" -> Iri(<<"pin", k[2]>>)
    [] k[1] = "Nixpkgs" -> Iri(<<"nixpkgs", k[2]>>)
    [] k[1] = "Gen" -> Iri(<<"gen", k[2]>>)
    [] k[1] = "Image" -> Iri(<<"image", k[2]>>)
    [] k[1] = "Commit" -> Iri(<<"commit", k[2], k[3]>>)
    [] k[1] = "Derived" -> Iri(<<"derived", k[2], k[3]>>)
    [] k[1] = "K8sSnapshot" -> Iri(<<"k8s_snapshot", k[2], k[3]>>)
    [] k[1] = "K8sNodes" -> Iri(<<"k8s_nodes_fragment", k[2], k[3]>>)
    [] k[1] = "Out" -> fragment_iri("out", Raw(k[2]))
    [] k[1] = "Value" -> fragment_iri("values", Raw(k[2]))
    [] k[1] = "Env" -> fragment_iri("env", Raw(k[2]))
    [] k[1] = "Index" -> fragment_iri("index", Joined(<<"nixpkgs-multiverse">>, k[2]))
    [] k[1] = "Run" -> fragment_iri("run", Joined(k[2], k[3]))
    [] k[1] = "K8sObserved" ->
         fragment_iri("k8s-observed",
                      encode_segment(k[2]) \o Raw(k[3]) \o encode_segment(k[4]))
    [] k[1] = "Ext" -> encode_segment(k[2]) \o encode_segment(k[3])

run_path(k) == Lit("runs") \o Raw(k[2]) \o Raw(k[3])

relative_path(k) ==
  CASE k[1] = "Drv" -> Lit("drv") \o Raw(k[2])
    [] k[1] = "Out" -> Lit("out") \o Raw(k[2])
    [] k[1] = "Src" -> Lit("src") \o nar_hash_segment(k[2])
    [] k[1] = "Pin" -> Lit("pin") \o nar_hash_segment(k[2])
    [] k[1] = "Nixpkgs" -> Lit("nixpkgs") \o Raw(k[2])
    [] k[1] = "Commit" -> Lit("commit") \o encode_segment(k[2]) \o Raw(k[3])
    [] k[1] = "Gen" -> Lit("gen") \o Raw(k[2])
    [] k[1] = "Image" -> Lit("image") \o Raw(k[2])
    [] k[1] = "Index" -> Lit("index") \o Joined(<<"nixpkgs-multiverse">>, k[2])
    [] k[1] = "Derived" -> Lit("derived") \o Raw(k[2]) \o Raw(k[3])
    [] k[1] = "Run" -> run_path(k)
    [] k[1] = "Value" -> Lit("values") \o Raw(k[2])
    [] k[1] = "Env" -> Lit("env") \o Raw(k[2])
    [] k[1] = "K8sSnapshot" ->
         Lit("k8s") \o encode_segment(k[2]) \o Lit("snapshot") \o Raw(k[3])
    [] k[1] = "K8sNodes" ->
         Lit("k8s") \o encode_segment(k[2]) \o Lit("nodes") \o Raw(k[3])
    [] k[1] = "K8sObserved" ->
         Lit("k8s") \o encode_segment(k[2]) \o Lit("observed") \o Joined(k[3], k[4])
    [] k[1] = "Ext" -> Lit("ext") \o encode_segment(k[2]) \o encode_segment(k[3])

-----------------------------------------------------------------------------
\* fragment_for_iri: the kind is the first segment, the id the others.
fragment_for_iri(iri) ==
  LET kind == iri[1][1]
      id == Tail(iri)
      one == Len(id) = 1
  IN CASE kind = "drv" -> <<"Drv", Text(id)>>
       [] kind = "src" -> <<"Src", decode_nar(id[1])>>
       [] kind = "pin" /\ one -> <<"Pin", decode_nar(id[1])>>
       [] kind = "gen" /\ one -> <<"Gen", Text(id)>>
       [] kind = "nixpkgs" /\ one -> <<"Nixpkgs", Text(id)>>
       [] kind = "oci" /\ id[1] = <<"sha256">> -> <<"Image", Text(Tail(id))>>
       [] kind = "git" /\ Len(id) = 2 -> <<"Commit", percent_decode(id[1]), id[2]>>
       [] kind = "k8s" /\ Len(id) > 2 /\ id[2] = <<"snapshot">> ->
            <<"K8sSnapshot", percent_decode(id[1]), Text(Tail(Tail(id)))>>
       [] kind = "k8s" /\ Len(id) > 2 /\ id[2] = <<"nodes">> ->
            <<"K8sNodes", percent_decode(id[1]), Text(Tail(Tail(id)))>>
       [] OTHER -> NoFragment

IriOf(e) == IF e[1] = "graph" THEN graph(e[2]) ELSE Iri(e)

IriInit == entity = NoFragment /\ found = NoFragment

\* The IRI of an entity, or of a fragment's graph, is looked up.
Resolve(e) ==
  /\ entity = NoFragment
  /\ entity' = e
  /\ found' = fragment_for_iri(IriOf(e))

IriNext == \E e \in Entities \cup ({"graph"} \X FragmentKinds) : Resolve(e)

IriSpec == IriInit /\ [][IriNext]_iriVars

LookedUp == entity # NoFragment

-----------------------------------------------------------------------------
\* An IRI leads to the fragment whose graph it is, and to none when it is not
\* the graph of a fragment that is found this way (fragment_for_iri: "if the
\* mapping is a function of the IRI (drv, src, pin, gen, image, nixpkgs,
\* commit, k8s)").
ByIri == {"Drv", "Src", "Pin", "Gen", "Image", "Nixpkgs", "Commit", "K8sSnapshot",
          "K8sNodes"}
FindsItsFragment ==
  LookedUp =>
    LET mine == {k \in FragmentKinds : k[1] \in ByIri /\ graph(k) = IriOf(entity)}
    IN IF mine = {} THEN found = NoFragment ELSE mine = {found}

\* Two entities have two IRIs, and two fragments two files and two graphs,
\* whatever their names hold: no statement about one can be read as one about
\* another, and no write replaces another fragment.
OneNameOneThing ==
  LookedUp =>
    IF entity[1] # "graph" THEN \A e \in Entities \ {entity} : Iri(e) # Iri(entity)
    ELSE \A k \in FragmentKinds \ {entity[2]} :
           relative_path(k) # relative_path(entity[2]) /\ graph(k) # graph(entity[2])
=============================================================================
