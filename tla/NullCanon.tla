----------------------------- MODULE NullCanon -----------------------------
(* What becomes of the existential nulls a rule run invents (reason.rs,    *)
(* canonicalize_nulls): each is named by the hash of the triples it occurs *)
(* in, read with every null blotted out, so that the derived fragment does *)
(* not depend on the labels Nemo happens to give.  A hash is what it       *)
(* hashes.  Literals behave as IRIs do, and are left out as objects.       *)
EXTENDS Naturals, Functions

CONSTANTS
  Nulls,  \* the labels of nulls
  Iris,   \* the IRIs subjects and objects may be
  Preds,  \* the predicates
  Blank,  \* what stands for a null in a line
  MaxTriples \* bound: rows of new/3

\* The blank is no IRI (it is "_").
ASSUME NullAssumption == Blank \notin Iris

Terms == Nulls \cup Iris
Triples == [s : Terms, p : Preds, o : Terms]

VARIABLES
  triples, \* the rows of new/3
  canon    \* what canonicalize_nulls makes of them

nullVars == <<triples, canon>>

-----------------------------------------------------------------------------
Blot(t) == IF t \in Nulls THEN Blank ELSE t
Line(tr) == [s |-> Blot(tr.s), p |-> tr.p, o |-> Blot(tr.o)]

\* Mutant of Sig: the lines keep the labels of the nulls.
SigLabelled(n, T) ==
  {<<"S", tr>> : tr \in {x \in T : x.s = n}}
    \cup {<<"O", tr>> : tr \in {x \in T : x.o = n}}

\* Mutant of Sig: only the lines the null is the subject of.
SigAsSubject(n, T) == {<<"S", Line(tr)>> : tr \in {x \in T : x.s = n}}

\* The lines a null is in, as subject or as object.
Sig(n, T) ==
  {<<"S", Line(tr)>> : tr \in {x \in T : x.s = n}}
    \cup {<<"O", Line(tr)>> : tr \in {x \in T : x.o = n}}

\* The IRI of a null is the hash of its lines.
NullIri(t, T) == IF t \in Nulls THEN Sig(t, T) ELSE t
Canon(T) == {[s |-> NullIri(tr.s, T), p |-> tr.p, o |-> NullIri(tr.o, T)] : tr \in T}

NullInit ==
  /\ triples \in {Range(f) : f \in [1 .. MaxTriples -> Triples]}
  /\ canon = {}

Canonicalize == canon = {} /\ canon' = Canon(triples) /\ UNCHANGED triples

NullNext == Canonicalize

NullSpec == NullInit /\ [][NullNext]_nullVars

NullsNamed == canon # {}

-----------------------------------------------------------------------------
Relabel(pi, T) ==
  LET Of(t) == IF t \in Nulls THEN pi[t] ELSE t
  IN {[s |-> Of(tr.s), p |-> tr.p, o |-> Of(tr.o)] : tr \in T}

\* The derived fragment is the same whatever labels the engine gave its nulls
\* ("Give every existential null a deterministic IRI").
LabelsDoNotMatter ==
  NullsNamed => \A pi \in Bijection(Nulls, Nulls) : Canon(Relabel(pi, triples)) = canon

Alike(t, u) == t = u \/ {t, u} \subseteq Nulls

\* Nulls that become one node say the same, and the same is said of them, but
\* for which nulls they are linked to: a line holds a blank for every null, so
\* nulls that differ only in what the nulls beside them say are merged, though
\* they are not "indistinguishable anyway".
MergesOnlyTheSame ==
  \A n, m \in Nulls : NullIri(n, triples) = NullIri(m, triples) =>
    \A tr \in triples :
      /\ tr.s = n => \E x \in triples : x.s = m /\ x.p = tr.p /\ Alike(x.o, tr.o)
      /\ tr.o = n => \E x \in triples : x.o = m /\ x.p = tr.p /\ Alike(x.s, tr.s)
=============================================================================
