------------------------------- MODULE Builder -------------------------------
(***************************************************************************)
(* pipeline.build_artifact: provider results are combined, for one use,    *)
(* into an artifact.  A pure function; CorpusGuard and Provenance call it. *)
(***************************************************************************)
EXTENDS Naturals, Sequences, FiniteSets, Licensing, Holdout

CONSTANTS
  ProviderIds,  \* ids that descriptors, blends and artifacts may name
  None          \* no file, no index, nothing loaded

\* What the guard reads of an artifact.
Artifacts == [use : Uses, providers : SUBSET ProviderIds, names : SUBSET Lines]

\* ProviderResult: the descriptor the provider declares and its distinct names.
Results == [provider : ProviderIds, licence : LicenceClasses,
            kind : ProviderKinds, names : SUBSET Lines]

\* A blend is a sequence of entries; an entry without roles is an error.
BlendEntries == [provider : ProviderIds, roles : (SUBSET Uses) \ {{}}]

\* CorpusBlend.entry_for: the first entry decides, later ones are ignored.
RolesFor(blend, id) ==
  UNION {blend[i].roles : i \in {k \in DOMAIN blend :
    /\ blend[k].provider = id
    /\ \A earlier \in 1..(k - 1) : blend[earlier].provider # id}}

\* Wrong form of Contributing: whoever the blend lists contributes.
ContributingListed(use, blend, offer) ==
  {r \in offer : \E i \in DOMAIN blend : blend[i].provider = r.provider}

Contributing(use, blend, offer) ==
  {r \in offer : use \in RolesFor(blend, r.provider)}

\* require, then the autophagy gate, for every contributing result.
GatesOpen(use, contributing) ==
  \A r \in contributing :
    /\ Permits(r, use)
    /\ ~(use = "induction" /\ r.kind = "internal")

MergedNames(contributing) == UNION {r.names : r \in contributing}

\* The holdout is applied to the merged names, and only for induction.
Filtered(use, holdout) == use = "induction" /\ holdout # None

\* Wrong form of Admitted: only exact matches are filtered.
AdmittedUnlessExact(use, names, holdout) ==
  IF Filtered(use, holdout) THEN {n \in names : Fold[n] \notin holdout} ELSE names

Admitted(use, names, holdout) ==
  IF Filtered(use, holdout)
    THEN {n \in names : ContaminationKey(IndexOf(holdout), n) = "clean"}
    ELSE names

ExclusionKeys == {"exact", "phonetic", "edit_distance"}

\* excluded_by_holdout: how many names each key cost.
Excluded(use, names, holdout) ==
  [key \in ExclusionKeys |->
     IF Filtered(use, holdout)
       THEN Cardinality({n \in names : ContaminationKey(IndexOf(holdout), n) = key})
       ELSE 0]

BuiltFrom(use, contributing, holdout) ==
  [use       |-> use,
   providers |-> {r.provider : r \in contributing},
   names     |-> Admitted(use, MergedNames(contributing), holdout)]

(***************************************************************************)
(* _artifact_id is a SHA-256 of use, blend id and sorted names.  It does   *)
(* not collide here, and a blend id names one blend.                       *)
(***************************************************************************)
ArtifactId(use, blend, names) == <<use, blend, names>>
==============================================================================
