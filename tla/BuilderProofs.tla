----------------------------- MODULE BuilderProofs -----------------------------
(***************************************************************************)
(* What the exclusion index and the builder compute, for any names, any    *)
(* holdout and any offer: the lemmas that CorpusGuardProofs and            *)
(* ProvenanceProofs rest on.                                               *)
(***************************************************************************)
EXTENDS Builder, FoldLemmas, TLAPS

\* The index decides each candidate as comparing it with every held-out name
\* would: looking words up in the two deletion sets loses and adds nothing.
LEMMA KeyIsPairwise ==
  ASSUME NEW names \in SUBSET Words, NEW l \in Lines
  PROVE  ContaminationKey(IndexOf(names), l) = "clean"
           <=> \A h \in names : ~Resembles(Fold[l], h)
<1> DEFINE name == Fold[l]
<1>1. OneEditAway(IndexOf(names), name) \/ name \in names
        <=> \E h \in names : ({name} \cup Del[name]) \cap ({h} \cup Del[h]) # {}
  BY DEF OneEditAway, IndexOf
<1>2. Sound[name] # Silent /\ Sound[name] \in IndexOf(names).phonetic
        <=> \E h \in names : Sound[name] # Silent /\ Sound[name] = Sound[h]
  BY DEF IndexOf
<1>3. IndexOf(names).exact = names
  BY DEF IndexOf
<1> QED
  BY <1>1, <1>2, <1>3 DEF ContaminationKey, Resembles

\* A name is admitted or excluded under one key.
LEMMA KeyIsKnown ==
  ASSUME NEW index, NEW n
  PROVE  ContaminationKey(index, n) \in ExclusionKeys \cup {"clean"}
BY DEF ContaminationKey, ExclusionKeys

\* excluded_by_holdout: its counts add up to the names that are gone.
LEMMA ExclusionsAddUp ==
  ASSUME NEW use, NEW names, IsFiniteSet(names), NEW holdout
  PROVE  SumFunction(Excluded(use, names, holdout)) = Cardinality(names \ Admitted(use, names, holdout))
<1>1. IsFiniteSet(ExclusionKeys)
  <2>1. ExclusionKeys = ({} \cup {"exact"} \cup {"phonetic"}) \cup {"edit_distance"}
    BY DEF ExclusionKeys
  <2> QED
    BY <2>1, FS_EmptySet, FS_AddElement
<1>2. CASE Filtered(use, holdout)
  <2>1. PICK key : key = [n \in names |-> ContaminationKey(IndexOf(holdout), n)]
    OBVIOUS
  <2>2. Excluded(use, names, holdout) = [k \in ExclusionKeys |-> Cardinality({n \in names : key[n] = k})]
    <3>1. \A k : {n \in names : ContaminationKey(IndexOf(holdout), n) = k} = {n \in names : key[n] = k}
      BY <2>1
    <3> QED
      BY <1>2, <3>1 DEF Excluded
  <2>3. SumFunction(Excluded(use, names, holdout)) = Cardinality({n \in names : key[n] \in ExclusionKeys})
    BY ONLY IsFiniteSet(names), <1>1, <2>2, SumOfClasses
  <2>4. {n \in names : key[n] \in ExclusionKeys} = names \ Admitted(use, names, holdout)
    BY <1>2, <2>1, KeyIsKnown DEF Admitted, ExclusionKeys
  <2> QED
    BY <2>3, <2>4
<1>3. CASE ~Filtered(use, holdout)
  <2>1. PICK none : none = {}
    OBVIOUS
  <2>2. PICK key : key = [n \in none |-> n]
    OBVIOUS
  <2>3. /\ IsFiniteSet(none) /\ Cardinality(none) = 0
        /\ \A k : {n \in none : key[n] = k} = none
        /\ {n \in none : key[n] \in ExclusionKeys} = none
    BY <2>1, FS_EmptySet
  <2>4. Excluded(use, names, holdout) = [k \in ExclusionKeys |-> Cardinality({n \in none : key[n] = k})]
    BY <1>3, <2>3 DEF Excluded
  <2>5. SumFunction(Excluded(use, names, holdout)) = Cardinality({n \in none : key[n] \in ExclusionKeys})
    BY ONLY <1>1, <2>3, <2>4, SumOfClasses
  <2>6. names \ Admitted(use, names, holdout) = none
    BY <1>3, <2>1 DEF Admitted
  <2> QED
    BY <2>3, <2>5, <2>6
<1> QED
  BY <1>2, <1>3

\* A name is only excluded from an induction artifact, and because it resembles
\* a held-out name.
LEMMA ExcludedForAReason ==
  ASSUME NEW use, NEW names \in SUBSET Lines, NEW holdout \in {None} \cup SUBSET Words,
         NEW n \in names \ Admitted(use, names, holdout)
  PROVE  use = "induction" /\ \E h \in holdout : Resembles(Fold[n], h)
<1>1. Filtered(use, holdout) /\ ContaminationKey(IndexOf(holdout), n) # "clean"
  BY DEF Admitted
<1>2. use = "induction" /\ holdout \in SUBSET Words
  BY <1>1 DEF Filtered
<1> QED
  BY <1>1, <1>2, KeyIsPairwise
==============================================================================
