------------------------------- MODULE Holdout -------------------------------
(***************************************************************************)
(* services/corpus/holdout.py: the canonical form of a holdout, its seal,  *)
(* and the exclusion index that decides whether a name is contaminated.    *)
(*                                                                         *)
(* Text is abstract.  A line is what one line of holdout.txt, or one name  *)
(* of an artifact, holds; a word is a folded line.  Module HoldoutIndex    *)
(* gives words letters and checks what Del means for edit distance.        *)
(***************************************************************************)
EXTENDS Naturals, FiniteSets

CONSTANTS
  Lines,          \* raw lines and names
  Words,          \* folded lines, and what is left of them after a deletion
  Empty,          \* the empty word
  Fold,           \* line -> word: line.strip().casefold()
  Alphabetic,     \* the lines that strip to non-empty ASCII letters
  Sound,          \* word -> primary Double Metaphone code (external package)
  Silent,         \* the empty code
  Del,            \* word -> its single-character deletions
  MinHoldoutSize  \* MIN_HOLDOUT_SIZE

ASSUME TextAssumption ==
  /\ Empty \in Words
  /\ Fold \in [Lines -> Words]
  /\ Alphabetic \subseteq Lines
  /\ \A l \in Alphabetic : Fold[l] # Empty
  /\ DOMAIN Sound = Words
  /\ Del \in [Words -> SUBSET Words]
  /\ MinHoldoutSize \in Nat

\* Wrong form of Canonical: the names are not folded.
UnfoldedCanonical(lines) == lines \cap Alphabetic

\* normalise_names: lines that are not plain letters vanish without a trace.
Canonical(lines) == {Fold[l] : l \in lines \cap Alphabetic}

(***************************************************************************)
(* A seal holds the SHA-256 of the canonical names.  Hashes do not collide *)
(* here, so a seal is the canonical set itself.                            *)
(***************************************************************************)
SealOf(lines) == Canonical(lines)

\* Wrong forms of Verifies: only the size, or only the hash, is compared.
VerifiesSize(lines, seal) == Cardinality(Canonical(lines)) >= MinHoldoutSize
VerifiesHash(lines, seal) == Canonical(lines) = seal

\* verify_seal returns: the hash is compared first, then the size.
Verifies(lines, seal) ==
  /\ Canonical(lines) = seal
  /\ Cardinality(Canonical(lines)) >= MinHoldoutSize

\* HoldoutIndex.build, from names that are canonical already.
IndexOf(names) ==
  [exact     |-> names,
   phonetic  |-> {Sound[n] : n \in names} \ {Silent},
   deletions |-> UNION {Del[n] : n \in names}]

\* Wrong form of OneEditAway: a replaced letter goes unnoticed.
OneDeletionAway(index, name) ==
  name \in index.deletions \/ Del[name] \cap index.exact # {}

\* The two deletion-neighbourhood lookups that stand for edit distance 1.
OneEditAway(index, name) ==
  \/ name \in index.deletions
  \/ Del[name] \cap (index.exact \cup index.deletions) # {}

(***************************************************************************)
(* HoldoutIndex.contamination_key.  The keys are tried in this order, and  *)
(* "clean" is the None of the code.                                        *)
(***************************************************************************)
ContaminationKey(index, candidate) ==
  LET name == Fold[candidate]
  IN  IF name = Empty THEN "clean"
      ELSE IF name \in index.exact THEN "exact"
      ELSE IF Sound[name] # Silent /\ Sound[name] \in index.phonetic THEN "phonetic"
      ELSE IF OneEditAway(index, name) THEN "edit_distance"
      ELSE "clean"

(***************************************************************************)
(* What the index promises, one held-out name at a time: a candidate       *)
(* resembles a held-out name when they are equal, sound alike, or reach a  *)
(* common word by deleting at most one letter from each.                   *)
(***************************************************************************)
Resembles(name, heldOut) ==
  /\ name # Empty
  /\ \/ name = heldOut
     \/ Sound[name] # Silent /\ Sound[name] = Sound[heldOut]
     \/ ({name} \cup Del[name]) \cap ({heldOut} \cup Del[heldOut]) # {}

CleanOf(lines, names) == \A l \in lines, h \in names : ~Resembles(Fold[l], h)
==============================================================================
