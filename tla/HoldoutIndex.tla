----------------------------- MODULE HoldoutIndex ----------------------------
(***************************************************************************)
(* HoldoutIndex of services/corpus/holdout.py with words that have letters *)
(* (Holdout leaves them abstract): the index is built name by name and     *)
(* then asked about candidates.  The question is what the two lookups in   *)
(* deletion neighbourhoods have to do with edit distance.                  *)
(***************************************************************************)
EXTENDS Naturals, Sequences, FiniteSetsExt

CONSTANTS
  Letters,
  MaxLength,  \* bound on the length of the words considered
  Holdouts,   \* the canonical holdouts considered: sets of words
  Sound,      \* word -> phonetic code (external package)
  Silent      \* the empty code

Words == UNION {[1..n -> Letters] : n \in 0..MaxLength}

ASSUME IndexAssumption ==
  /\ MaxLength \in Nat
  /\ Holdouts \subseteq SUBSET (Words \ {<<>>})
  /\ DOMAIN Sound = Words

\* word[:i] + word[i + 1 :]
Without(word, i) ==
  [j \in 1..(Len(word) - 1) |-> IF j < i THEN word[j] ELSE word[j + 1]]

\* Wrong forms of Deletions: a placeholder is left behind, or the last letter
\* is never deleted.
Blanked(word) == {[word EXCEPT ![i] = "*"] : i \in 1..Len(word)}
ProperDeletions(word) == {Without(word, i) : i \in 1..(Len(word) - 1)}

\* _deletions: every single-character deletion.
Deletions(word) == {Without(word, i) : i \in 1..Len(word)}

\* Candidates are folded already, and every word but the empty one is letters.
H == INSTANCE Holdout WITH
       Lines <- Words, Empty <- <<>>, Fold <- [w \in Words |-> w],
       Alphabetic <- Words \ {<<>>}, Del <- [w \in Words |-> Deletions(w)],
       MinHoldoutSize <- 0

VARIABLES
  pending,    \* held-out names build has still to index
  index,
  candidate,  \* the last candidate asked about
  answer      \* and contamination_key of it

vars == <<pending, index, candidate, answer>>

Init ==
  /\ pending \in Holdouts
  /\ index = H!IndexOf({})
  /\ candidate = <<>>
  /\ answer = "none"

\* One turn of build's loop, with the name's entries in the other two sets.
AddName ==
  /\ \E n \in pending :
       /\ pending' = pending \ {n}
       /\ index' = [exact     |-> index.exact \cup {n},
                    phonetic  |-> index.phonetic \cup ({Sound[n]} \ {Silent}),
                    deletions |-> index.deletions \cup Deletions(n)]
  /\ UNCHANGED <<candidate, answer>>

Ask ==
  /\ pending = {}
  /\ candidate' \in Words
  /\ answer' = H!ContaminationKey(index, candidate')
  /\ UNCHANGED <<pending, index>>

Next == AddName \/ Ask

Spec == Init /\ [][Next]_vars

------------------------------------------------------------------------------
(* Reference definitions *)

\* Levenshtein distance, by dynamic programming: d[<<i, j>>] is the distance
\* of the first i letters of v and the first j of w.
Distance(v, w) ==
  LET d[p \in (0..Len(v)) \X (0..Len(w))] ==
        LET i == p[1]
            j == p[2]
        IN  IF i = 0 THEN j
            ELSE IF j = 0 THEN i
            ELSE Min({d[<<i - 1, j>>] + 1, d[<<i, j - 1>>] + 1,
                      d[<<i - 1, j - 1>>] + (IF v[i] = w[j] THEN 0 ELSE 1)})
  IN  d[<<Len(v), Len(w)>>]

\* At most one letter of v is replaced, inserted or deleted to give w.
OneEdit(v, w) ==
  \/ /\ Len(v) = Len(w)
     /\ \E i \in 1..Len(v) : \A j \in 1..Len(v) : j # i => v[j] = w[j]
  \/ \E i \in 1..Len(v) : w = Without(v, i)
  \/ \E i \in 1..Len(w) : v = Without(w, i)

(* Properties *)

TypeOK ==
  /\ pending \subseteq Words
  /\ index.exact \subseteq Words
  /\ index.deletions \subseteq Words
  /\ candidate \in Words
  /\ answer \in {"none", "clean", "exact", "phonetic", "edit_distance"}

Answered == pending = {} /\ candidate # <<>> /\ answer # "none"

\* Under-exclusion silently contaminates the evaluation: a candidate called
\* clean is more than one edit away from EVERY held-out name and sounds like
\* none of them.
NothingCloseIsClean ==
  Answered /\ answer = "clean" =>
    \A h \in index.exact :
      /\ ~OneEdit(candidate, h)
      /\ Sound[candidate] = Silent \/ Sound[candidate] # Sound[h]

\* The same against Levenshtein distance; and over-exclusion is bounded, for
\* the index "can flag a few pairs at distance 2", but no pair farther apart.
EditKeyIsWithinTwo ==
  Answered =>
    LET nearest(d) == \E h \in index.exact : Distance(candidate, h) <= d
    IN  /\ answer = "clean" => ~nearest(1)
        /\ answer = "edit_distance" => nearest(2)
==============================================================================
