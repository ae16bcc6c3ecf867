--------------------------- MODULE MCHoldoutIndex ----------------------------
(***************************************************************************)
(* Every word of up to four letters over a vowel and a consonant, and      *)
(* every holdout of one such word, or of two of up to two letters.  The    *)
(* phonetic code of a word is its consonants, as Metaphone keeps them, and *)
(* doubled ones count once.                                                *)
(***************************************************************************)
EXTENDS HoldoutIndex

MCLetters == {"a", "k"}
MCSilent == ""
MCSound == [w \in Words |->
  LET clusters == {i \in DOMAIN w : w[i] = "k" /\ (i = 1 \/ w[i - 1] # "k")}
  IN  CASE Cardinality(clusters) = 0 -> ""
        [] Cardinality(clusters) = 1 -> "K"
        [] OTHER -> "KK"]

Short == UNION {[1..n -> Letters] : n \in 1..2}
MCHoldouts == {{w} : w \in Words \ {<<>>}} \cup {{v, w} : v, w \in Short}
==============================================================================
