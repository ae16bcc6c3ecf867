-------------------------- MODULE HoldoutIndexProofs -------------------------
(***************************************************************************)
(* For every alphabet, phonetic code, holdout and length: no name within   *)
(* one edit of a held-out name, or sounding like one, is called clean.     *)
(***************************************************************************)
EXTENDS HoldoutIndex, FoldLemmas, TLAPS

\* The length of a word and where its letters are.
LEMMA WordShape ==
  ASSUME NEW w \in Words
  PROVE  Len(w) \in Nat /\ w \in [1..Len(w) -> Letters] /\ Len(w) <= MaxLength
BY IndexAssumption DEF Words

\* Words with one letter replaced lose the difference when both lose that
\* letter, so their deletion neighbourhoods meet.
LEMMA ReplacedLetter ==
  ASSUME NEW v \in Words, NEW w \in Words, Len(v) = Len(w),
         NEW i \in 1..Len(v), \A j \in 1..Len(v) : j # i => v[j] = w[j]
  PROVE  Without(v, i) = Without(w, i)
<1>1. \A j \in 1..(Len(v) - 1) :
        (IF j < i THEN v[j] ELSE v[j + 1]) = (IF j < i THEN w[j] ELSE w[j + 1])
  <2> SUFFICES ASSUME NEW j \in 1..(Len(v) - 1)
               PROVE  (IF j < i THEN v[j] ELSE v[j + 1]) = (IF j < i THEN w[j] ELSE w[j + 1])
    OBVIOUS
  <2>1. Len(v) \in Nat
    BY WordShape
  <2> QED
    BY <2>1
<1> QED
  BY <1>1 DEF Without

\* Words one edit apart share a word that each reaches by at most one deletion.
LEMMA OneEditMeets ==
  ASSUME NEW v \in Words, NEW w \in Words, OneEdit(v, w)
  PROVE  ({v} \cup Deletions(v)) \cap ({w} \cup Deletions(w)) # {}
<1>1. CASE \E i \in 1..Len(v) : w = Without(v, i)
  BY <1>1 DEF Deletions
<1>2. CASE \E i \in 1..Len(w) : v = Without(w, i)
  BY <1>2 DEF Deletions
<1>3. CASE /\ Len(v) = Len(w)
           /\ \E i \in 1..Len(v) : \A j \in 1..Len(v) : j # i => v[j] = w[j]
  <2>1. PICK i \in 1..Len(v) : \A j \in 1..Len(v) : j # i => v[j] = w[j]
    BY <1>3
  <2>2. Without(v, i) \in Deletions(v)
    BY DEF Deletions
  <2>3. Without(v, i) = Without(w, i)
    BY <1>3, <2>1, ReplacedLetter
  <2>4. Without(v, i) \in Deletions(w)
    BY <1>3, <2>3 DEF Deletions
  <2> QED
    BY <2>2, <2>4
<1> QED
  BY <1>1, <1>2, <1>3 DEF OneEdit

\* What the index called clean shares no such word with any indexed name.
LEMMA CleanSharesNothing ==
  ASSUME NEW names \in SUBSET Words, NEW c \in Words, c # <<>>,
         H!ContaminationKey(H!IndexOf(names), c) = "clean",
         NEW h \in names
  PROVE  /\ ({c} \cup Deletions(c)) \cap ({h} \cup Deletions(h)) = {}
         /\ Sound[c] = Silent \/ Sound[c] # Sound[h]
<1> DEFINE ix == H!IndexOf(names)
<1>1. /\ c \notin ix.exact
      /\ ~(Sound[c] # Silent /\ Sound[c] \in ix.phonetic)
      /\ ~H!OneEditAway(ix, c)
  BY DEF H!ContaminationKey
<1>2. /\ ix.exact = names
      /\ ix.phonetic = {Sound[n] : n \in names} \ {Silent}
      /\ ix.deletions = UNION {Deletions(n) : n \in names}
  BY DEF H!IndexOf
<1>3. c \notin ix.deletions /\ Deletions(c) \cap (ix.exact \cup ix.deletions) = {}
  BY <1>1 DEF H!OneEditAway
<1>4. h \in names /\ Deletions(h) \subseteq ix.deletions
  BY <1>2
<1>5. ({c} \cup Deletions(c)) \cap ({h} \cup Deletions(h)) = {}
  BY <1>1, <1>2, <1>3, <1>4
<1>6. Sound[c] = Silent \/ Sound[c] # Sound[h]
  BY <1>1, <1>2
<1> QED
  BY <1>5, <1>6

------------------------------------------------------------------------------
(* Type correctness *)

\* What is left of a word without one of its letters is a word.
LEMMA DeletionsAreWords ==
  ASSUME NEW w \in Words
  PROVE  Deletions(w) \subseteq Words
<1> SUFFICES ASSUME NEW i \in 1..Len(w) PROVE Without(w, i) \in Words
  BY DEF Deletions
<1>1. Len(w) \in Nat /\ w \in [1..Len(w) -> Letters] /\ Len(w) <= MaxLength
  BY WordShape
<1>2. Len(w) - 1 \in 0..MaxLength
  BY <1>1, IndexAssumption
<1>3. Without(w, i) \in [1..(Len(w) - 1) -> Letters]
  BY <1>1 DEF Without
<1> QED
  BY <1>2, <1>3 DEF Words

\* Index, candidates and answers stay what they are, whatever is indexed.
THEOREM TypeCorrect == Spec => []TypeOK
<1>1. Init => TypeOK
  BY IndexAssumption DEF Init, TypeOK, Words, H!IndexOf
<1>2. TypeOK /\ [Next]_vars => TypeOK'
  <2> SUFFICES ASSUME TypeOK, [Next]_vars PROVE TypeOK'
    OBVIOUS
  <2>1. CASE AddName
    <3>1. PICK n \in pending :
            /\ pending' = pending \ {n}
            /\ index'.exact = index.exact \cup {n}
            /\ index'.deletions = index.deletions \cup Deletions(n)
      BY <2>1 DEF AddName
    <3>2. n \in Words /\ Deletions(n) \subseteq Words
      BY DeletionsAreWords DEF TypeOK
    <3> QED
      BY <2>1, <3>1, <3>2 DEF AddName, TypeOK
  <2>2. CASE Ask
    BY <2>2 DEF Ask, TypeOK, H!ContaminationKey
  <2>3. CASE UNCHANGED vars
    BY <2>3 DEF vars, TypeOK
  <2> QED
    BY <2>1, <2>2, <2>3 DEF Next
<1> QED
  BY <1>1, <1>2, PTL DEF Spec

------------------------------------------------------------------------------
\* The index is the index of the names added so far, and an answer given is
\* the answer of that index.
IInv ==
  /\ pending \subseteq Words
  /\ index.exact \subseteq Words
  /\ index = H!IndexOf(index.exact)
  /\ candidate \in Words
  /\ answer # "none" => pending = {} /\ answer = H!ContaminationKey(index, candidate)

\* The library has no such fact about UNION.
LEMMA UnionOfOneMore ==
  ASSUME NEW S, NEW T
  PROVE  UNION (S \cup {T}) = (UNION S) \cup T
<1>1. ASSUME NEW x \in UNION (S \cup {T}) PROVE x \in (UNION S) \cup T
  OBVIOUS
<1>2. ASSUME NEW x \in (UNION S) \cup T PROVE x \in UNION (S \cup {T})
  OBVIOUS
<1> QED
  BY <1>1, <1>2

\* Adding a name to an index gives the index of one name more.
LEMMA AddingOneName ==
  ASSUME NEW names \in SUBSET Words, NEW n \in Words
  PROVE  H!IndexOf(names \cup {n}) =
           [exact     |-> names \cup {n},
            phonetic  |-> H!IndexOf(names).phonetic \cup ({Sound[n]} \ {Silent}),
            deletions |-> H!IndexOf(names).deletions \cup Deletions(n)]
<1>1. {Sound[m] : m \in names \cup {n}} \ {Silent}
        = ({Sound[m] : m \in names} \ {Silent}) \cup ({Sound[n]} \ {Silent})
  OBVIOUS
<1>2. UNION {Deletions(m) : m \in names \cup {n}}
        = (UNION {Deletions(m) : m \in names}) \cup Deletions(n)
  <2>1. {Deletions(m) : m \in names \cup {n}} = {Deletions(m) : m \in names} \cup {Deletions(n)}
    OBVIOUS
  <2> QED
    BY <2>1, UnionOfOneMore
<1>3. ASSUME NEW some \in SUBSET Words
      PROVE  H!IndexOf(some) =
               [exact     |-> some,
                phonetic  |-> {Sound[m] : m \in some} \ {Silent},
                deletions |-> UNION {Deletions(m) : m \in some}]
  <2>1. {[w \in Words |-> Deletions(w)][m] : m \in some} = {Deletions(m) : m \in some}
    OBVIOUS
  <2> QED
    BY <2>1 DEF H!IndexOf
<1>4. names \cup {n} \in SUBSET Words
  OBVIOUS
<1> DEFINE grown == names \cup {n}
<1>5. H!IndexOf(grown) =
        [exact     |-> grown,
         phonetic  |-> {Sound[m] : m \in grown} \ {Silent},
         deletions |-> UNION {Deletions(m) : m \in grown}]
  BY <1>3, <1>4
<1>6. /\ {Sound[m] : m \in grown} \ {Silent}
           = H!IndexOf(names).phonetic \cup ({Sound[n]} \ {Silent})
      /\ UNION {Deletions(m) : m \in grown}
           = H!IndexOf(names).deletions \cup Deletions(n)
  <2>1. /\ H!IndexOf(names).phonetic = {Sound[m] : m \in names} \ {Silent}
        /\ H!IndexOf(names).deletions = UNION {Deletions(m) : m \in names}
    BY <1>3
  <2> QED
    BY <1>1, <1>2, <2>1
<1> QED
  BY <1>5, <1>6

\* build starts from the index of no name at all.
LEMMA IInvInit == Init => IInv
<1> SUFFICES ASSUME Init PROVE IInv
  OBVIOUS
<1>1. pending \subseteq Words
  BY IndexAssumption DEF Init
<1>2. index.exact = {}
  BY DEF Init, H!IndexOf
<1>3. <<>> \in Words
  BY IndexAssumption DEF Words
<1> QED
  BY <1>1, <1>2, <1>3 DEF Init, IInv

\* Adding a name keeps the index the index of the names added so far, and
\* asking does not change it.
LEMMA IInvNext == IInv /\ [Next]_vars => IInv'
<1> SUFFICES ASSUME IInv, [Next]_vars PROVE IInv'
  OBVIOUS
<1>1. CASE AddName
  <2>1. PICK n \in pending :
          /\ pending' = pending \ {n}
          /\ index' = [exact     |-> index.exact \cup {n},
                       phonetic  |-> index.phonetic \cup ({Sound[n]} \ {Silent}),
                       deletions |-> index.deletions \cup Deletions(n)]
    BY <1>1 DEF AddName
  <2>2. n \in Words /\ index.exact \in SUBSET Words
    BY DEF IInv
  <2>3. index' = H!IndexOf(index.exact \cup {n})
    BY <2>1, <2>2, AddingOneName DEF IInv
  <2>4. index'.exact = index.exact \cup {n}
    BY <2>1
  <2>5. answer = "none" /\ answer' = answer /\ candidate' = candidate
    BY <1>1 DEF AddName, IInv
  <2> QED
    BY <2>1, <2>2, <2>3, <2>4, <2>5 DEF IInv
<1>2. CASE Ask
  BY <1>2 DEF Ask, IInv
<1>3. CASE UNCHANGED vars
  BY <1>3 DEF vars, IInv
<1> QED
  BY <1>1, <1>2, <1>3 DEF Next

\* No candidate within one edit of a held-out name, or with its sound, is
\* ever answered "clean".
THEOREM NothingCloseTheorem == Spec => []NothingCloseIsClean
<1>1. IInv => NothingCloseIsClean
  <2> SUFFICES ASSUME IInv, Answered, answer = "clean", NEW h \in index.exact
               PROVE  /\ ~OneEdit(candidate, h)
                      /\ Sound[candidate] = Silent \/ Sound[candidate] # Sound[h]
    BY DEF NothingCloseIsClean
  <2>1. /\ index.exact \in SUBSET Words /\ candidate \in Words /\ candidate # <<>>
        /\ h \in Words
        /\ H!ContaminationKey(H!IndexOf(index.exact), candidate) = "clean"
    BY DEF IInv, Answered
  <2>2. /\ ({candidate} \cup Deletions(candidate)) \cap ({h} \cup Deletions(h)) = {}
        /\ Sound[candidate] = Silent \/ Sound[candidate] # Sound[h]
    BY <2>1, CleanSharesNothing
  <2> QED
    BY <2>1, <2>2, OneEditMeets
<1> QED
  BY <1>1, IInvInit, IInvNext, PTL DEF Spec

------------------------------------------------------------------------------
(* What the table of Distance holds *)

Pairs(v, w) == (0..Len(v)) \X (0..Len(w))

\* Wherever the table is read when an entry of it is computed.
Entry(d, v, w, i, j) ==
  IF i = 0 THEN j
  ELSE IF j = 0 THEN i
  ELSE Min({d[<<i - 1, j>>] + 1, d[<<i, j - 1>>] + 1,
            d[<<i - 1, j - 1>>] + (IF v[i] = w[j] THEN 0 ELSE 1)})

Fills(d, v, w) == d = [p \in Pairs(v, w) |-> Entry(d, v, w, p[1], p[2])]

FilledUpTo(d, v, w, n) ==
  \A i \in 0..Len(v), j \in 0..Len(w) : i + j <= n => d[<<i, j>>] = Entry(d, v, w, i, j)

\* Entries are computed from entries that are nearer to the corner.
LEMMA EntryLooksBack ==
  ASSUME NEW d, NEW e, NEW v, NEW w, NEW i \in Nat, NEW j \in Nat,
         \A k \in 0..i, l \in 0..j : k + l < i + j => d[<<k, l>>] = e[<<k, l>>]
  PROVE  Entry(d, v, w, i, j) = Entry(e, v, w, i, j)
<1>1. CASE i = 0 \/ j = 0
  BY <1>1 DEF Entry
<1>2. CASE i # 0 /\ j # 0
  <2>1. /\ d[<<i - 1, j>>] = e[<<i - 1, j>>]
        /\ d[<<i, j - 1>>] = e[<<i, j - 1>>]
        /\ d[<<i - 1, j - 1>>] = e[<<i - 1, j - 1>>]
    <3>1. i - 1 \in 0..i /\ j - 1 \in 0..j /\ i \in 0..i /\ j \in 0..j
      BY <1>2
    <3>2. (i - 1) + j < i + j /\ i + (j - 1) < i + j /\ (i - 1) + (j - 1) < i + j
      BY <1>2
    <3> QED
      BY <3>1, <3>2
  <2> QED
    BY <1>2, <2>1 DEF Entry
<1> QED
  BY <1>1, <1>2

\* A table can be filled as far as one likes.
LEMMA FilledTable ==
  ASSUME NEW v \in Words, NEW w \in Words, NEW n \in Nat
  PROVE  \E d : FilledUpTo(d, v, w, n)
<1> DEFINE Without0 == {k \in Nat : ~ \E d : FilledUpTo(d, v, w, k)}
<1> SUFFICES ASSUME Without0 # {} PROVE FALSE
  OBVIOUS
<1>1. PICK k \in Without0 : \A m \in Without0 : k <= m
  BY LeastNatural
<1>2. PICK f : FilledUpTo(f, v, w, k - 1)
  <2>1. CASE k = 0
    BY <2>1, WordShape DEF FilledUpTo
  <2>2. CASE k # 0
    <3>1. k - 1 \in Nat /\ k - 1 \notin Without0
      BY <1>1, <2>2
    <3> QED
      BY <3>1
  <2> QED
    BY <2>1, <2>2
<1>3. PICK g : g = [p \in Pairs(v, w) |->
                      IF p[1] + p[2] < k THEN f[p] ELSE Entry(f, v, w, p[1], p[2])]
  OBVIOUS
<1>4. ASSUME NEW i \in 0..Len(v), NEW j \in 0..Len(w)
      PROVE  g[<<i, j>>] = IF i + j < k THEN f[<<i, j>>] ELSE Entry(f, v, w, i, j)
  <2>1. PICK p : p = <<i, j>>
    OBVIOUS
  <2>2. p \in Pairs(v, w) /\ p[1] = i /\ p[2] = j
    BY <2>1 DEF Pairs
  <2> QED
    BY <1>3, <2>1, <2>2
<1>5. ASSUME NEW i \in 0..Len(v), NEW j \in 0..Len(w), i + j <= k
      PROVE  g[<<i, j>>] = Entry(g, v, w, i, j)
  <2>1. Len(v) \in Nat /\ Len(w) \in Nat
    BY WordShape
  <2>2. g[<<i, j>>] = Entry(f, v, w, i, j)
    <3>1. CASE i + j < k
      <4>1. i + j <= k - 1
        BY <2>1, <3>1
      <4>2. f[<<i, j>>] = Entry(f, v, w, i, j)
        BY <1>2, <4>1 DEF FilledUpTo
      <4> QED
        BY <1>4, <3>1, <4>2
    <3>2. CASE ~(i + j < k)
      BY <1>4, <3>2
    <3> QED
      BY <3>1, <3>2
  <2>3. \A a \in 0..i, b \in 0..j : a + b < i + j => g[<<a, b>>] = f[<<a, b>>]
    BY <1>4, <1>5, <2>1
  <2>4. Entry(g, v, w, i, j) = Entry(f, v, w, i, j)
    <3>1. i \in Nat /\ j \in Nat
      BY <2>1
    <3> QED
      BY ONLY <2>3, <3>1, EntryLooksBack
  <2> QED
    BY <2>2, <2>4
<1>6. FilledUpTo(g, v, w, k)
  BY <1>5 DEF FilledUpTo
<1> QED
  BY <1>1, <1>6

\* So there is a full one, and Distance is an entry of it.
LEMMA DistanceIsAnEntry ==
  ASSUME NEW v \in Words, NEW w \in Words
  PROVE  \E d : Fills(d, v, w) /\ Distance(v, w) = d[<<Len(v), Len(w)>>]
<1>1. Len(v) \in Nat /\ Len(w) \in Nat
  BY WordShape
<1>2. PICK f : FilledUpTo(f, v, w, Len(v) + Len(w))
  BY <1>1, FilledTable
<1>3. PICK d : d = [p \in Pairs(v, w) |-> f[p]]
  OBVIOUS
<1>4. ASSUME NEW p \in Pairs(v, w)
      PROVE  d[p] = Entry(d, v, w, p[1], p[2])
  <2>1. PICK i \in 0..Len(v), j \in 0..Len(w) : p = <<i, j>>
    BY DEF Pairs
  <2>2. p[1] = i /\ p[2] = j /\ i \in Nat /\ j \in Nat
    BY <1>1, <2>1
  <2>3. d[p] = Entry(f, v, w, i, j)
    BY <1>1, <1>2, <1>3, <2>1 DEF FilledUpTo
  <2>4. \A a \in 0..i, b \in 0..j : a + b < i + j => d[<<a, b>>] = f[<<a, b>>]
    BY <1>1, <1>3, <2>1 DEF Pairs
  <2>5. Entry(d, v, w, i, j) = Entry(f, v, w, i, j)
    BY ONLY <2>2, <2>4, EntryLooksBack
  <2> QED
    BY <2>2, <2>3, <2>5
<1>5. Fills(d, v, w)
  BY <1>3, <1>4 DEF Fills
<1>6. Distance(v, w) = (CHOOSE e : Fills(e, v, w))[<<Len(v), Len(w)>>]
  BY DEF Distance, Fills, Entry, Pairs
<1> QED
  BY <1>5, <1>6

\* The least of three.
LEMMA MinOfThree ==
  ASSUME NEW a \in Nat, NEW b \in Nat, NEW c \in Nat, NEW S, S = {a, b, c}
  PROVE  Min(S) \in S /\ Min(S) <= a /\ Min(S) <= b /\ Min(S) <= c
<1>1. S \in SUBSET Nat /\ S # {}
  OBVIOUS
<1>2. PICK x \in S : \A y \in S : x <= y
  BY <1>1, LeastNatural
<1>3. Min(S) \in S /\ \A y \in S : Min(S) <= y
  BY <1>2 DEF Min
<1> QED
  BY <1>3

\* Replacing a letter by itself costs nothing.
Cost(a, b) == IF a = b THEN 0 ELSE 1

\* What the table says at one place, without Min.
Row(d, v, w, i, j) ==
  /\ d[<<i, j>>] \in Nat
  /\ i = 0 => d[<<i, j>>] = j
  /\ j = 0 => d[<<i, j>>] = i
  /\ i # 0 /\ j # 0 =>
       /\ d[<<i, j>>] <= d[<<i - 1, j>>] + 1
       /\ d[<<i, j>>] <= d[<<i, j - 1>>] + 1
       /\ d[<<i, j>>] <= d[<<i - 1, j - 1>>] + Cost(v[i], w[j])
       /\ \/ d[<<i, j>>] = d[<<i - 1, j>>] + 1
          \/ d[<<i, j>>] = d[<<i, j - 1>>] + 1
          \/ d[<<i, j>>] = d[<<i - 1, j - 1>>] + Cost(v[i], w[j])

Table(d, v, w) == \A i \in 0..Len(v), j \in 0..Len(w) : Row(d, v, w, i, j)

LEMMA FilledIsTable ==
  ASSUME NEW v \in Words, NEW w \in Words, NEW d, Fills(d, v, w)
  PROVE  Table(d, v, w)
<1>1. Len(v) \in Nat /\ Len(w) \in Nat
  BY WordShape
<1>2. ASSUME NEW i \in 0..Len(v), NEW j \in 0..Len(w)
      PROVE  d[<<i, j>>] = Entry(d, v, w, i, j)
  <2>1. PICK p : p = <<i, j>>
    OBVIOUS
  <2>2. p \in Pairs(v, w) /\ p[1] = i /\ p[2] = j
    BY <2>1 DEF Pairs
  <2>3. d[p] = Entry(d, v, w, p[1], p[2])
    BY <2>2 DEF Fills
  <2> QED
    BY <2>1, <2>2, <2>3
<1>3. ASSUME NEW i \in 0..Len(v), NEW j \in 0..Len(w),
             i # 0 /\ j # 0 => /\ d[<<i - 1, j>>] \in Nat /\ d[<<i, j - 1>>] \in Nat
                               /\ d[<<i - 1, j - 1>>] \in Nat
      PROVE  Row(d, v, w, i, j)
  <2>1. CASE i = 0 \/ j = 0
    <3>1. d[<<i, j>>] = IF i = 0 THEN j ELSE i
      BY <1>2, <2>1 DEF Entry
    <3> QED
      BY <1>1, <2>1, <3>1 DEF Row
  <2>2. CASE i # 0 /\ j # 0
    <3>1. PICK a, b, c : /\ a = d[<<i - 1, j>>] + 1 /\ b = d[<<i, j - 1>>] + 1
                         /\ c = d[<<i - 1, j - 1>>] + Cost(v[i], w[j])
      OBVIOUS
    <3>2. a \in Nat /\ b \in Nat /\ c \in Nat
      <4>1. Cost(v[i], w[j]) \in {0, 1}
        BY DEF Cost
      <4>2. /\ d[<<i - 1, j>>] \in Nat /\ d[<<i, j - 1>>] \in Nat
            /\ d[<<i - 1, j - 1>>] \in Nat
        BY <1>3, <2>2
      <4>3. PICK x, y, z, cost : /\ x = d[<<i - 1, j>>] /\ y = d[<<i, j - 1>>]
                                 /\ z = d[<<i - 1, j - 1>>] /\ cost = Cost(v[i], w[j])
        OBVIOUS
      <4>4. x \in Nat /\ y \in Nat /\ z \in Nat /\ cost \in {0, 1}
        BY ONLY <4>1, <4>2, <4>3
      <4>5. a = x + 1 /\ b = y + 1 /\ c = z + cost
        BY ONLY <3>1, <4>3
      <4> QED
        BY ONLY <4>4, <4>5
    <3>3. d[<<i, j>>] = Min({a, b, c})
      BY <1>2, <2>2, <3>1 DEF Entry, Cost
    <3>4. /\ Min({a, b, c}) \in {a, b, c}
          /\ Min({a, b, c}) <= a /\ Min({a, b, c}) <= b /\ Min({a, b, c}) <= c
      BY <3>2, MinOfThree
    <3> QED
      BY <2>2, <3>1, <3>2, <3>3, <3>4 DEF Row
  <2> QED
    BY <2>1, <2>2
<1> DEFINE Off == {n \in Nat : \E i \in 0..Len(v), j \in 0..Len(w) : i + j = n /\ ~Row(d, v, w, i, j)}
<1> HIDE DEF Off
<1>4. Off = {}
  <2> SUFFICES ASSUME Off # {} PROVE FALSE
    OBVIOUS
  <2>0. Off \in SUBSET Nat
    BY DEF Off
  <2>1. PICK n \in Off : \A m \in Off : n <= m
    BY <2>0, LeastNatural
  <2>2. PICK i \in 0..Len(v), j \in 0..Len(w) : i + j = n /\ ~Row(d, v, w, i, j)
    BY <2>1 DEF Off
  <2>3. ASSUME NEW k \in 0..Len(v), NEW l \in 0..Len(w), k + l < n
        PROVE  d[<<k, l>>] \in Nat
    <3>1. k + l \in Nat /\ k + l \notin Off
      BY <1>1, <2>0, <2>1, <2>3
    <3>2. Row(d, v, w, k, l)
      BY <3>1 DEF Off
    <3> QED
      BY <3>2 DEF Row
  <2>4. i # 0 /\ j # 0 => /\ d[<<i - 1, j>>] \in Nat /\ d[<<i, j - 1>>] \in Nat
                          /\ d[<<i - 1, j - 1>>] \in Nat
    <3> SUFFICES ASSUME i # 0, j # 0
                 PROVE  /\ d[<<i - 1, j>>] \in Nat /\ d[<<i, j - 1>>] \in Nat
                        /\ d[<<i - 1, j - 1>>] \in Nat
      OBVIOUS
    <3>1. i - 1 \in 0..Len(v) /\ j - 1 \in 0..Len(w)
      BY <1>1
    <3>2. (i - 1) + j < n /\ i + (j - 1) < n /\ (i - 1) + (j - 1) < n
      BY <1>1, <2>2
    <3> QED
      BY <2>3, <3>1, <3>2
  <2> QED
    BY <1>3, <2>2, <2>4
<1>5. ASSUME NEW i \in 0..Len(v), NEW j \in 0..Len(w) PROVE Row(d, v, w, i, j)
  <2>1. i + j \in Nat /\ i + j \notin Off
    BY <1>1, <1>4
  <2> QED
    BY <2>1 DEF Off
<1> QED
  BY <1>5 DEF Table

------------------------------------------------------------------------------
(* Small entries: what words that are near have in common *)

\* One place of the table, for words of Table.
LEMMA TableRow ==
  ASSUME NEW v, NEW w, NEW d, Table(d, v, w), NEW i \in 0..Len(v), NEW j \in 0..Len(w)
  PROVE  Row(d, v, w, i, j)
BY DEF Table

\* Prefixes at distance 0 are equal.
LEMMA NoEdit ==
  ASSUME NEW v \in Words, NEW w \in Words, NEW d, Table(d, v, w),
         NEW i \in 0..Len(v), NEW j \in 0..Len(w), d[<<i, j>>] = 0
  PROVE  i = j /\ \A k \in 1..i : v[k] = w[k]
<1> DEFINE P == {n \in Nat : \A a \in 0..Len(v), b \in 0..Len(w) :
                   a = n /\ d[<<a, b>>] = 0 => a = b /\ \A k \in 1..a : v[k] = w[k]}
<1>1. Len(v) \in Nat /\ Len(w) \in Nat
  BY WordShape
<1>2. 0 \in P
  <2> SUFFICES ASSUME NEW b \in 0..Len(w), 0 \in 0..Len(v), d[<<0, b>>] = 0 PROVE b = 0
    OBVIOUS
  <2>1. Row(d, v, w, 0, b)
    BY TableRow
  <2> QED
    BY <2>1 DEF Row
<1>3. ASSUME NEW n \in P PROVE n + 1 \in P
  <2> SUFFICES ASSUME NEW b \in 0..Len(w), n + 1 \in 0..Len(v), d[<<n + 1, b>>] = 0
               PROVE  n + 1 = b /\ \A k \in 1..(n + 1) : v[k] = w[k]
    OBVIOUS
  <2>1. n \in 0..Len(v) /\ n \in Nat
    BY <1>1
  <2>2. Row(d, v, w, n + 1, b)
    BY TableRow
  <2>3. b # 0 /\ b - 1 \in 0..Len(w)
    BY <1>1, <2>1, <2>2 DEF Row
  <2>4. Row(d, v, w, n, b) /\ Row(d, v, w, n + 1, b - 1) /\ Row(d, v, w, n, b - 1)
    BY <2>1, <2>3, TableRow
  <2>5. d[<<n, b>>] \in Nat /\ d[<<n + 1, b - 1>>] \in Nat /\ d[<<n, b - 1>>] \in Nat
    BY <2>4 DEF Row
  <2>6. \/ d[<<n + 1, b>>] = d[<<n, b>>] + 1
        \/ d[<<n + 1, b>>] = d[<<n + 1, b - 1>>] + 1
        \/ d[<<n + 1, b>>] = d[<<n, b - 1>>] + Cost(v[n + 1], w[b])
    <3>1. (n + 1) - 1 = n /\ n + 1 # 0
      BY <2>1
    <3> QED
      BY <2>2, <2>3, <3>1 DEF Row
  <2>7. d[<<n, b - 1>>] = 0 /\ v[n + 1] = w[b]
    <3>1. Cost(v[n + 1], w[b]) \in {0, 1} /\ (Cost(v[n + 1], w[b]) = 0 => v[n + 1] = w[b])
      BY DEF Cost
    <3>2. PICK x, y, z, cost : /\ x = d[<<n, b>>] /\ y = d[<<n + 1, b - 1>>]
                               /\ z = d[<<n, b - 1>>] /\ cost = Cost(v[n + 1], w[b])
      OBVIOUS
    <3>3. x \in Nat /\ y \in Nat /\ z \in Nat /\ cost \in {0, 1}
      BY ONLY <2>5, <3>1, <3>2
    <3>4. 0 = x + 1 \/ 0 = y + 1 \/ 0 = z + cost
      BY <2>6, <3>2
    <3>5. z = 0 /\ cost = 0
      BY ONLY <3>3, <3>4
    <3> QED
      BY ONLY <3>1, <3>2, <3>5
  <2>8. n = b - 1 /\ \A k \in 1..n : v[k] = w[k]
    BY <2>1, <2>3, <2>7
  <2> QED
    BY <2>1, <2>7, <2>8
<1>4. P = Nat
  <2>1. P \in SUBSET Nat
    OBVIOUS
  <2> HIDE DEF P
  <2> QED
    BY <1>2, <1>3, <2>1, NaturalInduction
<1>5. i \in P
  BY <1>1, <1>4
<1> QED
  BY <1>5

\* How prefixes at distance 1 differ: one letter is replaced, or dropped.
Replaced(v, w, i, j) ==
  i = j /\ \E k \in Nat : \A l \in 1..i : l # k => v[l] = w[l]

Dropped(v, w, i, j) ==
  /\ i = j + 1
  /\ \E k \in 1..i : /\ \A l \in 1..(k - 1) : v[l] = w[l]
                     /\ \A l \in k..j : v[l + 1] = w[l]

Near(v, w, i, j) == Replaced(v, w, i, j) \/ Dropped(v, w, i, j) \/ Dropped(w, v, j, i)

\* Equal letters at the end make no difference.
LEMMA ReplacedGrows ==
  ASSUME NEW v, NEW w, NEW i \in Nat, NEW j \in Nat,
         Replaced(v, w, i, j), v[i + 1] = w[j + 1]
  PROVE  Replaced(v, w, i + 1, j + 1)
<1>1. PICK k \in Nat : \A l \in 1..i : l # k => v[l] = w[l]
  BY DEF Replaced
<1>2. i = j
  BY DEF Replaced
<1>3. \A l \in 1..(i + 1) : l # k => v[l] = w[l]
  BY <1>1, <1>2
<1> QED
  BY <1>2, <1>3 DEF Replaced

LEMMA DroppedGrows ==
  ASSUME NEW v, NEW w, NEW i \in Nat, NEW j \in Nat,
         Dropped(v, w, i, j), v[i + 1] = w[j + 1]
  PROVE  Dropped(v, w, i + 1, j + 1)
<1>1. PICK k \in 1..i : /\ \A l \in 1..(k - 1) : v[l] = w[l]
                        /\ \A l \in k..j : v[l + 1] = w[l]
  BY DEF Dropped
<1>2. i = j + 1
  BY DEF Dropped
<1>3. \A l \in k..(j + 1) : v[l + 1] = w[l]
  BY <1>1, <1>2
<1>4. k \in 1..(i + 1)
  OBVIOUS
<1> QED
  BY <1>1, <1>2, <1>3, <1>4 DEF Dropped

\* A letter at the end is the one that is replaced or dropped.
LEMMA DifferAtTheEnd ==
  ASSUME NEW v, NEW w, NEW i \in Nat, \A l \in 1..i : v[l] = w[l]
  PROVE  Replaced(v, w, i + 1, i + 1) /\ Dropped(v, w, i + 1, i) /\ Dropped(w, v, i + 1, i)
<1>1. i + 1 \in 1..(i + 1) /\ (i + 1) - 1 = i /\ i + 1 \in Nat
  OBVIOUS
<1>2. \A l \in 1..(i + 1) : l # i + 1 => v[l] = w[l]
  OBVIOUS
<1>3. \A l \in (i + 1)..i : v[l + 1] = w[l] /\ w[l + 1] = v[l]
  OBVIOUS
<1>4. \A l \in 1..i : w[l] = v[l]
  OBVIOUS
<1>5. Replaced(v, w, i + 1, i + 1)
  BY <1>1, <1>2 DEF Replaced
<1>6. Dropped(v, w, i + 1, i)
  BY <1>1, <1>3 DEF Dropped
<1>7. Dropped(w, v, i + 1, i)
  BY <1>1, <1>3, <1>4 DEF Dropped
<1> QED
  BY <1>5, <1>6, <1>7

\* Prefixes at distance 1 or less differ by one letter or none.
LEMMA OneEditOrNone ==
  ASSUME NEW v \in Words, NEW w \in Words, NEW d, Table(d, v, w),
         NEW i \in 0..Len(v), NEW j \in 0..Len(w), d[<<i, j>>] <= 1
  PROVE  Near(v, w, i, j)
<1> DEFINE P == {n \in Nat : \A a \in 0..Len(v), b \in 0..Len(w) :
                   a = n /\ d[<<a, b>>] <= 1 => Near(v, w, a, b)}
<1>1. Len(v) \in Nat /\ Len(w) \in Nat
  BY WordShape
<1>2. ASSUME NEW a \in 0..Len(v), NEW b \in 0..Len(w), a = 0 \/ b = 0, d[<<a, b>>] <= 1
      PROVE  Near(v, w, a, b)
  <2>1. Row(d, v, w, a, b)
    BY TableRow
  <2>2. \/ a = 0 /\ b = 0
        \/ a = 0 /\ b = 1
        \/ a = 1 /\ b = 0
    <3>1. CASE a = 0
      <4>1. d[<<a, b>>] = b
        BY <2>1, <3>1 DEF Row
      <4> QED
        BY <1>1, <1>2, <3>1, <4>1
    <3>2. CASE b = 0
      <4>1. d[<<a, b>>] = a
        BY <2>1, <3>2 DEF Row
      <4> QED
        BY <1>1, <1>2, <3>2, <4>1
    <3> QED
      BY <1>2, <3>1, <3>2
  <2>3. CASE a = 0 /\ b = 0
    <3>1. \A l \in 1..0 : l # 0 => v[l] = w[l]
      OBVIOUS
    <3> QED
      BY <2>3, <3>1 DEF Near, Replaced
  <2>4. Dropped(v, w, 0 + 1, 0) /\ Dropped(w, v, 0 + 1, 0)
    <3>1. \A l \in 1..0 : v[l] = w[l]
      OBVIOUS
    <3> QED
      BY <3>1, DifferAtTheEnd
  <2>5. 0 + 1 = 1
    OBVIOUS
  <2> QED
    BY <2>2, <2>3, <2>4, <2>5 DEF Near
<1>3. 0 \in P
  BY <1>2
<1>4. ASSUME NEW n \in P PROVE n + 1 \in P
  <2> SUFFICES ASSUME NEW b \in 0..Len(w), n + 1 \in 0..Len(v), d[<<n + 1, b>>] <= 1
               PROVE  Near(v, w, n + 1, b)
    OBVIOUS
  <2>1. CASE b = 0
    BY <1>2, <2>1
  <2>2. CASE b # 0
    <3>1. n \in Nat /\ n \in 0..Len(v) /\ n + 1 # 0 /\ (n + 1) - 1 = n
      BY <1>1
    <3>2. PICK m : m = b - 1
      OBVIOUS
    <3>3. m \in Nat /\ m \in 0..Len(w) /\ b = m + 1
      BY <1>1, <2>2, <3>2
    <3>4. Row(d, v, w, n + 1, b) /\ Row(d, v, w, n, b) /\ Row(d, v, w, n + 1, m) /\ Row(d, v, w, n, m)
      BY <3>1, <3>3, TableRow
    <3>5. d[<<n, b>>] \in Nat /\ d[<<n + 1, m>>] \in Nat /\ d[<<n, m>>] \in Nat
      BY <3>4 DEF Row
    <3>6. \/ d[<<n + 1, b>>] = d[<<n, b>>] + 1
          \/ d[<<n + 1, b>>] = d[<<n + 1, m>>] + 1
          \/ d[<<n + 1, b>>] = d[<<n, m>>] + Cost(v[n + 1], w[b])
      BY <2>2, <3>1, <3>2, <3>4 DEF Row
    <3>7. CASE d[<<n + 1, b>>] = d[<<n, b>>] + 1
      <4>1. d[<<n, b>>] = 0
        BY <3>5, <3>7
      <4>2. n = b /\ \A k \in 1..n : v[k] = w[k]
        BY <3>1, <4>1, NoEdit
      <4> QED
        BY <3>1, <4>2, DifferAtTheEnd DEF Near
    <3>8. CASE d[<<n + 1, b>>] = d[<<n + 1, m>>] + 1
      <4>1. d[<<n + 1, m>>] = 0
        BY <3>5, <3>8
      <4>2. n + 1 = m /\ \A k \in 1..(n + 1) : v[k] = w[k]
        BY <3>3, <4>1, NoEdit
      <4>3. Dropped(w, v, m + 1, m)
        BY <3>3, <4>2, DifferAtTheEnd
      <4> QED
        BY <3>3, <4>2, <4>3 DEF Near
    <3>9. CASE d[<<n + 1, b>>] = d[<<n, m>>] + Cost(v[n + 1], w[b])
      <4>1. CASE v[n + 1] = w[b]
        <5>1. d[<<n, m>>] <= 1
          BY <3>5, <3>9, <4>1 DEF Cost
        <5>2. Near(v, w, n, m)
          BY <3>1, <3>3, <5>1
        <5> QED
          BY <3>1, <3>3, <4>1, <5>2, ReplacedGrows, DroppedGrows DEF Near
      <4>2. CASE v[n + 1] # w[b]
        <5>1. d[<<n, m>>] = 0
          BY <3>5, <3>9, <4>2 DEF Cost
        <5>2. n = m /\ \A k \in 1..n : v[k] = w[k]
          BY <3>1, <3>3, <5>1, NoEdit
        <5> QED
          BY <3>1, <3>3, <5>2, DifferAtTheEnd DEF Near
      <4> QED
        BY <4>1, <4>2
    <3> QED
      BY <3>6, <3>7, <3>8, <3>9
  <2> QED
    BY <2>1, <2>2
<1>5. P = Nat
  <2>1. P \in SUBSET Nat
    OBVIOUS
  <2> HIDE DEF P
  <2> QED
    BY <1>3, <1>4, <2>1, NaturalInduction
<1>6. i \in P
  <2>1. i \in Nat
    BY <1>1
  <2> HIDE DEF P
  <2> QED
    BY <1>5, <2>1
<1> QED
  BY <1>6

\* A letter dropped is a deletion.
LEMMA DroppedIsWithout ==
  ASSUME NEW v \in Words, NEW w \in Words, Dropped(v, w, Len(v), Len(w))
  PROVE  \E k \in 1..Len(v) : w = Without(v, k)
<1>1. Len(v) \in Nat /\ Len(w) \in Nat /\ w \in [1..Len(w) -> Letters]
  BY WordShape
<1>2. PICK k \in 1..Len(v) : /\ \A l \in 1..(k - 1) : v[l] = w[l]
                             /\ \A l \in k..Len(w) : v[l + 1] = w[l]
  BY DEF Dropped
<1>3. Len(v) - 1 = Len(w)
  BY <1>1 DEF Dropped
<1>4. \A l \in 1..Len(w) : w[l] = IF l < k THEN v[l] ELSE v[l + 1]
  BY <1>1, <1>2
<1>5. w = Without(v, k)
  BY <1>1, <1>3, <1>4 DEF Without
<1> QED
  BY <1>5

\* Words at distance 1 or less are one edit apart.
LEMMA DistanceOne ==
  ASSUME NEW v \in Words, NEW w \in Words, v # <<>>, Distance(v, w) <= 1
  PROVE  OneEdit(v, w)
<1>1. PICK d : Fills(d, v, w) /\ Distance(v, w) = d[<<Len(v), Len(w)>>]
  BY DistanceIsAnEntry
<1>2. Len(v) \in Nat /\ Len(w) \in Nat /\ v \in [1..Len(v) -> Letters]
  BY WordShape
<1>3. Near(v, w, Len(v), Len(w))
  <2>1. Table(d, v, w) /\ Len(v) \in 0..Len(v) /\ Len(w) \in 0..Len(w)
    BY <1>1, <1>2, FilledIsTable
  <2> QED
    BY <1>1, <2>1, OneEditOrNone
<1>4. CASE Replaced(v, w, Len(v), Len(w))
  <2>1. PICK k \in Nat : \A l \in 1..Len(v) : l # k => v[l] = w[l]
    BY <1>4 DEF Replaced
  <2>2. Len(v) # 0
    BY <1>2
  <2>3. \E i \in 1..Len(v) : \A l \in 1..Len(v) : l # i => v[l] = w[l]
    <3>1. CASE k \in 1..Len(v)
      BY <2>1, <3>1
    <3>2. CASE k \notin 1..Len(v)
      <4>1. 1 \in 1..Len(v) /\ \A l \in 1..Len(v) : v[l] = w[l]
        BY <1>2, <2>1, <2>2, <3>2
      <4> QED
        BY <4>1
    <3> QED
      BY <3>1, <3>2
  <2> QED
    BY <1>4, <2>3 DEF OneEdit, Replaced
<1>5. CASE Dropped(v, w, Len(v), Len(w))
  BY <1>5, DroppedIsWithout DEF OneEdit
<1>6. CASE Dropped(w, v, Len(w), Len(v))
  BY <1>6, DroppedIsWithout DEF OneEdit
<1> QED
  BY <1>3, <1>4, <1>5, <1>6 DEF Near

------------------------------------------------------------------------------
(* Large entries: words whose deletions meet are not far apart *)

\* Going down a diagonal of equal letters costs nothing.
LEMMA Diagonal ==
  ASSUME NEW v \in Words, NEW w \in Words, NEW d, Table(d, v, w),
         NEW i \in 0..Len(v), NEW j \in 0..Len(w), NEW t \in Nat,
         i + t <= Len(v), j + t <= Len(w),
         \A s \in 1..t : v[i + s] = w[j + s]
  PROVE  d[<<i + t, j + t>>] <= d[<<i, j>>]
<1> DEFINE P == {n \in Nat : n <= t => d[<<i + n, j + n>>] <= d[<<i, j>>]}
<1>1. Len(v) \in Nat /\ Len(w) \in Nat /\ i \in Nat /\ j \in Nat
  BY WordShape
<1>2. 0 \in P
  <2>1. Row(d, v, w, i, j)
    BY TableRow
  <2>2. i + 0 = i /\ j + 0 = j /\ d[<<i, j>>] \in Nat
    BY <1>1, <2>1 DEF Row
  <2> QED
    BY <2>2
<1>3. ASSUME NEW n \in P PROVE n + 1 \in P
  <2> SUFFICES ASSUME n + 1 <= t PROVE d[<<i + (n + 1), j + (n + 1)>>] <= d[<<i, j>>]
    OBVIOUS
  <2>1. n \in Nat /\ d[<<i + n, j + n>>] <= d[<<i, j>>]
    OBVIOUS
  <2>2. PICK x, y, x1, y1 : x = i + n /\ y = j + n /\ x1 = i + (n + 1) /\ y1 = j + (n + 1)
    OBVIOUS
  <2>3. /\ x \in 0..Len(v) /\ y \in 0..Len(w) /\ x1 \in 0..Len(v) /\ y1 \in 0..Len(w)
        /\ x1 # 0 /\ y1 # 0 /\ x1 - 1 = x /\ y1 - 1 = y /\ n + 1 \in 1..t
    BY <1>1, <2>1, <2>2
  <2>4. v[x1] = w[y1]
    BY <2>2, <2>3
  <2>5. Row(d, v, w, x1, y1) /\ Row(d, v, w, x, y) /\ Row(d, v, w, i, j)
    BY <2>3, TableRow
  <2>6. d[<<x1, y1>>] <= d[<<x, y>>] + 0
    BY <2>3, <2>4, <2>5 DEF Row, Cost
  <2>7. d[<<x1, y1>>] \in Nat /\ d[<<x, y>>] \in Nat /\ d[<<i, j>>] \in Nat
    BY <2>5 DEF Row
  <2>8. d[<<x, y>>] <= d[<<i, j>>]
    BY <2>1, <2>2
  <2>9. d[<<x1, y1>>] <= d[<<i, j>>]
    BY ONLY <2>6, <2>7, <2>8
  <2> QED
    BY <2>2, <2>9
<1>4. P = Nat
  <2>1. P \in SUBSET Nat
    OBVIOUS
  <2> HIDE DEF P
  <2> QED
    BY <1>2, <1>3, <2>1, NaturalInduction
<1>5. t \in P
  BY <1>4
<1> QED
  BY <1>5

\* A step to the side costs one.
LEMMA Sideways ==
  ASSUME NEW v \in Words, NEW w \in Words, NEW d, Table(d, v, w),
         NEW i \in 0..Len(v), NEW j \in 0..Len(w), NEW n \in Nat, d[<<i, j>>] <= n
  PROVE  /\ i + 1 <= Len(v) => d[<<i + 1, j>>] <= n + 1
         /\ j + 1 <= Len(w) => d[<<i, j + 1>>] <= n + 1
<1>1. Len(v) \in Nat /\ Len(w) \in Nat /\ i \in Nat /\ j \in Nat
  BY WordShape
<1>2. Row(d, v, w, i, j) /\ d[<<i, j>>] \in Nat
  <2>1. Row(d, v, w, i, j)
    BY TableRow
  <2> QED
    BY <2>1 DEF Row
<1>3. ASSUME i + 1 <= Len(v) PROVE d[<<i + 1, j>>] <= n + 1
  <2>1. PICK k : k = i + 1
    OBVIOUS
  <2>2. k \in 0..Len(v) /\ k # 0 /\ k - 1 = i
    BY <1>1, <1>3, <2>1
  <2>3. Row(d, v, w, k, j) /\ d[<<k, j>>] \in Nat
    <3>1. Row(d, v, w, k, j)
      BY <2>2, TableRow
    <3> QED
      BY <3>1 DEF Row
  <2>4. d[<<k, j>>] <= d[<<i, j>>] + 1
    <3>1. CASE j = 0
      BY <1>1, <1>2, <2>1, <2>2, <2>3, <3>1 DEF Row
    <3>2. CASE j # 0
      BY <2>2, <2>3, <3>2 DEF Row
    <3> QED
      BY <3>1, <3>2
  <2>5. d[<<k, j>>] <= n + 1
    BY <1>2, <2>3, <2>4
  <2> QED
    BY <2>1, <2>5
<1>4. ASSUME j + 1 <= Len(w) PROVE d[<<i, j + 1>>] <= n + 1
  <2>1. PICK k : k = j + 1
    OBVIOUS
  <2>2. k \in 0..Len(w) /\ k # 0 /\ k - 1 = j
    BY <1>1, <1>4, <2>1
  <2>3. Row(d, v, w, i, k) /\ d[<<i, k>>] \in Nat
    <3>1. Row(d, v, w, i, k)
      BY <2>2, TableRow
    <3> QED
      BY <3>1 DEF Row
  <2>4. d[<<i, k>>] <= d[<<i, j>>] + 1
    <3>1. CASE i = 0
      BY <1>1, <1>2, <2>1, <2>2, <2>3, <3>1 DEF Row
    <3>2. CASE i # 0
      BY <2>2, <2>3, <3>2 DEF Row
    <3> QED
      BY <3>1, <3>2
  <2>5. d[<<i, k>>] <= n + 1
    BY <1>2, <2>3, <2>4
  <2> QED
    BY <2>1, <2>5
<1> QED
  BY <1>3, <1>4

\* Prefixes that are equal are at distance 0.
LEMMA EqualPrefixes ==
  ASSUME NEW v \in Words, NEW w \in Words, NEW d, Table(d, v, w),
         NEW t \in Nat, t <= Len(v), t <= Len(w), \A s \in 1..t : v[s] = w[s]
  PROVE  t \in 0..Len(v) /\ t \in 0..Len(w) /\ d[<<t, t>>] <= 0
<1>1. Len(v) \in Nat /\ Len(w) \in Nat
  BY WordShape
<1>2. 0 \in 0..Len(v) /\ 0 \in 0..Len(w) /\ 0 + t = t /\ \A s \in 1..t : 0 + s = s
  BY <1>1
<1>3. \A s \in 1..t : v[0 + s] = w[0 + s]
  BY <1>2
<1>4. d[<<0 + t, 0 + t>>] <= d[<<0, 0>>]
  BY <1>2, <1>3, Diagonal
<1>5. Row(d, v, w, 0, 0)
  BY <1>2, TableRow
<1>6. d[<<0, 0>>] = 0
  BY <1>5 DEF Row
<1> QED
  BY <1>1, <1>2, <1>4, <1>6

\* The length of a deletion and where its letters come from.
LEMMA WithoutShape ==
  ASSUME NEW v \in Words, NEW i \in 1..Len(v)
  PROVE  /\ DOMAIN Without(v, i) = 1..(Len(v) - 1)
         /\ \A l \in 1..(i - 1) : Without(v, i)[l] = v[l]
         /\ \A l \in i..(Len(v) - 1) : Without(v, i)[l] = v[l + 1]
<1>1. Len(v) \in Nat
  BY WordShape
<1>2. ASSUME NEW l \in 1..(Len(v) - 1)
      PROVE  Without(v, i)[l] = IF l < i THEN v[l] ELSE v[l + 1]
  BY DEF Without
<1>3. DOMAIN Without(v, i) = 1..(Len(v) - 1)
  BY DEF Without
<1> QED
  BY <1>1, <1>2, <1>3

\* A deletion is at distance 1.
LEMMA DeletionIsOne ==
  ASSUME NEW v \in Words, NEW w \in Words, NEW d, Table(d, v, w),
         NEW k \in 1..Len(v), w = Without(v, k)
  PROVE  d[<<Len(v), Len(w)>>] <= 1
<1>1. Len(v) \in Nat /\ Len(w) \in Nat /\ w \in [1..Len(w) -> Letters]
  BY WordShape
<1>2. /\ DOMAIN w = 1..(Len(v) - 1)
      /\ \A l \in 1..(k - 1) : w[l] = v[l]
      /\ \A l \in k..(Len(v) - 1) : w[l] = v[l + 1]
  BY WithoutShape
<1>3. Len(w) = Len(v) - 1
  <2>1. 1..Len(w) = 1..(Len(v) - 1)
    BY <1>1, <1>2
  <2>2. Len(v) - 1 \in Nat
    BY <1>1
  <2> QED
    BY <1>1, <2>1, <2>2
<1>4. PICK m, t : m = k - 1 /\ t = Len(v) - k
  OBVIOUS
<1>5. /\ m \in Nat /\ t \in Nat /\ m <= Len(v) /\ m <= Len(w) /\ k = m + 1
      /\ k \in 0..Len(v) /\ k + t = Len(v) /\ m + t = Len(w)
  BY <1>1, <1>3, <1>4
<1>6. m \in 0..Len(v) /\ m \in 0..Len(w) /\ d[<<m, m>>] <= 0
  BY <1>2, <1>4, <1>5, EqualPrefixes
<1>7. d[<<k, m>>] <= 1
  <2>1. m + 1 <= Len(v)
    BY <1>1, <1>5
  <2>2. d[<<m + 1, m>>] <= 0 + 1
    BY <1>6, <2>1, Sideways
  <2> QED
    BY <1>5, <2>2
<1>8. ASSUME NEW s \in 1..t PROVE v[k + s] = w[m + s]
  <2>1. m + s \in k..(Len(v) - 1) /\ (m + s) + 1 = k + s
    BY <1>1, <1>4, <1>5
  <2> QED
    BY <1>2, <2>1
<1>9. d[<<Len(v), Len(w)>>] <= d[<<k, m>>]
  <2>1. k + t <= Len(v) /\ m + t <= Len(w)
    BY <1>1, <1>5
  <2>2. d[<<k + t, m + t>>] <= d[<<k, m>>]
    BY <1>5, <1>6, <1>8, <2>1, Diagonal
  <2>3. <<k + t, m + t>> = <<Len(v), Len(w)>>
    BY <1>5
  <2> QED
    BY <2>2, <2>3
<1>10. d[<<k, m>>] \in Nat /\ d[<<Len(v), Len(w)>>] \in Nat
  <2>1. Row(d, v, w, k, m) /\ Row(d, v, w, Len(v), Len(w))
    BY <1>1, <1>5, <1>6, TableRow
  <2> QED
    BY <2>1 DEF Row
<1> QED
  BY ONLY <1>7, <1>9, <1>10

\* Two words with a deletion in common are at distance 2 or less.
LEMMA MeetingIsTwo ==
  ASSUME NEW v \in Words, NEW w \in Words, NEW d, Table(d, v, w),
         NEW i \in 1..Len(v), NEW j \in 1..Len(w), i <= j, Without(v, i) = Without(w, j)
  PROVE  d[<<Len(v), Len(w)>>] <= 2
<1>1. Len(v) \in Nat /\ Len(w) \in Nat
  BY WordShape
<1>2. /\ DOMAIN Without(v, i) = 1..(Len(v) - 1)
      /\ \A l \in 1..(i - 1) : Without(v, i)[l] = v[l]
      /\ \A l \in i..(Len(v) - 1) : Without(v, i)[l] = v[l + 1]
  BY WithoutShape
<1>3. /\ DOMAIN Without(v, i) = 1..(Len(w) - 1)
      /\ \A l \in 1..(j - 1) : Without(v, i)[l] = w[l]
      /\ \A l \in j..(Len(w) - 1) : Without(v, i)[l] = w[l + 1]
  BY WithoutShape
<1>4. Len(v) = Len(w)
  <2>1. Len(v) - 1 \in Nat /\ Len(w) - 1 \in Nat
    BY <1>1
  <2>2. 1..(Len(v) - 1) = 1..(Len(w) - 1)
    BY <1>2, <1>3
  <2> QED
    BY <1>1, <2>1, <2>2
<1>5. PICK m, t, y, u : m = i - 1 /\ t = j - i /\ y = j - 1 /\ u = Len(v) - j
  OBVIOUS
<1>6. /\ m \in Nat /\ m <= Len(v) /\ m <= Len(w) /\ i = m + 1 /\ t \in Nat
      /\ i \in 0..Len(v) /\ i + t = j /\ m + t = y /\ y \in 0..Len(w) /\ j = y + 1
      /\ j \in 0..Len(v) /\ j \in 0..Len(w) /\ u \in Nat /\ j + u = Len(v) /\ j + u = Len(w)
  BY <1>1, <1>4, <1>5
<1>7. m \in 0..Len(v) /\ m \in 0..Len(w) /\ d[<<m, m>>] <= 0
  <2>1. \A s \in 1..m : v[s] = w[s]
    BY <1>2, <1>3, <1>5, <1>6
  <2> QED
    BY <1>6, <2>1, EqualPrefixes
<1>8. d[<<i, m>>] <= 1
  <2>1. m + 1 <= Len(v)
    BY <1>1, <1>6
  <2>2. d[<<m + 1, m>>] <= 0 + 1
    BY <1>7, <2>1, Sideways
  <2> QED
    BY <1>6, <2>2
<1>9. d[<<j, y>>] <= d[<<i, m>>]
  <2>1. ASSUME NEW s \in 1..t PROVE v[i + s] = w[m + s]
    <3>1. /\ m + s \in i..(Len(v) - 1) /\ (m + s) + 1 = i + s
          /\ m + s \in 1..(j - 1)
      BY <1>1, <1>5, <1>6
    <3> QED
      BY <1>2, <1>3, <3>1
  <2>2. i + t <= Len(v) /\ m + t <= Len(w)
    BY <1>1, <1>6
  <2>3. d[<<i + t, m + t>>] <= d[<<i, m>>]
    BY <1>6, <1>7, <2>1, <2>2, Diagonal
  <2>4. <<i + t, m + t>> = <<j, y>>
    BY <1>6
  <2> QED
    BY <2>3, <2>4
<1>10. /\ d[<<i, m>>] \in Nat /\ d[<<j, y>>] \in Nat /\ d[<<j, j>>] \in Nat
       /\ d[<<Len(v), Len(w)>>] \in Nat
  <2>1. Len(v) \in 0..Len(v) /\ Len(w) \in 0..Len(w)
    BY <1>1
  <2>2. \A a \in 0..Len(v), b \in 0..Len(w) : d[<<a, b>>] \in Nat
    BY DEF Table, Row
  <2> QED
    BY ONLY <1>6, <1>7, <2>1, <2>2
<1>11. d[<<j, y>>] <= 1
  BY ONLY <1>8, <1>9, <1>10
<1>12. d[<<j, j>>] <= 2
  <2>1. y + 1 <= Len(w)
    BY <1>1, <1>6
  <2>2. d[<<j, y + 1>>] <= 1 + 1
    BY <1>6, <1>11, <2>1, Sideways
  <2> QED
    BY <1>6, <2>2
<1>13. d[<<Len(v), Len(w)>>] <= d[<<j, j>>]
  <2>1. ASSUME NEW s \in 1..u PROVE v[j + s] = w[j + s]
    <3>1. PICK l : l = y + s
      OBVIOUS
    <3>2. l \in i..(Len(v) - 1) /\ l \in j..(Len(w) - 1) /\ l + 1 = j + s
      BY <1>1, <1>4, <1>5, <1>6, <3>1
    <3> QED
      BY <1>2, <1>3, <3>2
  <2>2. j + u <= Len(v) /\ j + u <= Len(w)
    BY <1>1, <1>6
  <2>3. d[<<j + u, j + u>>] <= d[<<j, j>>]
    BY <1>6, <2>1, <2>2, Diagonal
  <2>4. <<j + u, j + u>> = <<Len(v), Len(w)>>
    BY <1>6
  <2> QED
    BY <2>3, <2>4
<1> QED
  BY ONLY <1>10, <1>12, <1>13

\* The table of the two words the other way round.
LEMMA Transposed ==
  ASSUME NEW v \in Words, NEW w \in Words, NEW d, Table(d, v, w)
  PROVE  \E e : Table(e, w, v) /\ e[<<Len(w), Len(v)>>] = d[<<Len(v), Len(w)>>]
<1>1. PICK e : e = [p \in Pairs(w, v) |-> d[<<p[2], p[1]>>]]
  OBVIOUS
<1>2. Len(v) \in Nat /\ Len(w) \in Nat
  BY WordShape
<1>3. ASSUME NEW j \in 0..Len(w), NEW i \in 0..Len(v)
      PROVE  e[<<j, i>>] = d[<<i, j>>]
  <2>1. PICK p : p = <<j, i>>
    OBVIOUS
  <2>2. p \in Pairs(w, v) /\ p[1] = j /\ p[2] = i
    BY <2>1 DEF Pairs
  <2> QED
    BY <1>1, <2>1, <2>2
<1>4. ASSUME NEW j \in 0..Len(w), NEW i \in 0..Len(v)
      PROVE  Row(e, w, v, j, i)
  <2>1. Row(d, v, w, i, j)
    BY TableRow
  <2>2. e[<<j, i>>] = d[<<i, j>>]
    BY <1>3
  <2>3. i # 0 /\ j # 0 => /\ e[<<j - 1, i>>] = d[<<i, j - 1>>]
                          /\ e[<<j, i - 1>>] = d[<<i - 1, j>>]
                          /\ e[<<j - 1, i - 1>>] = d[<<i - 1, j - 1>>]
    <3> SUFFICES ASSUME i # 0, j # 0
                 PROVE  /\ e[<<j - 1, i>>] = d[<<i, j - 1>>]
                        /\ e[<<j, i - 1>>] = d[<<i - 1, j>>]
                        /\ e[<<j - 1, i - 1>>] = d[<<i - 1, j - 1>>]
      OBVIOUS
    <3>1. i - 1 \in 0..Len(v) /\ j - 1 \in 0..Len(w)
      BY <1>2
    <3> QED
      BY <1>3, <3>1
  <2>4. Cost(v[i], w[j]) = Cost(w[j], v[i])
    BY DEF Cost
  <2> QED
    BY <2>1, <2>2, <2>3, <2>4 DEF Row
<1>5. Table(e, w, v)
  BY <1>4 DEF Table
<1> QED
  BY <1>2, <1>3, <1>5

\* Words whose deletion neighbourhoods meet, if only in a word shorter by one
\* letter than either, are at distance 2 or less.
LEMMA DistanceTwo ==
  ASSUME NEW v \in Words, NEW w \in Words,
         \/ v \in Deletions(w) \/ w \in Deletions(v)
         \/ Deletions(v) \cap Deletions(w) # {}
  PROVE  Distance(v, w) <= 2
<1>1. PICK d : Fills(d, v, w) /\ Distance(v, w) = d[<<Len(v), Len(w)>>]
  BY DistanceIsAnEntry
<1>2. Table(d, v, w)
  BY <1>1, FilledIsTable
<1>3. PICK e : Table(e, w, v) /\ e[<<Len(w), Len(v)>>] = d[<<Len(v), Len(w)>>]
  BY <1>2, Transposed
<1>4. d[<<Len(v), Len(w)>>] \in Nat
  <2>1. Len(v) \in 0..Len(v) /\ Len(w) \in 0..Len(w)
    BY WordShape
  <2>2. Row(d, v, w, Len(v), Len(w))
    BY <1>2, <2>1, TableRow
  <2> QED
    BY <2>2 DEF Row
<1>5. CASE w \in Deletions(v)
  <2>1. PICK k \in 1..Len(v) : w = Without(v, k)
    BY <1>5 DEF Deletions
  <2>2. d[<<Len(v), Len(w)>>] <= 1
    BY <1>2, <2>1, DeletionIsOne
  <2> QED
    BY <1>1, <1>4, <2>2
<1>6. CASE v \in Deletions(w)
  <2>1. PICK k \in 1..Len(w) : v = Without(w, k)
    BY <1>6 DEF Deletions
  <2>2. e[<<Len(w), Len(v)>>] <= 1
    BY <1>3, <2>1, DeletionIsOne
  <2> QED
    BY <1>1, <1>3, <1>4, <2>2
<1>7. CASE Deletions(v) \cap Deletions(w) # {}
  <2>1. PICK i \in 1..Len(v), j \in 1..Len(w) : Without(v, i) = Without(w, j)
    BY <1>7 DEF Deletions
  <2>2. i <= j \/ j <= i
    BY WordShape
  <2>3. CASE i <= j
    BY <1>1, <1>2, <2>1, <2>3, MeetingIsTwo
  <2>4. CASE j <= i
    BY <1>1, <1>3, <2>1, <2>4, MeetingIsTwo
  <2> QED
    BY <2>2, <2>3, <2>4
<1> QED
  BY <1>5, <1>6, <1>7

------------------------------------------------------------------------------
(* How far the edit key reaches *)

\* The edit key is given to a name for the sake of a held-out name with which
\* it shares a word that is shorter by a letter than one of them or both.
LEMMA EditKeyMeets ==
  ASSUME NEW names \in SUBSET Words, NEW c \in Words,
         H!ContaminationKey(H!IndexOf(names), c) = "edit_distance"
  PROVE  \E h \in names : \/ c \in Deletions(h) \/ h \in Deletions(c)
                          \/ Deletions(c) \cap Deletions(h) # {}
<1> DEFINE ix == H!IndexOf(names)
<1>1. H!OneEditAway(ix, c)
  BY DEF H!ContaminationKey
<1>2. ix.exact = names /\ ix.deletions = UNION {Deletions(n) : n \in names}
  BY DEF H!IndexOf
<1>3. c \in ix.deletions \/ Deletions(c) \cap (ix.exact \cup ix.deletions) # {}
  BY <1>1 DEF H!OneEditAway
<1> QED
  BY <1>2, <1>3

\* For every alphabet, holdout and length: what is called clean is at
\* Levenshtein distance 2 or more from every held-out name, and what the edit
\* key excludes is at distance 2 or less from one.
THEOREM EditKeyTheorem == Spec => []EditKeyIsWithinTwo
<1>1. IInv => EditKeyIsWithinTwo
  <2> SUFFICES ASSUME IInv, Answered
               PROVE  /\ answer = "clean" => ~ \E h \in index.exact : Distance(candidate, h) <= 1
                      /\ answer = "edit_distance" => \E h \in index.exact : Distance(candidate, h) <= 2
    BY DEF EditKeyIsWithinTwo
  <2>1. /\ index.exact \in SUBSET Words /\ candidate \in Words /\ candidate # <<>>
        /\ answer = H!ContaminationKey(H!IndexOf(index.exact), candidate)
    BY DEF IInv, Answered
  <2>2. ASSUME answer = "clean", NEW h \in index.exact, Distance(candidate, h) <= 1
        PROVE  FALSE
    <3>1. OneEdit(candidate, h)
      BY <2>1, <2>2, DistanceOne
    <3>2. ({candidate} \cup Deletions(candidate)) \cap ({h} \cup Deletions(h)) = {}
      BY <2>1, <2>2, CleanSharesNothing
    <3> QED
      BY <2>1, <2>2, <3>1, <3>2, OneEditMeets
  <2>3. ASSUME answer = "edit_distance"
        PROVE  \E h \in index.exact : Distance(candidate, h) <= 2
    <3>1. PICK h \in index.exact : \/ candidate \in Deletions(h) \/ h \in Deletions(candidate)
                                   \/ Deletions(candidate) \cap Deletions(h) # {}
      BY <2>1, <2>3, EditKeyMeets
    <3> QED
      BY <2>1, <3>1, DistanceTwo
  <2> QED
    BY <2>2, <2>3
<1> QED
  BY <1>1, IInvInit, IInvNext, PTL DEF Spec
==============================================================================
