----------------------------- MODULE IngestProofs -----------------------------
(***************************************************************************)
(* What the operators of Normalise and the loop of Ingest compute, for any *)
(* file: the lemmas that ProvenanceProofs puts together.                   *)
(***************************************************************************)
EXTENDS Ingest, SequencesExt, FoldLemmas, SequenceTheorems, TLAPS

------------------------------------------------------------------------------
(* aggregate is a loop *)

\* The recursion that FoldLeft stands for, on the positions 1..n of a sequence.
Turns(records, n, h) ==
  h = [s \in SUBSET (1..n) |->
         IF s = {} THEN <<>> ELSE Absorb(h[s \ {Max(s)}], records[Max(s)])]

\* There is a function that follows it.
LEMMA TurnsExist ==
  ASSUME NEW records, NEW k \in Nat
  PROVE  \E h : Turns(records, k, h)
<1> DEFINE Without == {n \in Nat : ~ \E h : Turns(records, n, h)}
<1> SUFFICES ASSUME Without # {} PROVE FALSE
  OBVIOUS
<1>1. PICK n \in Without : \A m \in Without : n <= m
  BY LeastNatural
<1>2. n # 0
  <2> DEFINE h == [s \in SUBSET (1..0) |-> <<>>]
  <2>1. SUBSET (1..0) = {{}}
    OBVIOUS
  <2>2. Turns(records, 0, h)
    BY <2>1 DEF Turns
  <2> QED
    BY <2>2
<1>3. n - 1 \in Nat /\ n - 1 \notin Without
  BY <1>1, <1>2
<1>4. PICK g : Turns(records, n - 1, g)
  BY <1>3
<1> DEFINE next(s) == IF s = {} THEN <<>> ELSE Absorb(g[s \ {Max(s)}], records[Max(s)])
<1>5. PICK h : h = [s \in SUBSET (1..n) |-> IF n \in s THEN next(s) ELSE g[s]]
  OBVIOUS
<1>6. ASSUME NEW s \in SUBSET (1..n), s # {}
      PROVE  /\ Max(s) \in s
             /\ n \in s => Max(s) = n
             /\ s \ {Max(s)} \in SUBSET (1..(n - 1))
  <2>1. n \in Nat
    OBVIOUS
  <2>2. Max(s) \in s /\ \A y \in s : Max(s) >= y
    BY <1>6, <2>1, MaxIsMember
  <2>3. PICK m : m = Max(s) /\ m \in 1..n
    BY <2>2
  <2>4. \A y \in s : y # m => y \in 1..(n - 1)
    BY <2>1, <2>2, <2>3
  <2>5. n \in s => m = n
    BY <2>1, <2>2, <2>3
  <2> QED
    BY <2>2, <2>3, <2>4, <2>5
<1>7. ASSUME NEW s \in SUBSET (1..n)
      PROVE  h[s] = next(s) /\ (s # {} => h[s \ {Max(s)}] = g[s \ {Max(s)}])
  <2>1. CASE n \in s
    BY <1>5, <1>6, <2>1
  <2>2. CASE n \notin s
    <3>1. s \in SUBSET (1..(n - 1))
      BY <2>2
    <3>2. g[s] = next(s)
      BY <1>4, <3>1 DEF Turns
    <3> QED
      BY <1>5, <1>6, <2>2, <3>2
  <2> QED
    BY <2>1, <2>2
<1>8. \A s \in SUBSET (1..n) :
        h[s] = IF s = {} THEN <<>> ELSE Absorb(h[s \ {Max(s)}], records[Max(s)])
  BY <1>7
<1>9. Turns(records, n, h)
  BY <1>5, <1>8 DEF Turns
<1> QED
  BY <1>9

\* Aggregate is where it ends.
LEMMA AggregateTurns ==
  ASSUME NEW S, NEW records \in Seq(S)
  PROVE  \E h : Turns(records, Len(records), h) /\ Aggregate(records) = h[1..Len(records)]
<1> DEFINE k == Len(records)
<1>1. DOMAIN records = 1..k /\ k \in Nat
  OBVIOUS
<1>2. Aggregate(records) = (CHOOSE h : Turns(records, k, h))[1..k]
  BY <1>1 DEF Aggregate, FoldLeft, MapThenFoldSet, Turns
<1>3. \E h : Turns(records, k, h)
  BY <1>1, TurnsExist
<1> QED
  BY <1>2, <1>3

\* An aggregation of nothing is empty.
LEMMA AggregateNothing == Aggregate(<<>>) = <<>>
<1>1. <<>> \in Seq({}) /\ Len(<<>>) = 0
  OBVIOUS
<1>2. PICK h : Turns(<<>>, 0, h) /\ Aggregate(<<>>) = h[1..0]
  BY <1>1, AggregateTurns
<1> QED
  BY <1>2 DEF Turns

\* An aggregation grows by one turn with every record.
LEMMA AggregateAppend ==
  ASSUME NEW S, NEW records \in Seq(S), NEW rec \in S
  PROVE  Aggregate(Append(records, rec)) = Absorb(Aggregate(records), rec)
<1> DEFINE k == Len(records)
           longer == Append(records, rec)
<1>1. k \in Nat /\ longer \in Seq(S) /\ Len(longer) = k + 1
  OBVIOUS
<1>2. longer[k + 1] = rec /\ \A i \in 1..k : longer[i] = records[i]
  OBVIOUS
<1>3. PICK g : Turns(records, k, g) /\ Aggregate(records) = g[1..k]
  BY AggregateTurns
<1>4. PICK h : Turns(longer, k + 1, h) /\ Aggregate(longer) = h[1..(k + 1)]
  BY <1>1, AggregateTurns
<1> HIDE DEF k, longer
<1> DEFINE Same == {s \in SUBSET (1..k) : h[s] = g[s]}
<1>5. {} \in Same
  BY <1>1, <1>3, <1>4 DEF Turns
<1>6. ASSUME NEW s \in SUBSET (1..k), s # {}, \A x \in s : s \ {x} \in Same
      PROVE  s \in Same
  <2>1. Max(s) \in s
    BY <1>1, <1>6, MaxIsMember
  <2>2. g[s] = Absorb(g[s \ {Max(s)}], records[Max(s)])
    BY <1>3, <1>6 DEF Turns
  <2>3. s \in SUBSET (1..(k + 1))
    BY <1>1
  <2>4. h[s] = Absorb(h[s \ {Max(s)}], longer[Max(s)])
    BY <1>4, <1>6, <2>3 DEF Turns
  <2> QED
    BY <1>2, <1>6, <2>1, <2>2, <2>4
<1> HIDE DEF Same
<1>7. SUBSET (1..k) \subseteq Same
  <2>1. PICK P : P = 1..k
    OBVIOUS
  <2>2. IsFiniteSet(P)
    BY <1>1, <2>1, FS_Interval
  <2>3. \A s \in SUBSET P : s # {} /\ (\A x \in s : s \ {x} \in Same) => s \in Same
    BY <1>6, <2>1
  <2>4. SUBSET P \subseteq Same
    BY <1>5, <2>2, <2>3, SubsetInduction
  <2> QED
    BY <2>1, <2>4
<1>8. h[1..k] = g[1..k]
  BY <1>7 DEF Same
<1>9. Max(1..(k + 1)) = k + 1 /\ (1..(k + 1)) \ {k + 1} = 1..k /\ 1..(k + 1) # {}
  <2>1. k + 1 \in Nat /\ 1..(k + 1) \in SUBSET (1..(k + 1)) /\ k + 1 \in 1..(k + 1)
    BY <1>1
  <2>2. Max(1..(k + 1)) \in 1..(k + 1) /\ \A y \in 1..(k + 1) : Max(1..(k + 1)) >= y
    BY <2>1, MaxIsMember
  <2>3. PICK m : m = Max(1..(k + 1)) /\ m \in 1..(k + 1)
    BY <2>2
  <2> QED
    BY <1>1, <2>1, <2>2, <2>3
<1>10. h[1..(k + 1)] = Absorb(h[1..k], rec)
  <2>1. PICK s : s = 1..(k + 1)
    OBVIOUS
  <2>2. s \in SUBSET (1..(k + 1)) /\ s # {} /\ Max(s) = k + 1 /\ s \ {k + 1} = 1..k
    BY <1>9, <2>1
  <2>3. h[s] = Absorb(h[s \ {Max(s)}], longer[Max(s)])
    BY ONLY <1>4, <2>2 DEF Turns
  <2> QED
    BY ONLY <1>2, <2>1, <2>2, <2>3
<1> QED
  BY <1>3, <1>4, <1>8, <1>10 DEF longer
------------------------------------------------------------------------------
(* What an aggregation holds *)

\* The positions of the records of one name.
Positions(records, n) == {i \in DOMAIN records : records[i].normalized = n}

\* Those of the positions I whose records have a status.
WithStatus(records, I, status) == {i \in I : records[i].status = status}

\* The counts of one provider tell what the records at the positions I say.
Tallied(counts, records, I) ==
  LET years == {records[i].year : i \in I} \ {NoYear}
  IN  /\ counts.count = Cardinality(I)
      /\ counts.live = Cardinality(WithStatus(records, I, "live"))
      /\ counts.dead = Cardinality(WithStatus(records, I, "dead"))
      /\ IF years = {} THEN counts.earliest = NoYear
         ELSE counts.earliest \in years /\ \A y \in years : counts.earliest <= y

\* So does the entry of a name whose records all come from provider p.
Recorded(entry, records, I, p) ==
  /\ entry = [display |-> entry.display, perProvider |-> entry.perProvider, tags |-> entry.tags]
  /\ DOMAIN entry.perProvider = {p}
  /\ Tallied(entry.perProvider[p], records, I)
  /\ entry.tags = UNION {records[i].tags : i \in I}
  /\ \E i \in I : entry.display = records[i].display /\ \A j \in I : i <= j

Evidence(out, records, p) ==
  /\ DOMAIN out = {records[i].normalized : i \in DOMAIN records}
  /\ \A n \in DOMAIN out : Recorded(out[n], records, Positions(records, n), p)

\* A year is a number, or there is none.
Years == Nat \cup {NoYear}

\* Counting among I with one position more.
LEMMA OneMore ==
  ASSUME NEW I, NEW k, NEW records, NEW status, IsFiniteSet(I), k \notin I
  PROVE  Cardinality(WithStatus(records, I \cup {k}, status))
           = IF records[k].status = status THEN Cardinality(WithStatus(records, I, status)) + 1
             ELSE Cardinality(WithStatus(records, I, status))
<1> DEFINE J == WithStatus(records, I, status)
<1> USE DEF WithStatus
<1>1. IsFiniteSet(J) /\ k \notin J
  BY FS_Subset
<1>2. Cardinality(J) \in Nat
  BY <1>1, FS_CardinalityType
<1>3. CASE records[k].status = status
  <2>1. WithStatus(records, I \cup {k}, status) = J \cup {k}
    BY <1>3
  <2>2. Cardinality(J \cup {k}) = Cardinality(J) + 1
    BY <1>1, FS_AddElement
  <2> QED
    BY <1>3, <2>1, <2>2
<1>4. CASE records[k].status # status
  <2>1. WithStatus(records, I \cup {k}, status) = J
    BY <1>4
  <2> QED
    BY <1>2, <1>4, <2>1
<1> QED
  BY <1>3, <1>4

\* Counted keeps a tally right, in whatever order the records come.
LEMMA CountedIsTallied ==
  ASSUME NEW I, NEW k, NEW records, NEW counts,
         NoYear \notin Nat, IsFiniteSet(I), k \notin I,
         \A i \in I \cup {k} : records[i].year \in Years,
         Tallied(counts, records, I)
  PROVE  Tallied(Counted(counts, records[k]), records, I \cup {k})
<1> DEFINE years == {records[i].year : i \in I} \ {NoYear}
           more == {records[i].year : i \in I \cup {k}} \ {NoYear}
           new == Counted(counts, records[k])
           year == records[k].year
<1>1. new.count = Cardinality(I \cup {k})
  <2>1. counts.count = Cardinality(I)
    BY DEF Tallied
  <2>2. new.count = counts.count + 1
    BY DEF Counted
  <2>3. Cardinality(I \cup {k}) = Cardinality(I) + 1
    BY FS_AddElement
  <2> QED
    BY ONLY <2>1, <2>2, <2>3
<1>2. new.live = Cardinality(WithStatus(records, I \cup {k}, "live"))
  <2>1. PICK status : status = "live"
    OBVIOUS
  <2>2. Cardinality(WithStatus(records, I \cup {k}, status))
          = IF records[k].status = status THEN Cardinality(WithStatus(records, I, status)) + 1
            ELSE Cardinality(WithStatus(records, I, status))
    BY ONLY IsFiniteSet(I), k \notin I, OneMore
  <2>3. counts.live = Cardinality(WithStatus(records, I, "live"))
    BY DEF Tallied
  <2>4. counts.live \in Nat
    BY <2>3, FS_Subset, FS_CardinalityType DEF WithStatus
  <2>5. new.live = IF records[k].status = "live" THEN counts.live + 1 ELSE counts.live
    BY <2>4 DEF Counted, Bit
  <2> QED
    BY <2>1, <2>2, <2>3, <2>5
<1>3. new.dead = Cardinality(WithStatus(records, I \cup {k}, "dead"))
  <2>1. PICK status : status = "dead"
    OBVIOUS
  <2>2. Cardinality(WithStatus(records, I \cup {k}, status))
          = IF records[k].status = status THEN Cardinality(WithStatus(records, I, status)) + 1
            ELSE Cardinality(WithStatus(records, I, status))
    BY ONLY IsFiniteSet(I), k \notin I, OneMore
  <2>3. counts.dead = Cardinality(WithStatus(records, I, "dead"))
    BY DEF Tallied
  <2>4. counts.dead \in Nat
    BY <2>3, FS_Subset, FS_CardinalityType DEF WithStatus
  <2>5. new.dead = IF records[k].status = "dead" THEN counts.dead + 1 ELSE counts.dead
    BY <2>4 DEF Counted, Bit
  <2> QED
    BY <2>1, <2>2, <2>3, <2>5
<1>4. IF more = {} THEN new.earliest = NoYear
      ELSE new.earliest \in more /\ \A y \in more : new.earliest <= y
  <2>1. new.earliest = Earlier(counts.earliest, year)
    BY DEF Counted
  <2>2. years \subseteq Nat /\ year \in Years
    BY DEF Years
  <2>3. more = IF year = NoYear THEN years ELSE years \cup {year}
    OBVIOUS
  <2>4. IF years = {} THEN counts.earliest = NoYear
        ELSE counts.earliest \in years /\ \A y \in years : counts.earliest <= y
    BY DEF Tallied
  <2> HIDE DEF years, more, new, year
  <2>5. CASE year = NoYear
    BY <2>1, <2>3, <2>4, <2>5 DEF Earlier
  <2>6. CASE year # NoYear /\ years = {}
    <3>1. more = {year} /\ new.earliest = year /\ year \in Nat
      BY <2>1, <2>2, <2>3, <2>4, <2>6 DEF Earlier, Years
    <3> QED
      BY <3>1
  <2>7. CASE year # NoYear /\ years # {}
    <3>1. PICK c \in years : c = counts.earliest /\ \A y \in years : c <= y
      BY <2>4, <2>7
    <3>2. c \in Nat /\ c # NoYear /\ year \in Nat
      BY <2>2, <2>7, <3>1 DEF Years
    <3>3. new.earliest = IF year <= c THEN year ELSE c
      BY <2>1, <2>7, <3>1, <3>2 DEF Earlier
    <3> QED
      BY <2>2, <2>3, <2>7, <3>1, <3>2, <3>3
  <2> QED
    BY <2>5, <2>6, <2>7
<1> QED
  BY <1>1, <1>2, <1>3, <1>4 DEF Tallied

\* Nothing is counted in an empty tally.
LEMMA NothingIsTallied == \A records : Tallied(NoCounts, records, {})
<1>1. Cardinality({}) = 0
  BY FS_EmptySet
<1> QED
  BY <1>1 DEF Tallied, NoCounts, WithStatus
\* What is said about records is still true when the sequence grows.
LEMMA RecordedStays ==
  ASSUME NEW S, NEW records \in Seq(S), NEW rec \in S, NEW p, NEW entry,
         NEW I \in SUBSET (DOMAIN records)
  PROVE  Recorded(entry, records, I, p) => Recorded(entry, Append(records, rec), I, p)
<1> DEFINE longer == Append(records, rec)
<1>1. \A i \in I : longer[i] = records[i]
  OBVIOUS
<1> HIDE DEF longer
<1>2. /\ {longer[i].year : i \in I} = {records[i].year : i \in I}
      /\ \A status : WithStatus(longer, I, status) = WithStatus(records, I, status)
      /\ UNION {longer[i].tags : i \in I} = UNION {records[i].tags : i \in I}
  BY <1>1 DEF WithStatus
<1> SUFFICES ASSUME Recorded(entry, records, I, p) PROVE Recorded(entry, longer, I, p)
  BY DEF longer
<1>3. Tallied(entry.perProvider[p], longer, I)
  BY <1>2 DEF Recorded, Tallied
<1>4. entry.tags = UNION {longer[i].tags : i \in I}
  BY <1>2 DEF Recorded
<1>5. \E i \in I : entry.display = longer[i].display /\ \A j \in I : i <= j
  BY <1>1 DEF Recorded
<1> QED
  BY <1>3, <1>4, <1>5 DEF Recorded

\* The entry that Absorb makes of a record, from the one it found or from none.
Renewed(existing, rec) ==
  LET counts == IF rec.provider \in DOMAIN existing.perProvider
                  THEN existing.perProvider[rec.provider] ELSE NoCounts
  IN  [existing EXCEPT !.perProvider = With(@, rec.provider, Counted(counts, rec)),
                       !.tags = @ \cup rec.tags]

NewEntry(rec) == [display |-> rec.display, perProvider |-> <<>>, tags |-> {}]

LEMMA AbsorbRenews ==
  ASSUME NEW out, NEW rec
  PROVE  Absorb(out, rec) =
           With(out, rec.normalized,
             Renewed(IF rec.normalized \in DOMAIN out THEN out[rec.normalized] ELSE NewEntry(rec), rec))
BY DEF Absorb, Renewed, NewEntry

\* A name's first record ...
LEMMA FirstRecord ==
  ASSUME NoYear \notin Nat, NEW k \in Nat, NEW records, records[k].year \in Years
  PROVE  Recorded(Renewed(NewEntry(records[k]), records[k]), records, {k}, records[k].provider)
<1> DEFINE rec == records[k]
           new == Renewed(NewEntry(rec), rec)
<1>1. new = [display |-> rec.display, perProvider |-> With(<<>>, rec.provider, Counted(NoCounts, rec)),
             tags |-> rec.tags]
  <2>1. rec.provider \notin DOMAIN NewEntry(rec).perProvider
    BY DEF NewEntry
  <2>2. Renewed(NewEntry(rec), rec)
          = [NewEntry(rec) EXCEPT !.perProvider = With(@, rec.provider, Counted(NoCounts, rec)),
                                  !.tags = @ \cup rec.tags]
    BY <2>1 DEF Renewed
  <2> QED
    BY <2>2 DEF NewEntry
<1>2. Tallied(Counted(NoCounts, rec), records, {k})
  <2>1. IsFiniteSet({}) /\ {} \cup {k} = {k}
    BY FS_EmptySet
  <2> QED
    BY <2>1, CountedIsTallied, NothingIsTallied
<1>3. /\ DOMAIN new.perProvider = {rec.provider}
      /\ new.perProvider[rec.provider] = Counted(NoCounts, rec)
  BY <1>1 DEF With
<1>4. UNION {records[i].tags : i \in {k}} = rec.tags
  OBVIOUS
<1> QED
  BY <1>1, <1>2, <1>3, <1>4 DEF Recorded

\* ... and every later one.
LEMMA LaterRecord ==
  ASSUME NoYear \notin Nat, NEW records, NEW k \in Nat, NEW I \in SUBSET (0..(k - 1)), NEW entry,
         \A i \in I \cup {k} : records[i].year \in Years,
         Recorded(entry, records, I, records[k].provider)
  PROVE  Recorded(Renewed(entry, records[k]), records, I \cup {k}, records[k].provider)
<1> DEFINE rec == records[k]
           counts == entry.perProvider[rec.provider]
           new == Renewed(entry, rec)
<1>1. new = [display |-> entry.display,
             perProvider |-> With(entry.perProvider, rec.provider, Counted(counts, rec)),
             tags |-> entry.tags \cup rec.tags]
  <2>1. rec.provider \in DOMAIN entry.perProvider
    BY DEF Recorded
  <2>2. new = [entry EXCEPT !.perProvider = With(@, rec.provider, Counted(counts, rec)),
                            !.tags = @ \cup rec.tags]
    BY <2>1 DEF Renewed
  <2>3. entry = [display |-> entry.display, perProvider |-> entry.perProvider, tags |-> entry.tags]
    BY DEF Recorded
  <2> HIDE DEF new, rec, counts
  <2> QED
    BY <2>2, <2>3
<1>2. Tallied(Counted(counts, rec), records, I \cup {k})
  <2>1. IsFiniteSet(I) /\ k \notin I
    <3>1. IsFiniteSet(0..(k - 1))
      BY FS_Interval
    <3>2. IsFiniteSet(I)
      BY ONLY <3>1, I \in SUBSET (0..(k - 1)), FS_Subset
    <3>3. k \notin I
      OBVIOUS
    <3> QED
      BY <3>2, <3>3
  <2> QED
    BY <2>1, CountedIsTallied DEF Recorded
<1>3. /\ DOMAIN new.perProvider = {rec.provider}
      /\ new.perProvider[rec.provider] = Counted(counts, rec)
  BY <1>1 DEF With, Recorded
<1>4. UNION {records[i].tags : i \in I \cup {k}} = entry.tags \cup rec.tags
  BY DEF Recorded
<1>5. \E i \in I \cup {k} : entry.display = records[i].display /\ \A j \in I \cup {k} : i <= j
  BY DEF Recorded
<1> QED
  BY <1>1, <1>2, <1>3, <1>4, <1>5 DEF Recorded
\* Nothing is recorded in an aggregation of nothing.
LEMMA NoEvidence == \A p : Evidence(<<>>, <<>>, p)
BY DEF Evidence

\* Deduplication aggregates, it does not discard: Absorb adds what a record
\* says to the entry of its name and leaves the other names alone.
LEMMA AbsorbKeepsEvidence ==
  ASSUME NEW S, NEW records \in Seq(S), NEW rec \in S, NEW out,
         NoYear \notin Nat, \A r \in S : r.year \in Years,
         \A r \in S : r.provider = rec.provider,
         Evidence(out, records, rec.provider)
  PROVE  Evidence(Absorb(out, rec), Append(records, rec), rec.provider)
<1> DEFINE p == rec.provider
           name == rec.normalized
           k == Len(records) + 1
           longer == Append(records, rec)
           entry == IF name \in DOMAIN out THEN out[name] ELSE NewEntry(rec)
           absorbed == Absorb(out, rec)
<1>1. /\ k \in Nat /\ DOMAIN records = 1..(k - 1) /\ DOMAIN longer = (DOMAIN records) \cup {k}
      /\ longer[k] = rec /\ \A i \in DOMAIN records : longer[i] = records[i]
      /\ k \notin DOMAIN records
  OBVIOUS
<1>2. absorbed = With(out, name, Renewed(entry, rec))
  BY AbsorbRenews
<1>3. /\ DOMAIN absorbed = (DOMAIN out) \cup {name}
      /\ absorbed[name] = Renewed(entry, rec)
      /\ \A n \in DOMAIN out : n # name => absorbed[n] = out[n]
  BY <1>2 DEF With
<1>4. \A i \in DOMAIN longer : longer[i].year \in Years
  <2>1. longer \in Seq(S)
    OBVIOUS
  <2> QED
    BY <2>1
<1> HIDE DEF k, longer, absorbed, entry
<1>5. DOMAIN absorbed = {longer[i].normalized : i \in DOMAIN longer}
  BY <1>1, <1>3 DEF Evidence
<1>6. ASSUME NEW n \in DOMAIN absorbed, n # name
      PROVE  Recorded(absorbed[n], longer, Positions(longer, n), p)
  <2>1. n \in DOMAIN out /\ absorbed[n] = out[n]
    BY <1>3, <1>6
  <2>2. Positions(longer, n) = Positions(records, n) /\ Positions(records, n) \in SUBSET (DOMAIN records)
    BY <1>1, <1>6 DEF Positions
  <2>3. Recorded(out[n], records, Positions(records, n), p)
    BY <2>1 DEF Evidence
  <2>4. Recorded(out[n], longer, Positions(records, n), p)
    BY <2>2, <2>3, RecordedStays DEF longer
  <2> QED
    BY <2>1, <2>2, <2>4
<1>7. Positions(longer, name) = Positions(records, name) \cup {k}
  BY <1>1 DEF Positions
<1>8. Recorded(Renewed(entry, rec), longer, Positions(longer, name), p)
  <2>1. CASE name \notin DOMAIN out
    <3>1. Positions(records, name) = {}
      BY <2>1 DEF Evidence, Positions
    <3>2. Recorded(Renewed(NewEntry(longer[k]), longer[k]), longer, {k}, longer[k].provider)
      BY <1>1, <1>4, FirstRecord
    <3> QED
      BY <1>1, <1>7, <2>1, <3>1, <3>2 DEF entry
  <2>2. CASE name \in DOMAIN out
    <3>1. PICK I \in SUBSET (DOMAIN records) : I = Positions(records, name)
      BY DEF Positions
    <3>2. Recorded(out[name], records, I, p)
      BY <2>2, <3>1 DEF Evidence
    <3>3. Recorded(out[name], longer, I, longer[k].provider)
      BY <1>1, <3>2, RecordedStays DEF longer
    <3>4. I \in SUBSET (0..(k - 1)) /\ \A i \in I \cup {k} : longer[i].year \in Years
      BY <1>1, <1>4
    <3>5. Recorded(Renewed(out[name], longer[k]), longer, I \cup {k}, longer[k].provider)
      BY <1>1, <3>3, <3>4, LaterRecord
    <3> QED
      BY <1>1, <1>7, <2>2, <3>1, <3>5 DEF entry
  <2> QED
    BY <2>1, <2>2
<1>9. \A n \in DOMAIN absorbed : Recorded(absorbed[n], longer, Positions(longer, n), p)
  BY <1>3, <1>6, <1>8
<1> QED
  BY <1>5, <1>9 DEF Evidence, absorbed, longer
------------------------------------------------------------------------------
(* The loop of ingest *)

\* The rows that a file of provider p can hold, and the records they can make.
AllRows(p) == UNION {Range(e.rows) : e \in Editions[p]}
AllRecords(p) == {Normalised(RecordOf(p, row)) : row \in AllRows(p)}

\* Of the rows read: those the provider yielded, and of these the ones that
\* rule i rejected; rule 0 stands for acceptance.
Yields(p, rows) == {j \in DOMAIN rows : Outcome(p, rows[j]) = "yield"}
Under(p, rows, i) == {j \in Yields(p, rows) : RejectedBy(rows[j].text) = i}

\* The run is about the rows of one provider.
RunShape ==
  /\ phase \in {"idle", "rows", "done", "failed"}
  /\ phase # "idle" => source.provider \in DOMAIN Sources
  /\ phase = "rows" => /\ file[source.provider] \in Editions[source.provider]
                       /\ fetched \in Seq(AllRows(source.provider))
  /\ consumed \in Seq(AllRows(source.provider))
  /\ position = Len(consumed)
  /\ accepted \in Seq(AllRecords(source.provider))

\* The counters mean what they say, after every row.
CountersAddUp ==
  /\ extracted = Cardinality(Yields(source.provider, consumed))
  /\ rejected = [i \in 1..Len(StructuralRules) |-> Cardinality(Under(source.provider, consumed, i))]
  /\ Len(accepted) = Cardinality(Under(source.provider, consumed, 0))

\* What was accepted is what the rows under no rule name.
Named(records) == {records[i].normalized : i \in DOMAIN records}
NamedBy(rows, J) == {rows[j].text.folded : j \in J}

AcceptedIsRead == Named(accepted) = NamedBy(consumed, Under(source.provider, consumed, 0))

\* A broken row ends the run.
NoRowBroke ==
  phase \in {"rows", "done"} =>
    \A j \in DOMAIN consumed : Outcome(source.provider, consumed[j]) # "error"

\* At any point, aggregating what has been accepted would lose nothing.
EvidenceSoFar == Evidence(Aggregate(accepted), accepted, source.provider)

RunInv ==
  /\ RunShape /\ CountersAddUp /\ AcceptedIsRead /\ NoRowBroke /\ EvidenceSoFar
  /\ phase = "done" => names = Aggregate(accepted)

\* A text is rejected by one of the six rules or by none.
LEMMA RuleOrNone ==
  ASSUME NEW text
  PROVE  RejectedBy(text) \in 0..Len(StructuralRules)
<1> DEFINE I == {i \in 1..Len(StructuralRules) : Fails(StructuralRules[i], text)}
<1>1. RejectedBy(text) = IF I # {} THEN Min(I) ELSE 0
  BY DEF RejectedBy, SelectInSeq
<1>2. Len(StructuralRules) = 6
  BY DEF StructuralRules
<1>3. I # {} => Min(I) \in I
  <2> SUFFICES ASSUME I # {} PROVE Min(I) \in I
    OBVIOUS
  <2>1. I \in SUBSET Nat
    BY <1>2
  <2> HIDE DEF I
  <2>2. \E x \in I : \A y \in I : x <= y
    BY <2>1, LeastNatural
  <2> QED
    BY <2>2 DEF Min
<1> QED
  BY <1>1, <1>2, <1>3

\* How the rows of one kind grow with a row.
LEMMA OneMoreRow ==
  ASSUME NEW S, NEW rows \in Seq(S), NEW row \in S, NEW p, NEW i
  PROVE  /\ Outcome(p, row) # "yield" => /\ Yields(p, Append(rows, row)) = Yields(p, rows)
                                         /\ Under(p, Append(rows, row), i) = Under(p, rows, i)
         /\ RejectedBy(row.text) # i => Under(p, Append(rows, row), i) = Under(p, rows, i)
         /\ Outcome(p, row) = "yield" =>
              /\ Yields(p, Append(rows, row)) = Yields(p, rows) \cup {Len(rows) + 1}
              /\ RejectedBy(row.text) = i =>
                   Under(p, Append(rows, row), i) = Under(p, rows, i) \cup {Len(rows) + 1}
         /\ Len(rows) + 1 \notin Yields(p, rows) /\ Len(rows) + 1 \notin Under(p, rows, i)
BY DEF Yields, Under

\* They are finitely many.
LEMMA RowsAreFinite ==
  ASSUME NEW S, NEW rows \in Seq(S), NEW p, NEW i
  PROVE  /\ IsFiniteSet(Yields(p, rows)) /\ IsFiniteSet(Under(p, rows, i))
         /\ Cardinality(Yields(p, rows)) \in Nat /\ Cardinality(Under(p, rows, i)) \in Nat
<1>1. IsFiniteSet(DOMAIN rows)
  BY FS_Interval
<1>2. Yields(p, rows) \in SUBSET DOMAIN rows /\ Under(p, rows, i) \in SUBSET DOMAIN rows
  BY DEF Yields, Under
<1> QED
  BY <1>1, <1>2, FS_Subset, FS_CardinalityType

\* The names of a list with a record more.
LEMMA NamedAppend ==
  ASSUME NEW S, NEW records \in Seq(S), NEW rec \in S
  PROVE  Named(Append(records, rec)) = Named(records) \cup {rec.normalized}
<1> DEFINE longer == Append(records, rec)
<1>1. PICK k \in Nat : k = Len(records) /\ DOMAIN records = 1..k
  OBVIOUS
<1>2. DOMAIN longer = 1..(k + 1) /\ longer[k + 1] = rec /\ \A i \in 1..k : longer[i] = records[i]
  BY <1>1
<1> HIDE DEF longer
<1>3. 1..(k + 1) = (1..k) \cup {k + 1}
  BY <1>1
<1>4. {longer[i].normalized : i \in (1..k) \cup {k + 1}}
        = {records[i].normalized : i \in 1..k} \cup {rec.normalized}
  BY <1>2
<1> QED
  BY <1>1, <1>2, <1>3, <1>4 DEF Named, longer

\* Before anything is read.
Unread ==
  /\ consumed = <<>> /\ accepted = <<>>
  /\ position = 0 /\ extracted = 0 /\ rejected = NoRejections

LEMMA NothingRead == Unread => CountersAddUp /\ AcceptedIsRead /\ NoRowBroke /\ EvidenceSoFar
<1> SUFFICES ASSUME Unread PROVE CountersAddUp /\ AcceptedIsRead /\ NoRowBroke /\ EvidenceSoFar
  OBVIOUS
<1> USE DEF Unread
<1>1. \A p, i : Yields(p, <<>>) = {} /\ Under(p, <<>>, i) = {}
  BY DEF Yields, Under
<1>2. Cardinality({}) = 0
  BY FS_EmptySet
<1>3. CountersAddUp
  BY <1>1, <1>2 DEF CountersAddUp, NoRejections
<1>4. AcceptedIsRead
  BY <1>1 DEF AcceptedIsRead, Named, NamedBy
<1>5. EvidenceSoFar
  BY AggregateNothing, NoEvidence DEF EvidenceSoFar
<1> QED
  BY <1>3, <1>4, <1>5 DEF NoRowBroke
LEMMA RunInvInit == IngestInit => RunInv
BY NothingRead DEF IngestInit, RunInv, RunShape, Unread

\* A run begins with nothing read of a file that is there.
LEMMA RunInvOpen ==
  ASSUME NEW snapshot, snapshot.provider \in DOMAIN Sources,
         file[snapshot.provider] \in Editions[snapshot.provider],
         Open(snapshot)
  PROVE  RunInv'
<1> DEFINE p == snapshot.provider
<1>1. /\ source' = snapshot /\ phase' \in {"rows", "failed"} /\ file' = file
      /\ fetched' \in Seq(AllRows(p))
  <2>1. file[p].rows \in Seq(Range(file[p].rows)) /\ Range(file[p].rows) \subseteq AllRows(p)
    BY IngestAssumption DEF AllRows
  <2>2. file[p].rows \in Seq(AllRows(p))
    BY <2>1
  <2>3. fetched' = <<>> \/ fetched' = file[p].rows
    BY DEF Open
  <2>4. <<>> \in Seq(AllRows(p))
    OBVIOUS
  <2>5. fetched' \in Seq(AllRows(p))
    BY ONLY <2>2, <2>3, <2>4
  <2>6. source' = snapshot /\ phase' \in {"rows", "failed"} /\ file' = file
    BY DEF Open
  <2> QED
    BY <2>5, <2>6
<1>2. Unread'
  BY DEF Open, Unread, NoRejections
<1>3. CountersAddUp' /\ AcceptedIsRead' /\ NoRowBroke' /\ EvidenceSoFar'
  BY <1>2, NothingRead, PTL
<1>4. RunShape'
  BY <1>1, <1>2 DEF RunShape, Unread
<1> QED
  BY <1>1, <1>3, <1>4 DEF RunInv

\* The rows that are still to come are rows of the run's provider.
LEMMA RowsAreRows ==
  ASSUME RunInv, phase = "rows"
  PROVE  Rows \in Seq(AllRows(source.provider))
<1> DEFINE p == source.provider
<1>1. p \in DOMAIN Sources /\ file[p] \in Editions[p] /\ fetched \in Seq(AllRows(p))
  BY DEF RunInv, RunShape
<1>2. file[p].rows \in Seq(Range(file[p].rows)) /\ Range(file[p].rows) \subseteq AllRows(p)
  BY <1>1, IngestAssumption DEF AllRows
<1>3. file[p].rows \in Seq(AllRows(p))
  BY <1>2
<1> QED
  BY <1>1, <1>3 DEF Rows

\* Every record that a row makes is dated soundly and names its provider.
LEMMA RecordTypes ==
  ASSUME NEW p \in DOMAIN Sources, NEW rec \in AllRecords(p)
  PROVE  rec.year \in Years /\ rec.provider = p
<1>1. PICK row \in AllRows(p) : rec = Normalised(RecordOf(p, row))
  BY DEF AllRecords
<1>2. rec.provider = p /\ rec.year = IF Sources[p].format = "csv" THEN row.year ELSE FixtureYear
  BY <1>1 DEF Normalised, RecordOf
<1>3. Sources[p].format = "csv" => row.year \in Years
  BY <1>1, IngestAssumption DEF AllRows, Years
<1> QED
  BY <1>2, <1>3 DEF Years, FixtureYear

\* What the loop does to the counters, the accepted records and the evidence:
\* a row that is skipped or broken changes none of them ...
LEMMA RowPassedOver ==
  ASSUME RunInv, NEW row \in AllRows(source.provider),
         Outcome(source.provider, row) # "yield",
         consumed' = Append(consumed, row),
         UNCHANGED <<source, extracted, rejected, accepted>>
  PROVE  (CountersAddUp /\ AcceptedIsRead /\ EvidenceSoFar)'
<1>1. consumed \in Seq(AllRows(source.provider))
  BY DEF RunInv, RunShape
<1>2. Yields(source.provider, consumed') = Yields(source.provider, consumed)
  BY <1>1, OneMoreRow
<1>3. \A i : Under(source.provider, consumed', i) = Under(source.provider, consumed, i)
  BY <1>1, OneMoreRow
<1>4. CountersAddUp'
  BY <1>2, <1>3 DEF RunInv, CountersAddUp
<1>5. \A j \in Under(source.provider, consumed, 0) : consumed'[j] = consumed[j]
  BY <1>1 DEF Under, Yields
<1>6. AcceptedIsRead'
  <2>1. \A J \in SUBSET Under(source.provider, consumed, 0) :
          NamedBy(consumed', J) = NamedBy(consumed, J)
    BY <1>5 DEF NamedBy
  <2>2. NamedBy(consumed', Under(source.provider, consumed', 0))
          = NamedBy(consumed, Under(source.provider, consumed, 0))
    BY <1>3, <2>1
  <2> QED
    BY <2>2 DEF RunInv, AcceptedIsRead
<1> QED
  BY <1>4, <1>6 DEF RunInv, EvidenceSoFar

\* ... and one that is yielded is counted once, under one rule or none.
LEMMA RowTaken ==
  ASSUME RunInv, phase = "rows", NEW row \in AllRows(source.provider),
         Outcome(source.provider, row) = "yield",
         consumed' = Append(consumed, row), Take(row), UNCHANGED source
  PROVE  /\ accepted' \in Seq(AllRecords(source.provider))
         /\ (CountersAddUp /\ AcceptedIsRead /\ EvidenceSoFar)'
<1> DEFINE p == source.provider
           k == Len(consumed) + 1
           rule == RejectedBy(row.text)
           rec == Normalised(RecordOf(p, row))
<1>1. consumed \in Seq(AllRows(p)) /\ accepted \in Seq(AllRecords(p)) /\ p \in DOMAIN Sources
  BY DEF RunInv, RunShape
<1>2. /\ Yields(p, consumed') = Yields(p, consumed) \cup {k}
      /\ k \notin Yields(p, consumed) /\ \A i : k \notin Under(p, consumed, i)
      /\ \A i : Under(p, consumed', i)
                  = IF rule = i THEN Under(p, consumed, i) \cup {k} ELSE Under(p, consumed, i)
  <2> SUFFICES ASSUME NEW i
               PROVE  /\ Yields(p, consumed') = Yields(p, consumed) \cup {k}
                      /\ k \notin Yields(p, consumed) /\ k \notin Under(p, consumed, i)
                      /\ Under(p, consumed', i)
                           = IF rule = i THEN Under(p, consumed, i) \cup {k} ELSE Under(p, consumed, i)
    OBVIOUS
  <2>1. row \in AllRows(p) /\ Outcome(p, row) = "yield"
    OBVIOUS
  <2>2. /\ Yields(p, Append(consumed, row)) = Yields(p, consumed) \cup {k}
        /\ k \notin Yields(p, consumed)
    BY ONLY <1>1, <2>1, OneMoreRow
  <2>3. k \notin Under(p, consumed, i)
    BY ONLY <1>1, <2>1, OneMoreRow
  <2>4. Under(p, Append(consumed, row), i)
          = IF rule = i THEN Under(p, consumed, i) \cup {k} ELSE Under(p, consumed, i)
    <3>1. CASE rule = i
      BY ONLY <1>1, <2>1, <3>1, OneMoreRow
    <3>2. CASE rule # i
      BY ONLY <1>1, <2>1, <3>2, OneMoreRow
    <3> QED
      BY <3>1, <3>2
  <2> QED
    BY ONLY <2>2, <2>3, <2>4, consumed' = Append(consumed, row)
<1>3. \A i : IsFiniteSet(Under(p, consumed, i)) /\ IsFiniteSet(Yields(p, consumed))
  BY <1>1, RowsAreFinite
<1>4. rec \in AllRecords(p) /\ rec.normalized = row.text.folded /\ rec.provider = p
  BY DEF AllRecords, Normalised, RecordOf
<1>5. rule \in 0..Len(StructuralRules)
  BY RuleOrNone
<1>6. accepted' = (IF rule = 0 THEN Append(accepted, rec) ELSE accepted)
  BY DEF Take
<1> HIDE DEF rec
<1>7. accepted' \in Seq(AllRecords(p))
  <2>1. Append(accepted, rec) \in Seq(AllRecords(p))
    BY ONLY <1>1, <1>4, AppendProperties
  <2> QED
    BY ONLY <1>1, <1>6, <2>1
<1>8. /\ consumed'[k] = row /\ \A j \in Under(p, consumed, 0) : consumed'[j] = consumed[j]
  BY <1>1 DEF Under, Yields
<1> HIDE DEF k, rule
<1>9. CountersAddUp'
  <2>1. extracted' = Cardinality(Yields(p, consumed'))
    BY <1>2, <1>3, FS_AddElement DEF Take, RunInv, CountersAddUp
  <2>2. \A i : Cardinality(Under(p, consumed', i)) =
                 IF rule = i THEN Cardinality(Under(p, consumed, i)) + 1
                 ELSE Cardinality(Under(p, consumed, i))
    BY <1>2, <1>3, FS_AddElement
  <2>3. Len(accepted') = Cardinality(Under(p, consumed', 0))
    BY <1>1, <1>4, <1>6, <2>2 DEF RunInv, CountersAddUp
  <2>4. rejected' = [i \in 1..Len(StructuralRules) |->
                       IF rule = i THEN rejected[i] + 1 ELSE rejected[i]]
    <3>1. rejected = [i \in 1..Len(StructuralRules) |-> rejected[i]]
      BY DEF RunInv, CountersAddUp
    <3>2. rejected' = IF rule = 0 THEN rejected ELSE [rejected EXCEPT ![rule] = @ + 1]
      BY DEF Take, rule
    <3>3. Len(StructuralRules) \in Nat
      BY DEF StructuralRules
    <3>4. CASE rule = 0
      BY ONLY <3>1, <3>2, <3>3, <3>4
    <3>5. CASE rule \in 1..Len(StructuralRules)
      <4>1. rejected' = [rejected EXCEPT ![rule] = @ + 1]
        BY <3>2, <3>3, <3>5
      <4> QED
        BY ONLY <3>1, <3>3, <3>5, <4>1
    <3> QED
      BY <1>5, <3>3, <3>4, <3>5
  <2>5. rejected' = [i \in 1..Len(StructuralRules) |-> Cardinality(Under(p, consumed', i))]
    BY <2>2, <2>4 DEF RunInv, CountersAddUp
  <2> QED
    BY <2>1, <2>3, <2>5 DEF CountersAddUp
<1>10. AcceptedIsRead'
  <2>1. Named(accepted) = NamedBy(consumed, Under(p, consumed, 0))
    BY DEF RunInv, AcceptedIsRead
  <2>2. NamedBy(consumed', Under(p, consumed, 0)) = NamedBy(consumed, Under(p, consumed, 0))
    BY <1>8 DEF NamedBy
  <2>3. Named(accepted') = NamedBy(consumed', Under(p, consumed', 0))
    <3>1. CASE rule = 0
      <4>1. accepted' = Append(accepted, rec)
        BY <1>6, <3>1
      <4>2. Named(Append(accepted, rec)) = Named(accepted) \cup {rec.normalized}
        BY <1>1, <1>4, NamedAppend
      <4>3. NamedBy(consumed', Under(p, consumed, 0) \cup {k})
              = NamedBy(consumed', Under(p, consumed, 0)) \cup {row.text.folded}
        BY <1>8 DEF NamedBy
      <4>4. Under(p, consumed', 0) = Under(p, consumed, 0) \cup {k}
        BY <1>2, <3>1
      <4> QED
        BY <1>4, <2>1, <2>2, <4>1, <4>2, <4>3, <4>4
    <3>2. CASE rule # 0
      <4>1. Under(p, consumed', 0) = Under(p, consumed, 0) /\ accepted' = accepted
        BY <1>2, <1>6, <3>2
      <4> QED
        BY <2>1, <2>2, <4>1
    <3> QED
      BY <3>1, <3>2
  <2> QED
    BY <2>3 DEF AcceptedIsRead
<1>11. EvidenceSoFar'
  <2>1. CASE rule = 0
    <3>1. \A r \in AllRecords(p) : r.year \in Years /\ r.provider = p
      BY <1>1, RecordTypes
    <3>2. Evidence(Aggregate(accepted), accepted, rec.provider)
      BY <1>4 DEF RunInv, EvidenceSoFar
    <3>3. Evidence(Absorb(Aggregate(accepted), rec), Append(accepted, rec), rec.provider)
      BY <1>1, <1>4, <3>1, <3>2, NoYearAssumption, AbsorbKeepsEvidence
    <3>4. Aggregate(Append(accepted, rec)) = Absorb(Aggregate(accepted), rec)
      BY <1>1, <1>4, AggregateAppend
    <3> QED
      BY <1>4, <1>6, <2>1, <3>3, <3>4 DEF EvidenceSoFar
  <2>2. CASE rule # 0
    BY <1>6, <2>2 DEF RunInv, EvidenceSoFar
  <2> QED
    BY <2>1, <2>2
<1> QED
  BY <1>7, <1>9, <1>10, <1>11

LEMMA RunInvReadRow == RunInv /\ ReadRow => RunInv'
<1> SUFFICES ASSUME RunInv, ReadRow PROVE RunInv'
  OBVIOUS
<1> DEFINE p == source.provider
<1>1. PICK row : row = Rows[position + 1] /\ row \in AllRows(p)
  <2>1. Rows \in Seq(AllRows(p)) /\ position \in Nat
    BY RowsAreRows DEF ReadRow, RunInv, RunShape
  <2> QED
    BY <2>1 DEF ReadRow
<1>2. /\ phase = "rows" /\ consumed' = Append(consumed, row) /\ position' = position + 1
      /\ UNCHANGED <<file, source, fetched, names>>
      /\ \/ Outcome(p, row) = "error" /\ phase' = "failed"
         \/ Outcome(p, row) # "error" /\ phase' = phase
      /\ \/ Outcome(p, row) # "yield" /\ UNCHANGED <<extracted, rejected, accepted>>
         \/ Outcome(p, row) = "yield" /\ Take(row)
  BY <1>1 DEF ReadRow
<1>3. consumed \in Seq(AllRows(p)) /\ accepted \in Seq(AllRecords(p)) /\ position = Len(consumed)
  BY DEF RunInv, RunShape
<1>4. consumed' \in Seq(AllRows(p)) /\ position' = Len(consumed')
  BY <1>1, <1>2, <1>3
<1>5. accepted' \in Seq(AllRecords(p)) /\ (CountersAddUp /\ AcceptedIsRead /\ EvidenceSoFar)'
  BY <1>1, <1>2, <1>3, RowPassedOver, RowTaken
<1>6. RunShape'
  BY <1>2, <1>4, <1>5 DEF RunInv, RunShape
<1>7. NoRowBroke'
  <2>1. ASSUME phase' = "rows", NEW j \in DOMAIN consumed'
        PROVE  Outcome(p, consumed'[j]) # "error"
    BY <1>1, <1>2, <1>3, <2>1 DEF RunInv, NoRowBroke
  <2> QED
    BY <1>2, <2>1 DEF NoRowBroke
<1> QED
  BY <1>2, <1>5, <1>6, <1>7 DEF RunInv

LEMMA RunInvFinish == RunInv /\ Finish => RunInv'
<1> SUFFICES ASSUME RunInv, Finish PROVE RunInv'
  OBVIOUS
<1>1. /\ phase = "rows" /\ phase' = "done" /\ names' = Aggregate(accepted)
      /\ UNCHANGED <<file, source, fetched, position, extracted, rejected, accepted, consumed>>
  BY DEF Finish
<1>2. RunShape' /\ CountersAddUp' /\ AcceptedIsRead' /\ NoRowBroke' /\ EvidenceSoFar'
  BY <1>1 DEF RunInv, RunShape, CountersAddUp, AcceptedIsRead, NoRowBroke, EvidenceSoFar
<1> QED
  BY <1>1, <1>2 DEF RunInv

\* Whoever writes to the location leaves an edition of the provider there.
LEMMA RunInvFile ==
  ASSUME RunInv, UNCHANGED run,
         phase = "rows" => file'[source.provider] \in Editions[source.provider]
  PROVE  RunInv'
BY DEF run, RunInv, RunShape, CountersAddUp, AcceptedIsRead, NoRowBroke, EvidenceSoFar
------------------------------------------------------------------------------
(* What follows for a result *)

LEMMA RunIsTyped == RunInv => RunTypeOK
<1> SUFFICES ASSUME RunInv PROVE RunTypeOK
  OBVIOUS
<1> DEFINE p == source.provider
<1>1. consumed \in Seq(AllRows(p)) /\ position = Len(consumed)
  BY DEF RunInv, RunShape
<1>2. \A i : Cardinality(Under(p, consumed, i)) \in Nat
  BY <1>1, RowsAreFinite
<1>3. extracted \in Nat
  BY <1>1, RowsAreFinite DEF RunInv, CountersAddUp
<1>4. rejected \in [1..Len(StructuralRules) -> Nat]
  BY <1>2 DEF RunInv, CountersAddUp
<1>5. Len(accepted) <= position
  <2>1. IsFiniteSet(1..position) /\ Cardinality(1..position) = position
    <3>1. PICK n \in Nat : n = position
      BY <1>1
    <3>2. IsFiniteSet(1..n) /\ Cardinality(1..n) = IF 1 > n THEN 0 ELSE n - 1 + 1
      BY FS_Interval
    <3> QED
      BY <3>1, <3>2
  <2>2. Under(p, consumed, 0) \in SUBSET (1..position)
    BY <1>1 DEF Under, Yields
  <2> QED
    BY <2>1, <2>2, FS_Subset DEF RunInv, CountersAddUp
<1> QED
  BY <1>1, <1>3, <1>4, <1>5 DEF RunTypeOK, RunInv, RunShape

\* The six counters and the accepted records make up what was extracted.
LEMMA FunnelCloses == RunInv => FunnelAddsUp
<1> SUFFICES ASSUME RunInv, phase = "done"
             PROVE  LET outcomes == [i \in DOMAIN consumed |-> Outcome(source.provider, consumed[i])]
                    IN  /\ "error" \notin Range(outcomes)
                        /\ extracted = Cardinality({i \in DOMAIN consumed : outcomes[i] = "yield"})
                        /\ extracted = Len(accepted) + SumFunction(rejected)
  BY DEF FunnelAddsUp
<1> DEFINE p == source.provider
           Y == Yields(p, consumed)
           Rules == 1..Len(StructuralRules)
           outcomes == [i \in DOMAIN consumed |-> Outcome(p, consumed[i])]
<1>1. "error" \notin Range(outcomes)
  BY DEF RunInv, NoRowBroke, Range
<1>2. extracted = Cardinality({i \in DOMAIN consumed : outcomes[i] = "yield"})
  <2>1. {i \in DOMAIN consumed : outcomes[i] = "yield"} = Y
    BY DEF Yields
  <2> QED
    BY <2>1 DEF RunInv, CountersAddUp
<1>3. consumed \in Seq(AllRows(p))
  BY DEF RunInv, RunShape
<1>4. PICK rule : rule = [j \in Y |-> RejectedBy(consumed[j].text)]
  OBVIOUS
<1>5. \A i : Under(p, consumed, i) = {j \in Y : rule[j] = i}
  BY <1>4 DEF Under
<1>6. SumFunction(rejected) = Cardinality({j \in Y : rule[j] \in Rules})
  <2>1. IsFiniteSet(Y) /\ IsFiniteSet(Rules)
    <3>1. PICK n \in Nat : n = Len(StructuralRules)
      BY DEF StructuralRules
    <3>2. IsFiniteSet(1..n)
      BY FS_Interval
    <3>3. IsFiniteSet(Y)
      BY <1>3, RowsAreFinite
    <3> QED
      BY <3>1, <3>2, <3>3
  <2>2. rejected = [i \in Rules |-> Cardinality({j \in Y : rule[j] = i})]
    BY <1>5 DEF RunInv, CountersAddUp
  <2> HIDE DEF Y, Rules
  <2> QED
    BY ONLY <2>1, <2>2, SumOfClasses
<1>7. Len(accepted) = Cardinality({j \in Y : rule[j] = 0})
  BY <1>5 DEF RunInv, CountersAddUp
<1>8. extracted = Len(accepted) + SumFunction(rejected)
  <2>1. /\ {j \in Y : rule[j] = 0} \cup {j \in Y : rule[j] \in Rules} = Y
        /\ {j \in Y : rule[j] = 0} \cap {j \in Y : rule[j] \in Rules} = {}
    <3>1. \A j \in Y : rule[j] \in 0..Len(StructuralRules)
      BY <1>4, RuleOrNone
    <3>2. Len(StructuralRules) \in Nat
      BY DEF StructuralRules
    <3>3. \A x \in 0..Len(StructuralRules) : x = 0 <=> x \notin Rules
      BY <3>2
    <3> HIDE DEF Rules
    <3> QED
      BY <3>1, <3>3
  <2>2. IsFiniteSet({j \in Y : rule[j] = 0}) /\ IsFiniteSet({j \in Y : rule[j] \in Rules})
    <3>1. IsFiniteSet(Y)
      BY <1>3, RowsAreFinite
    <3> HIDE DEF Y, Rules
    <3> QED
      BY <3>1, FS_Subset
  <2>3. Cardinality(Y) = Cardinality({j \in Y : rule[j] = 0}) + Cardinality({j \in Y : rule[j] \in Rules})
    <3> HIDE DEF Y, Rules
    <3> QED
      BY <2>1, <2>2, DisjointSizesAdd
  <2>4. extracted = Cardinality(Y)
    BY DEF RunInv, CountersAddUp
  <2> QED
    BY <1>6, <1>7, <2>3, <2>4
<1> QED
  BY <1>1, <1>2, <1>8

\* The result is the aggregation whose evidence the loop kept together.
LEMMA EvidenceInResult == RunInv => EvidenceIsPreserved
<1> SUFFICES ASSUME RunInv, phase = "done" PROVE EvidenceIsPreserved
  BY DEF EvidenceIsPreserved
<1> DEFINE p == source.provider
<1>1. Evidence(names, accepted, p)
  BY DEF RunInv, EvidenceSoFar
<1>2. DOMAIN names = {accepted[i].normalized : i \in DOMAIN accepted}
  BY <1>1 DEF Evidence
<1>3. ASSUME NEW n \in DOMAIN names
      PROVE  LET counts == names[n].perProvider[source.provider]
                 years  == {accepted[i].year : i \in Of(n)} \ {NoYear}
             IN  /\ DOMAIN names[n].perProvider = {source.provider}
                 /\ counts.count = Cardinality(Of(n))
                 /\ counts.live = Cardinality({i \in Of(n) : accepted[i].status = "live"})
                 /\ counts.dead = Cardinality({i \in Of(n) : accepted[i].status = "dead"})
                 /\ IF years = {} THEN counts.earliest = NoYear
                    ELSE counts.earliest \in years /\ \A y \in years : counts.earliest <= y
                 /\ names[n].tags = UNION {accepted[i].tags : i \in Of(n)}
                 /\ \E i \in Of(n) : /\ names[n].display = accepted[i].display
                                     /\ \A j \in Of(n) : i <= j
  <2>1. Recorded(names[n], accepted, Of(n), p)
    BY <1>1 DEF Evidence, Positions, Of
  <2> QED
    BY <2>1 DEF Recorded, Tallied, WithStatus
<1> QED
  BY <1>2, <1>3 DEF EvidenceIsPreserved
==============================================================================
