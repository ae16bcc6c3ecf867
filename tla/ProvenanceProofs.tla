--------------------------- MODULE ProvenanceProofs ---------------------------
(***************************************************************************)
(* What holds from the download to the artifact for any sources, editions, *)
(* blends and holdouts: the funnel adds up, aggregation preserves the      *)
(* evidence, every name of an artifact was read from a row, and every name *)
(* that was read is in the artifact or among the exclusions.               *)
(***************************************************************************)
EXTENDS Provenance, IngestProofs, BuilderProofs, TLAPS

------------------------------------------------------------------------------
(* The inductive invariant, in named parts *)

\* What is described was at its location, and something still is.
FilesAreEditions ==
  /\ file = [p \in ProviderIds |-> file[p]]
  /\ \A p \in ProviderIds : file[p] \in {<<>>} \cup Editions[p]
  /\ snapshots \in Seq(Snapshots) /\ log \in Seq(Snapshots)
  /\ Range(log) \cup refused \subseteq Range(snapshots)
  /\ \A s \in Range(snapshots) : file[s.provider] \in Editions[s.provider]

\* A result is its provider's, and names what the rows under no rule say.
Told(r) ==
  /\ r.provider \in ProviderIds
  /\ r.licence = Sources[r.provider].licence
  /\ r.kind = Sources[r.provider].kind
  /\ r.rows \in Seq(AllRows(r.provider))
  /\ r.names = NamedBy(r.rows, Under(r.provider, r.rows, 0))

ResultsAreTold == IsFiniteSet(results) /\ \A r \in results : Told(r)

\* An artifact is what build_artifact makes of its arguments, and the gates
\* were open.
Made(b) ==
  LET contributing == Contributing(b.artifact.use, b.blend, b.offer)
  IN  /\ b.artifact.use \in Uses
      /\ b.blend \in Blends /\ b.offer \subseteq results /\ b.holdout \in Holdouts
      /\ GatesOpen(b.artifact.use, contributing)
      /\ b.artifact = BuiltFrom(b.artifact.use, contributing, b.holdout)
      /\ b.excluded = Excluded(b.artifact.use, MergedNames(contributing), b.holdout)

ArtifactsAreMade == \A b \in built : Made(b)

PInv == RunInv /\ FilesAreEditions /\ ResultsAreTold /\ ArtifactsAreMade
------------------------------------------------------------------------------
(* The constants *)

\* Sources, editions and providers are about the same ids.
LEMMA ConstantTypes ==
  /\ DOMAIN Sources = ProviderIds /\ DOMAIN Editions = ProviderIds
  /\ \A p \in ProviderIds : /\ Sources[p].licence \in LicenceClasses
                            /\ Sources[p].kind \in ProviderKinds
  /\ \A p \in ProviderIds : \A row \in AllRows(p) : row.text.folded \in Words \cap Lines
  /\ \A h \in Holdouts : h \in {None} \cup SUBSET Words
<1>1. DOMAIN Sources = ProviderIds /\ DOMAIN Editions = ProviderIds
  BY IngestAssumption, ProvenanceAssumption
<1>2. ASSUME NEW p \in ProviderIds
      PROVE  Sources[p].licence \in LicenceClasses /\ Sources[p].kind \in ProviderKinds
  <2>1. [licence |-> Sources[p].licence, kind |-> Sources[p].kind] \in Descriptors
    BY ProvenanceAssumption
  <2> QED
    BY <2>1 DEF Descriptors
<1>3. ASSUME NEW p \in ProviderIds, NEW row \in AllRows(p)
      PROVE  row.text.folded \in Words \cap Lines
  BY ProvenanceAssumption DEF AllRows
<1>4. \A h \in Holdouts : h \in {None} \cup SUBSET Words
  BY ProvenanceAssumption
<1> QED
  BY <1>1, <1>2, <1>3, <1>4

\* A snapshot describes a provider's edition.
LEMMA SnapshotTypes ==
  ASSUME NEW s \in Snapshots
  PROVE  s.provider \in ProviderIds /\ s.content \in Editions[s.provider]
BY DEF Snapshots, SnapshotOf

\* Results are read from rows: their names are words, finitely many, and each
\* of them is in some row.
LEMMA NamesAreRead ==
  ASSUME NEW r, Told(r)
  PROVE  /\ r.names = NamesIn(r)
         /\ r.names \in SUBSET Lines
         /\ IsFiniteSet(r.names)
<1> DEFINE J == Under(r.provider, r.rows, 0)
<1>1. r.rows \in Seq(AllRows(r.provider)) /\ r.provider \in ProviderIds /\ r.names = NamedBy(r.rows, J)
  BY DEF Told
<1>2. \A j \in J : r.rows[j].text.folded \in Words \cap Lines
  <2>1. \A j \in J : r.rows[j] \in AllRows(r.provider)
    BY <1>1 DEF Under, Yields
  <2> QED
    BY <1>1, <2>1, ConstantTypes
<1>3. r.names \in SUBSET Lines
  BY <1>1, <1>2 DEF NamedBy
<1>4. \A n : Naming(r, n) = {j \in J : r.rows[j].text.folded = n}
  BY DEF Naming, Under, Yields
<1>5. r.names = NamesIn(r)
  BY <1>1, <1>2, <1>4 DEF NamedBy, NamesIn
<1>6. IsFiniteSet(r.names)
  <2>1. IsFiniteSet(J)
    BY <1>1, RowsAreFinite
  <2>2. PICK name : name = [j \in J |-> r.rows[j].text.folded]
    OBVIOUS
  <2>3. {name[j] : j \in J} = NamedBy(r.rows, J)
    BY <2>2 DEF NamedBy
  <2> HIDE DEF J
  <2>4. IsFiniteSet({name[j] : j \in J})
    BY <2>1, ImageIsFinite
  <2> QED
    BY <1>1, <2>3, <2>4
<1> QED
  BY <1>3, <1>5, <1>6
------------------------------------------------------------------------------
(* The steps *)

LEMMA PInvInit == Init => PInv
<1> SUFFICES ASSUME Init PROVE PInv
  OBVIOUS
<1>1. RunInv
  BY RunInvInit DEF Init
<1>2. FilesAreEditions
  BY ConstantTypes DEF Init, IngestInit, FilesAreEditions, Range
<1>3. ResultsAreTold /\ ArtifactsAreMade
  BY FS_EmptySet DEF Init, ResultsAreTold, ArtifactsAreMade
<1> QED
  BY <1>1, <1>2, <1>3 DEF PInv

\* What a snapshot is appended to has it.
LEMMA RangeOfAppend ==
  ASSUME NEW S, NEW seq \in Seq(S), NEW e \in S
  PROVE  Range(Append(seq, e)) = Range(seq) \cup {e}
<1> DEFINE longer == Append(seq, e)
<1>1. PICK k \in Nat : k = Len(seq) /\ DOMAIN seq = 1..k
  OBVIOUS
<1>2. DOMAIN longer = (1..k) \cup {k + 1} /\ longer[k + 1] = e /\ \A i \in 1..k : longer[i] = seq[i]
  BY <1>1
<1> HIDE DEF longer
<1>3. {longer[i] : i \in (1..k) \cup {k + 1}} = {seq[i] : i \in 1..k} \cup {e}
  BY <1>2
<1> QED
  BY <1>1, <1>2, <1>3 DEF Range, longer

LEMMA AcquireStep ==
  ASSUME PInv, NEW p \in ProviderIds, Acquire(p)
  PROVE  PInv'
<1>1. PICK e \in Editions[p] : /\ file' = [file EXCEPT ![p] = e]
                               /\ snapshots' = Append(snapshots, SnapshotOf(p, e))
  BY DEF Acquire
<1>2. UNCHANGED <<run, log, results, built, refused>>
  BY DEF Acquire
<1>3. \A q \in ProviderIds : file'[q] = IF q = p THEN e ELSE file[q]
  BY <1>1 DEF PInv, FilesAreEditions
<1>4. RunInv'
  <2>1. phase = "rows" => file'[source.provider] \in Editions[source.provider]
    BY <1>3, ConstantTypes DEF PInv, RunInv, RunShape
  <2> QED
    BY <1>2, <2>1, RunInvFile DEF PInv
<1>5. FilesAreEditions'
  <2>1. file' = [q \in ProviderIds |-> file'[q]]
    BY <1>1 DEF PInv, FilesAreEditions
  <2>2. SnapshotOf(p, e) \in Snapshots
    BY DEF Snapshots
  <2>3. /\ snapshots' \in Seq(Snapshots)
        /\ Range(snapshots') = Range(snapshots) \cup {SnapshotOf(p, e)}
    BY <1>1, <2>2, RangeOfAppend DEF PInv, FilesAreEditions
  <2>4. \A q \in ProviderIds : file'[q] \in {<<>>} \cup Editions[q]
    BY <1>3 DEF PInv, FilesAreEditions
  <2>5. ASSUME NEW s \in Range(snapshots')
        PROVE  file'[s.provider] \in Editions[s.provider]
    <3>1. s \in Snapshots
      BY <2>2, <2>3, <2>5 DEF PInv, FilesAreEditions, Range
    <3>2. s.provider \in ProviderIds
      BY <3>1, SnapshotTypes
    <3>3. s.provider # p => s \in Range(snapshots)
      BY <2>3, <2>5 DEF SnapshotOf
    <3> QED
      BY <1>3, <3>2, <3>3 DEF PInv, FilesAreEditions
  <2> QED
    BY <1>2, <2>1, <2>3, <2>4, <2>5 DEF PInv, FilesAreEditions
<1>6. ResultsAreTold' /\ ArtifactsAreMade'
  BY <1>2 DEF PInv, ResultsAreTold, ArtifactsAreMade, Made
<1> QED
  BY <1>4, <1>5, <1>6 DEF PInv

LEMMA AcceptStep ==
  ASSUME PInv, NEW s \in Range(snapshots), Accept(s)
  PROVE  PInv'
<1>1. UNCHANGED <<file, run, snapshots, results, built>>
  BY DEF Accept
<1>2. RunInv'
  BY <1>1, RunInvFile DEF PInv, RunInv, RunShape
<1>3. s \in Snapshots
  BY DEF PInv, FilesAreEditions, Range
<1>4. \/ log' = Append(log, s) /\ refused' = refused
      \/ log' = log /\ refused' = refused \cup {s}
  BY DEF Accept
<1>5. log' \in Seq(Snapshots) /\ Range(log') \cup refused' \subseteq Range(log) \cup refused \cup {s}
  <2>1. log \in Seq(Snapshots)
    BY DEF PInv, FilesAreEditions
  <2>2. CASE log' = Append(log, s) /\ refused' = refused
    BY <1>3, <2>1, <2>2, RangeOfAppend, AppendProperties
  <2>3. CASE log' = log /\ refused' = refused \cup {s}
    BY <2>1, <2>3
  <2> QED
    BY <1>4, <2>2, <2>3
<1>6. FilesAreEditions'
  BY <1>1, <1>5 DEF PInv, FilesAreEditions
<1>7. ResultsAreTold' /\ ArtifactsAreMade'
  BY <1>1 DEF PInv, ResultsAreTold, ArtifactsAreMade, Made
<1> QED
  BY <1>2, <1>6, <1>7 DEF PInv

\* A run leaves the files, the ledger and what was built alone.
LEMMA RunSteps ==
  ASSUME PInv, RunInv', UNCHANGED <<file, snapshots, log, results, built, refused>>
  PROVE  PInv'
BY DEF PInv, FilesAreEditions, ResultsAreTold, ArtifactsAreMade, Made

LEMMA IngestStep ==
  ASSUME PInv, NEW s \in Range(log), Ingest(s)
  PROVE  PInv'
<1>1. s \in Range(snapshots) /\ s \in Snapshots
  <2>1. s \in Range(snapshots)
    BY DEF PInv, FilesAreEditions
  <2>2. snapshots \in Seq(Snapshots)
    BY DEF PInv, FilesAreEditions
  <2> QED
    BY ONLY <2>1, <2>2 DEF Range
<1>2. s.provider \in DOMAIN Sources /\ file[s.provider] \in Editions[s.provider]
  BY <1>1, SnapshotTypes, ConstantTypes DEF PInv, FilesAreEditions
<1>3. Open(s) /\ UNCHANGED <<file, snapshots, log, results, built, refused>>
  BY DEF Ingest, Open
<1>4. RunInv'
  BY <1>2, <1>3, RunInvOpen
<1> QED
  BY <1>3, <1>4, RunSteps

LEMMA IngestRowStep == PInv /\ IngestRow => PInv'
<1> SUFFICES ASSUME PInv, IngestRow PROVE PInv'
  OBVIOUS
<1>1. ReadRow /\ UNCHANGED <<file, snapshots, log, results, built, refused>>
  BY DEF IngestRow, ReadRow
<1>2. RunInv'
  BY <1>1, RunInvReadRow DEF PInv
<1> QED
  BY <1>1, <1>2, RunSteps

LEMMA IngestReturnsStep == PInv /\ IngestReturns => PInv'
<1> SUFFICES ASSUME PInv, IngestReturns PROVE PInv'
  OBVIOUS
<1> DEFINE p == source.provider
           r == [provider |-> p, licence |-> Sources[p].licence, kind |-> Sources[p].kind,
                 names |-> DOMAIN names', rows |-> consumed]
<1>1. Finish /\ results' = results \cup {r} /\ UNCHANGED <<file, snapshots, log, built, refused>>
  BY DEF IngestReturns, Finish
<1>2. RunInv'
  BY <1>1, RunInvFinish DEF PInv
<1>3. Told(r)
  <2>1. p \in ProviderIds /\ consumed \in Seq(AllRows(p))
    BY <1>1, ConstantTypes DEF PInv, RunInv, RunShape, Finish
  <2>2. names' = Aggregate(accepted)
    BY <1>1 DEF Finish
  <2>3. DOMAIN names' = Named(accepted)
    BY <2>2 DEF PInv, RunInv, EvidenceSoFar, Evidence, Named
  <2>4. DOMAIN names' = NamedBy(consumed, Under(p, consumed, 0))
    BY <2>3 DEF PInv, RunInv, AcceptedIsRead
  <2> QED
    BY <2>1, <2>4 DEF Told
<1> HIDE DEF r
<1>4. ResultsAreTold'
  BY <1>1, <1>3, FS_AddElement DEF PInv, ResultsAreTold
<1>5. FilesAreEditions' /\ ArtifactsAreMade'
  BY <1>1 DEF PInv, FilesAreEditions, ArtifactsAreMade, Made
<1> QED
  BY <1>2, <1>4, <1>5 DEF PInv

LEMMA BuildStep == PInv /\ Build => PInv'
<1> SUFFICES ASSUME PInv, Build PROVE PInv'
  OBVIOUS
<1>1. PICK use \in Uses, blend \in Blends, offer \in SUBSET results, holdout \in Holdouts :
        LET contributing == Contributing(use, blend, offer)
            artifact     == BuiltFrom(use, contributing, holdout)
        IN  /\ GatesOpen(use, contributing)
            /\ built' = built \cup
                 {[id       |-> ArtifactId(use, blend, artifact.names),
                   artifact |-> artifact,
                   excluded |-> Excluded(use, MergedNames(contributing), holdout),
                   blend    |-> blend,
                   offer    |-> offer,
                   holdout  |-> holdout]}
  BY DEF Build
<1> DEFINE contributing == Contributing(use, blend, offer)
           artifact == BuiltFrom(use, contributing, holdout)
           b == [id       |-> ArtifactId(use, blend, artifact.names),
                 artifact |-> artifact,
                 excluded |-> Excluded(use, MergedNames(contributing), holdout),
                 blend    |-> blend, offer |-> offer, holdout |-> holdout]
<1>2. built' = built \cup {b} /\ GatesOpen(use, contributing)
  BY <1>1
<1>3. UNCHANGED <<file, run, snapshots, log, results, refused>>
  BY DEF Build
<1>4. Made(b)
  <2>1. artifact.use = use
    BY DEF BuiltFrom
  <2> QED
    BY <1>2, <2>1 DEF Made
<1> HIDE DEF b
<1>5. \A c \in built' : Made(c)
  BY <1>2, <1>4 DEF PInv, ArtifactsAreMade
<1>6. ArtifactsAreMade'
  BY <1>3, <1>5 DEF ArtifactsAreMade, Made
<1>7. RunInv'
  BY <1>3, RunInvFile DEF PInv, RunInv, RunShape
<1>8. FilesAreEditions' /\ ResultsAreTold'
  BY <1>3 DEF PInv, FilesAreEditions, ResultsAreTold
<1> QED
  BY <1>6, <1>7, <1>8 DEF PInv

LEMMA PInvNext == PInv /\ [Next]_vars => PInv'
<1> SUFFICES ASSUME PInv, [Next]_vars PROVE PInv'
  OBVIOUS
<1>1. CASE UNCHANGED vars
  <2>1. RunInv'
    BY <1>1, RunInvFile DEF vars, PInv, RunInv, RunShape
  <2> QED
    BY <1>1, <2>1, RunSteps DEF vars
<1> QED
  BY <1>1, AcquireStep, AcceptStep, IngestStep, IngestRowStep, IngestReturnsStep, BuildStep DEF Next

\* The invariant that everything below rests on.
THEOREM Invariance == Spec => []PInv
BY PInvInit, PInvNext, PTL DEF Spec

------------------------------------------------------------------------------
(* What follows from it *)

\* An artifact's fields, one by one: the providers that contribute to it, and
\* of the names they bring those the holdout admits.
LEMMA ArtifactOf ==
  ASSUME PInv, NEW b \in built,
         NEW contributing, contributing = Contributing(b.artifact.use, b.blend, b.offer)
  PROVE  /\ b.artifact.use \in Uses /\ b.holdout \in Holdouts
         /\ contributing \subseteq b.offer /\ b.offer \subseteq results
         /\ GatesOpen(b.artifact.use, contributing)
         /\ b.artifact.providers = {r.provider : r \in contributing}
         /\ b.artifact.names = Admitted(b.artifact.use, MergedNames(contributing), b.holdout)
         /\ b.excluded = Excluded(b.artifact.use, MergedNames(contributing), b.holdout)
         /\ \A r \in contributing : Told(r) /\ b.artifact.use \in RolesFor(b.blend, r.provider)
<1>1. Made(b)
  BY DEF PInv, ArtifactsAreMade
<1>2. contributing \subseteq b.offer /\ b.offer \subseteq results
  BY <1>1 DEF Made, Contributing
<1>3. \A r \in contributing : Told(r) /\ b.artifact.use \in RolesFor(b.blend, r.provider)
  BY <1>2 DEF PInv, ResultsAreTold, Contributing
<1>4. /\ b.artifact = BuiltFrom(b.artifact.use, contributing, b.holdout)
      /\ b.artifact.use \in Uses /\ b.holdout \in Holdouts
      /\ GatesOpen(b.artifact.use, contributing)
      /\ b.excluded = Excluded(b.artifact.use, MergedNames(contributing), b.holdout)
  BY <1>1 DEF Made
<1>5. /\ b.artifact.providers = {r.provider : r \in contributing}
      /\ b.artifact.names = Admitted(b.artifact.use, MergedNames(contributing), b.holdout)
  BY <1>4 DEF BuiltFrom
<1> QED
  BY <1>2, <1>3, <1>4, <1>5

\* Only names that some contributing result brings are admitted.
LEMMA AdmittedIsMerged ==
  ASSUME NEW use, NEW merged, NEW holdout
  PROVE  Admitted(use, merged, holdout) \subseteq merged
BY DEF Admitted

LEMMA StateIsTyped == PInv => TypeOK
<1> SUFFICES ASSUME PInv PROVE TypeOK
  OBVIOUS
<1>1. RunTypeOK
  BY RunIsTyped DEF PInv
<1>2. \A p \in ProviderIds : file[p] \in {<<>>} \cup Editions[p]
  BY DEF PInv, FilesAreEditions
<1>3. Range(log) \cup refused \subseteq Range(snapshots) /\ Range(snapshots) \subseteq Snapshots
  <2>1. snapshots \in Seq(Snapshots)
    BY DEF PInv, FilesAreEditions
  <2>2. Range(snapshots) \subseteq Snapshots
    BY ONLY <2>1 DEF Range
  <2> QED
    BY <2>2 DEF PInv, FilesAreEditions
<1>4. ASSUME NEW r \in results
      PROVE  [provider |-> r.provider, licence |-> r.licence,
              kind |-> r.kind, names |-> r.names] \in Results
  <2>1. Told(r)
    BY DEF PInv, ResultsAreTold
  <2>2. r.names \in SUBSET Lines
    BY <2>1, NamesAreRead
  <2> QED
    BY <2>1, <2>2, ConstantTypes DEF Told, Results
<1>5. ASSUME NEW b \in built PROVE b.artifact \in Artifacts
  <2>1. PICK contributing : contributing = Contributing(b.artifact.use, b.blend, b.offer)
    OBVIOUS
  <2>2. /\ b.artifact.use \in Uses
        /\ b.artifact.providers = {r.provider : r \in contributing}
        /\ b.artifact.names = Admitted(b.artifact.use, MergedNames(contributing), b.holdout)
        /\ \A r \in contributing : Told(r)
    BY <2>1, ArtifactOf
  <2>3. \A r \in contributing : r.provider \in ProviderIds /\ r.names \in SUBSET Lines
    BY <2>2, NamesAreRead DEF Told
  <2>4. b.artifact.providers \in SUBSET ProviderIds /\ b.artifact.names \in SUBSET Lines
    BY <2>2, <2>3, AdmittedIsMerged DEF MergedNames
  <2>5. b.artifact = BuiltFrom(b.artifact.use, contributing, b.holdout)
    BY <2>1 DEF PInv, ArtifactsAreMade, Made
  <2>6. b.artifact = [use |-> b.artifact.use, providers |-> b.artifact.providers,
                      names |-> b.artifact.names]
    BY <2>5 DEF BuiltFrom
  <2> QED
    BY <2>2, <2>4, <2>6 DEF Artifacts
<1> QED
  BY <1>1, <1>2, <1>3, <1>4, <1>5 DEF TypeOK

LEMMA NamesHaveSources == PInv => NamesAreTraceable
<1> SUFFICES ASSUME PInv, NEW b \in built, NEW n \in b.artifact.names
             PROVE  \E r \in b.offer :
                      /\ n \in NamesIn(r)
                      /\ r.provider \in b.artifact.providers
                      /\ b.artifact.use \in PermittedUses(Sources[r.provider].licence)
                      /\ b.artifact.use = "induction" => Sources[r.provider].kind # "internal"
                      /\ \E i \in DOMAIN b.blend : /\ b.blend[i].provider = r.provider
                                                   /\ b.artifact.use \in b.blend[i].roles
  BY DEF NamesAreTraceable
<1>1. PICK contributing : contributing = Contributing(b.artifact.use, b.blend, b.offer)
  OBVIOUS
<1>2. /\ contributing \subseteq b.offer
      /\ GatesOpen(b.artifact.use, contributing)
      /\ b.artifact.providers = {r.provider : r \in contributing}
      /\ b.artifact.names = Admitted(b.artifact.use, MergedNames(contributing), b.holdout)
      /\ \A r \in contributing : Told(r) /\ b.artifact.use \in RolesFor(b.blend, r.provider)
  BY <1>1, ArtifactOf
<1>3. PICK r \in contributing : n \in r.names
  BY <1>2, AdmittedIsMerged DEF MergedNames
<1>4. n \in NamesIn(r)
  BY <1>2, <1>3, NamesAreRead
<1>5. /\ b.artifact.use \in PermittedUses(Sources[r.provider].licence)
      /\ b.artifact.use = "induction" => Sources[r.provider].kind # "internal"
  BY <1>2, <1>3 DEF GatesOpen, Permits, Told
<1>6. \E i \in DOMAIN b.blend : b.blend[i].provider = r.provider /\ b.artifact.use \in b.blend[i].roles
  BY <1>2, <1>3 DEF RolesFor
<1> QED
  BY <1>2, <1>3, <1>4, <1>5, <1>6

\* What an artifact's providers read is what its contributing results name:
\* a result contributes because of its provider, so every offered result of a
\* listed provider does.
LEMMA ReadIsMerged ==
  ASSUME PInv, NEW b \in built,
         NEW contributing, contributing = Contributing(b.artifact.use, b.blend, b.offer)
  PROVE  UNION {NamesIn(r) : r \in {q \in b.offer : q.provider \in b.artifact.providers}}
           = MergedNames(contributing)
<1>1. b.artifact.providers = {r.provider : r \in contributing} /\ \A r \in contributing : Told(r)
  BY ArtifactOf
<1>2. {q \in b.offer : q.provider \in b.artifact.providers} = contributing
  BY <1>1 DEF Contributing
<1>3. \A r \in contributing : r.names = NamesIn(r)
  BY <1>1, NamesAreRead
<1> QED
  BY <1>2, <1>3 DEF MergedNames

\* And these are finitely many.
LEMMA MergedIsFinite ==
  ASSUME PInv, NEW contributing \in SUBSET results
  PROVE  IsFiniteSet(MergedNames(contributing)) /\ MergedNames(contributing) \in SUBSET Lines
<1>1. IsFiniteSet(contributing)
  BY FS_Subset DEF PInv, ResultsAreTold
<1>2. \A r \in contributing : IsFiniteSet(r.names) /\ r.names \in SUBSET Lines
  BY NamesAreRead DEF PInv, ResultsAreTold
<1>3. PICK sets : sets = {r.names : r \in contributing}
  OBVIOUS
<1>4. PICK f : f = [r \in contributing |-> r.names]
  OBVIOUS
<1>5. sets = {f[r] : r \in contributing}
  BY <1>3, <1>4
<1>6. IsFiniteSet(sets)
  BY ONLY <1>1, <1>5, ImageIsFinite
<1>7. \A x \in sets : IsFiniteSet(x) /\ x \in SUBSET Lines
  BY <1>2, <1>3
<1>8. IsFiniteSet(UNION sets)
  BY ONLY <1>6, <1>7, FS_UNION
<1> QED
  BY <1>3, <1>7, <1>8 DEF MergedNames

LEMMA LossesAreCounted == PInv => ExclusionsAccountForEveryName
<1> SUFFICES ASSUME PInv, NEW b \in built
             PROVE  LET read == UNION {NamesIn(r) : r \in {q \in b.offer : q.provider \in b.artifact.providers}}
                        lost == read \ b.artifact.names
                    IN  /\ SumFunction(b.excluded) = Cardinality(lost)
                        /\ lost # {} => b.artifact.use = "induction"
                        /\ \A n \in lost : \E h \in b.holdout : Resembles(Fold[n], h)
  BY DEF ExclusionsAccountForEveryName
<1>1. PICK contributing : contributing = Contributing(b.artifact.use, b.blend, b.offer)
  OBVIOUS
<1>2. PICK merged : merged = MergedNames(contributing)
  OBVIOUS
<1>3. UNION {NamesIn(r) : r \in {q \in b.offer : q.provider \in b.artifact.providers}} = merged
  BY <1>1, <1>2, ReadIsMerged
<1>4. /\ contributing \in SUBSET results /\ b.holdout \in Holdouts
      /\ b.artifact.names = Admitted(b.artifact.use, merged, b.holdout)
      /\ b.excluded = Excluded(b.artifact.use, merged, b.holdout)
  BY <1>1, <1>2, ArtifactOf
<1>5. IsFiniteSet(merged) /\ merged \in SUBSET Lines
  BY <1>2, <1>4, MergedIsFinite
<1>6. b.holdout \in {None} \cup SUBSET Words
  BY <1>4, ConstantTypes
<1>7. SumFunction(b.excluded) = Cardinality(merged \ b.artifact.names)
  BY <1>4, <1>5, ExclusionsAddUp
<1>8. ASSUME NEW n \in merged \ b.artifact.names
      PROVE  b.artifact.use = "induction" /\ \E h \in b.holdout : Resembles(Fold[n], h)
  BY <1>4, <1>5, <1>6, <1>8, ExcludedForAReason
<1> QED
  BY <1>3, <1>7, <1>8

------------------------------------------------------------------------------
(* The theorems *)

\* Every variable keeps its type: what is in the ledger was downloaded, results
\* and artifacts are of the vocabulary of types.py.
THEOREM TypeCorrect == Spec => []TypeOK
BY Invariance, StateIsTyped, PTL

\* "The funnel is measurable rather than assumed": when ingest returns, the
\* records extracted are the rows its provider yielded, and each is accepted or
\* counted under the one rule that rejected it.
THEOREM FunnelTheorem == Spec => []FunnelAddsUp
<1>1. PInv => FunnelAddsUp
  BY FunnelCloses DEF PInv
<1> QED
  BY <1>1, Invariance, PTL

\* "Deduplication aggregates": the counts, years, tags and display form of every
\* name of a result are those of the accepted records of that name.
THEOREM EvidenceTheorem == Spec => []EvidenceIsPreserved
<1>1. PInv => EvidenceIsPreserved
  BY EvidenceInResult DEF PInv
<1> QED
  BY <1>1, Invariance, PTL

\* Every name of an artifact was read from a row of a provider it lists, whose
\* licence and kind allow the use and which the blend includes for it.
THEOREM TraceabilityTheorem == Spec => []NamesAreTraceable
BY Invariance, NamesHaveSources, PTL

\* What the listed providers read and the artifact lacks is counted among the
\* exclusions, once, and resembles a held-out name.
THEOREM ExclusionTheorem == Spec => []ExclusionsAccountForEveryName
BY Invariance, LossesAreCounted, PTL
==============================================================================
