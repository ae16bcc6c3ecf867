# BrandForge: a verification project

TLA+ models of BrandForge's corpus subsystem (`services/corpus`) and of the two
guards beside it (`tools/check_corpus.py`, `tools/inventory_lock.py`), the TLC
runs that check them on small instances, and TLAPS proofs for every value of
the constants. `PROJECT.json` maps every definition to the lines it stands for.

At this commit these two directories are the program: `engine`, `apps` and the
other services are empty packages.

## 1. The system

| component | state it keeps | operations | interacts through |
|---|---|---|---|
| licence gate (`licensing.py`, `types.py`) | none; a read-only table | `permits`, `require` | called by the builder and by the guard, with different descriptors |
| sealed holdout (`holdout.py`) | `holdout.txt`, `holdout.sealed.json`; an index in memory | seal, load and verify, build the index, `contamination_key` | files an operator edits; builder and guard load them |
| artifact builder (`pipeline.build_artifact`) | none; returns an artifact | two gates, then the holdout filter | provider results, a blend, an index the caller loaded earlier; writes an artifact file |
| corpus guard (`check_corpus.py`, `config.py`) | locals of one run | `run_check`: paths, holdout, each artifact | reads holdout and artifacts one file after the other, without a lock |
| ingest (`pipeline.ingest`, `normalise.py`) | counters, accepted records | one loop over the records of a provider, then `aggregate` | streams the file a snapshot points at |
| providers (`uspto.py`, `fake.py`) | none | `acquire`, `extract` | write and read the snapshot file |
| snapshot ledger (`snapshot.py`, `protocol.py`) | a JSON list | `accept` = verify, compare, record | reads and rewrites the ledger file; several processes may |
| inventory lock (`inventory_lock.py`) | one lockfile per inventory | `check`, `update` | files contributors edit; hooks and CI gate releases on `check` |
| path configuration (`config.py`, `inventory_root`) | `pyproject.toml` | `resolve`, `require_artifacts_dir` | names the places the two guards look at; operators edit it and move directories |
| errors, command lines | none | | not modelled: no behaviour of their own beyond which path is used and what is caught, and that is in the models |

Nothing in this code runs concurrently inside one process. What is hard is
between processes and people: files are read and written without locks, in
several steps, while somebody edits them; runs die half-way; and what was
checked at one time is used at another. Section 6 and `hazards` in
`PROJECT.json` list where.

What makes each part correct:

- *guard*: green means that every artifact is permitted, free of internal
  providers and of held-out names, with respect to a holdout that was really
  sealed; red has a cause; what is wrong keeps being reported.
- *index*: it may exclude too much, never too little.
- *ledger*: no accepted edition shrinks unnoticed; nothing accepted is forgotten.
- *builder*: every name in an artifact has a permitted source that the artifact
  lists, and every name that is missing was counted as held out.
- *inventories*: a released position keeps its meaning for ever.
- *ingest*: the funnel accounts for every record a provider yields, aggregation
  keeps the evidence.

## 2. Modules

| module | models | how state and actions correspond |
|---|---|---|
| `Licensing` | the licence table | `Permits` is `permits`; a descriptor is its licence and kind |
| `Holdout` | `holdout.py` on abstract text | a line is a model value, `Fold` its strip and casefold, `Canonical` is `normalise_names`, a seal is the canonical set (hashes do not collide), `ContaminationKey` tries the keys in the code's order |
| `Builder` | `build_artifact` and what it takes and returns, as operators | `Contributing`, `GatesOpen`, `Admitted`, `Excluded`, `ArtifactId` are its steps; `RolesFor` is `entry_for`; it extends `Licensing` and `Holdout` |
| `CorpusGuard` | builder, guard, configuration, and everybody who changes their files | below; extends `Builder` |
| `HoldoutIndex` | `HoldoutIndex.build` and `contamination_key` on words with letters | `AddName` is one turn of `build`'s loop, `Ask` a call of `contamination_key`; it instantiates `Holdout` |
| `AcceptedLog` | the abstract promise of the ledger: an append-only log whose consecutive editions of a provider stay within the tolerance, lost visibly or reset by an operator, unless an accept that read the old log before brings it back | `undo` is the log such an accept may bring back |
| `SnapshotLedger` | `SnapshotLedger.accept` | one action per file access: `Verify`, `Compare` (first read), `Load` (second read), `Truncate` and `Write` (the two halves of `write_text`); `Crash` at any of them, `Retry` of the snapshot at hand at any later time, `TamperWithLedger` (removed, or another file moved into its place) between any two. `overtaken` are the processes under whom the ledger was replaced since their second read: before they open it, their write brings the old entries back; after, it goes to a file nobody will read |
| `AddressSpace` | the abstract promise of the inventory lock: inventories only grow at their end | |
| `InventoryLock` | `check`, `update`, contributors, releases, a user who reviews releases | `updating` is what an update has still to lock, `Turn` the first of it in sorted order; `UpdateNext` locks that one, `UpdateDies` stops between or within two, `Release` is a commit that `check` lets through. `Reviewed` is what its reviewer asks: that lockfile diffs only add (`LockOnlyGrew`), and two things that no lockfile diff shows, that nothing the tool could see is gone (`NothingGone`) and that every entry is locked (`LockedInFull`) |
| `Normalise` | the structural rules, tags and aggregation, as operators | `RejectedBy` is the first failing rule, `Absorb` one turn of `aggregate` |
| `Ingest` | `ingest` over both providers; actions only, no specification of its own | `Open`, one `ReadRow` per CSV row or line, `Finish` |
| `Provenance` | from download to artifact: `Ingest`, `Builder` and `AcceptedLog` composed | `Acquire` at any time, also during `IngestRow`; `Accept`, `Ingest`, `Build` by one sequential caller |
| `*Proofs` | theorems and proofs | each extends its component and TLAPS; `BuilderProofs` is about operators only and serves the guard and provenance, `IngestProofs` is about one run of `ingest` |
| `FoldLemmas` | lemmas for the proofs: induction, sums and sizes | no code of its own |
| `MC*` | small instances | |

`CorpusGuard` composes `Licensing` and `Holdout` with three actors. The
operator's steps (`EditHoldout`, `SpoilSeal`, `WriteHoldout`/`WriteSeal`,
`EditConfig`, `MovePath`, `MoveHoldout`, `PlaceFile`) are the environment;
sealing is two writes, as in the tests' `write_holdout`. The builder holds an
index loaded at some time (`LoadIndex`, from the configured path, its reads
taken at once) and builds with it, or with none, at any later one (`Build`). The guard's `pc` walks through `main` and `run_check`: the
configuration, the four existence tests of `load_holdout` (`GuardProbeNone`,
`GuardProbeOne`), the two reads, the directory listing, one step per artifact.
An exception that leaves `run_check` is the verdict `crash`, which is not 0
either. `artifactsPath` and `holdoutPath` say what the two configured paths
name; the code resolves them once, so a move during a run stands for a
directory that is moved, and is as bad as can be. The guard checks artifacts in
any order; the code sorts them, which is one of those orders. `lastSealed`, `everSealed`, `origin`,
`seen` and `touched` are auxiliary: no guard of an action reads them.

`Provenance` has no counterpart that calls all of it: at this commit tests and
design documents call `acquire`, `accept`, `ingest` and `build_artifact` in
this order, and the caller is modelled as anybody who does, with any results,
blend and index at hand. Files belong to nobody: a provider's file may be
overwritten before, during and after an ingest of an earlier snapshot.

Beside some definitions stands a "wrong form" of it: a plausible slip under
which the property named in `PROJECT.json` (`mutants`) fails. They show that
each property depends on the code; no specification uses them.

## 3. Runs

| run | what it shows | bounds, and why they are enough |
|---|---|---|
| `guard` | `GreenIsTrustworthy`, `GreenRunUsedOneSealedHoldout`, `NoFalseAlarm` under every interleaving; `RunsEnd`, `TaintIsReported` under fairness | two files, three changes to the files per behaviour, a seal with its holdout counting once; loading an index and guard runs are not bounded. A mixture of an old and a new holdout under an artifact, a build with a stale index (seal, build, seal again), an edited holdout or a moved path after a build take at most three. Lines cover an equal, a recased, a like-sounding, an edit-distance-1 and an unrelated name, and a line that is not a name; holdouts include one too small after normalisation. With three changes every tree comes to rest, so `TaintIsReported` says what `GreenIsTrustworthy` and fairness come to over a tree at rest; over one that is re-sealed and changed for ever it would not hold |
| `holdout_index` | `NothingCloseIsClean`, `EditKeyIsWithinTwo` against Levenshtein distance | all words of up to four letters over two letters; every holdout of one word, and of two of up to two letters |
| `inventory` | `LockedPositionsKeepTheirMeaning` for anything contributors do to an inventory that both releases show; `ReviewedReleasesAreAppendOnly`: what a review of the release tree has to ask beside `check`, so that the releases taken over implement `AddressSpace`. The lockfile diffs, which CONTRIBUTING.md calls the reviewable artifact, are one part of three: a vanished inventory, a moved root and an entry without a lock do not appear in them, and `check` passes (`inventory_removal`) | two inventories, four edits, contents that append, insert, reorder, truncate, reweight, reword and duplicate |
| `ledger` | `ReadableLedgerIsComplete`, `AcceptedEditionsDoNotShrink`; `ImplementsAcceptedLog`: with one process every step of `accept`, whatever happens to it and to the ledger under it, is an append, a visible loss, a reset or the undoing of a reset of `AcceptedLog` | one process, two providers (symmetric), four acquisitions or retries, two mishaps; sizes at, within and beyond the tolerance, and an empty edition |
| `provenance` | `FunnelAddsUp`, `EvidenceIsPreserved`, also while the file is rewritten; `NamesAreTraceable`, `ExclusionsAccountForEveryName` for everything built from what was ingested | three providers (CSV, curated, internal), two acquisitions, two results, one build. Two acquisitions are enough for one edition to replace another under a reader and for two providers to meet in a blend. Files of up to three rows: one name three times with and without a year, every kind of skipped, rejected and broken row, headers that do not bind; names that equal, sound like and are one edit from a held-out one; a blend that lists a provider twice |

A behaviour of `Provenance` is cut off at its last build (`GoesOn`): what comes
later cannot change what was built. An accept is modelled once per snapshot;
retries are `SnapshotLedger`'s.

The runs of `InventoryLock`, `SnapshotLedger` and `Provenance` do not check for
deadlock: contributors, acquirers and a caller who is done may simply stop.

Seven more runs refute what the repository says of itself (`findings`):

- `inventory_removal`: a deleted inventory leaves its lock behind and `check`
  does not look for locks without inventories. (`check` also protects locked
  positions only: an entry appended without `update` may change again under a
  green check. The tests want appending to be green, so `Reviewed` has to ask
  for it.)
- `ledger_crash`: the ledger is emptied before it is rewritten; one snapshot is
  accepted, and a crash while the next is recorded leaves a file without it.
  What does hold (`ledger`): the loss is visible, further accepts
  fail, and it never lets a shrunken edition pass as a first one.
- `ledger_race`: two processes that accept at once lose an entry.
- `ingest_refused`: `acquire` overwrites the file before anything compares
  sizes, and nothing verifies a snapshot before its file is streamed. So the
  rows of an edition the ledger refused become a result after all, under the
  snapshot accepted before it. The instance acquires as `FakeProvider` does.
- `artifact_ids`: an id covers use, blend and names, but not the providers:
  two artifacts that list different providers share one, and the providers an
  artifact lists are what the licence and autophagy gates judge it by.
- `ingest_malformed`: a row that is too short aborts the ingest; the documented
  quarantine does not exist.
- `ingest_skipped`: the design (`docs/design/06`, section 4.2) lists the
  drawing-code and the empty-text rule among the structural rejects, each with a
  recorded reason "so the funnel is measurable"; `extract` skips those rows
  before anything counts them. `FunnelAddsUp` holds for what is yielded.

## 4. Fairness

Only the guard needs any. A run is a finite program without waits, so it is
fair that it goes on (`WF_vars(GuardStep)`), and hooks and CI start it over and
over, so a run also begins again. Operator and builder need never move.

## 5. Proofs

Every invariant and action property that a passing run checks is a theorem,
for all values of the constants. All are checked by TLAPS from the named
assumptions of the modules (`TextAssumption`, `GuardAssumption`,
`IndexAssumption`, `InventoryAssumption`, `LedgerAssumption`,
`IngestAssumption`, `ProvenanceAssumption`, `NoYearAssumption`), which TLC
evaluates in the runs. What they say of the data is no more than their form:
editions are sequences of rows, a CSV row's year is a number or missing (the
code takes it from `int`), a missing year is no number, the folded text of a row
is a name and a word.

- **Guard** (`CorpusGuardProofs`): `TypeCorrect`, `OneSealedHoldout`
  (= `[]GreenRunUsedOneSealedHoldout`) and `GreenTrust`
  (= `[]GreenIsTrustworthy`), whatever happens to the configuration. Neither
  property is inductive: both speak of the end of a run. `IInv` says what holds on the way: a seal on disk is intact or
  the last one written (`SealIsTheLastSealed`); a run's index was built from
  names that matched a seal and are enough (`IndexIsSealed`); whatever is wrong
  with a file already read is among the run's problems (`ProblemsAreKept`); and
  as long as nothing was touched the run's copies are the files and no listed
  file escapes it (`RunSeesTheTree`). Steps of operator and builder only touch
  (`TouchingSteps`). `KeyIsPairwise` connects the index to the pairwise
  definition `Resembles`: looking words up in sets neither loses nor adds a name.
  `NoFalseAlarmTheorem` (= `[]NoFalseAlarm`) has an invariant of its own, `JInv`:
  an artifact on disk is what the build that is its `origin` makes
  (`BuiltAsRecorded`), and as long as nothing provokes it a run has found no
  problem and has the files' contents in hand (`RunGoesWell`). Its heart is
  `BuiltHasNoProblems`: the registry permits what the builder's gates let
  through, and the builder's filter leaves nothing the guard's would flag.
- **Index** (`HoldoutIndexProofs`): `TypeCorrect`, `NothingCloseTheorem` and
  `EditKeyTheorem` (= `[]EditKeyIsWithinTwo`). Words one edit apart have a common
  word that each reaches by at most one deletion (`OneEditMeets`, with
  `ReplacedLetter` for replacements), and the index built name by name is the
  index of all names (`AddingOneName`). Levenshtein distance is a recursive
  function: that its table exists and obeys its recurrence everywhere is proved
  (`FilledTable`, `FilledIsTable`), then what small entries mean
  (`OneEditOrNone`: prefixes at distance 1 differ by one letter replaced or
  dropped) and how a common deletion bounds an entry (`MeetingIsTwo`: along the
  diagonal, one step to the side, along the diagonal, one step back).
- **Inventories** (`InventoryLockProofs`): `TypeCorrect`; `LockedPositionsTheorem` from the
  invariant that every released tree passed `check`; `ReviewedRefinement`, that
  the releases a reviewer takes over implement `AddressSpace`, under `Spec`
  itself, from the invariant that they are also locked in full. It is a theorem
  about what a review must ask, not that lockfile diffs suffice: `Reviewed`
  demands that nothing is gone and every entry is locked, which the code checks
  nowhere. The reviewer compares with the release taken over last, so releases
  in between that were not accepted do no harm.
- **Ledger** (`SnapshotLedgerProofs`): `TypeCorrect` for any number of
  processes; and for one process (`Alone`: there are not two different ones)
  `CompleteLedger` (= `[]ReadableLedgerIsComplete`), `NoAcceptedShrink`
  (= `[]AcceptedEditionsDoNotShrink`) and `LedgerRefinement`
  (= `ImplementsAcceptedLog`). A write replaces the ledger by what was read
  plus the snapshot, so none of the three is inductive. `UndisturbedAccept` adds
  that a process that was not overtaken still has in hand what the ledger ought
  to list, `OvertakenInAccept` that only an accept between its second read and
  its write can be overtaken, and `AcceptInStep` that the snapshot is acceptable
  after what was read, overtaken or not. A crash, a retry, or an operator who removes or
  replaces the ledger may come at any step. Two processes break that invariant,
  and `ledger_race` shows how.

- **Ingest** (`IngestProofs`, part of the invariant of `Provenance`): `RunInv`
  says after every row what the properties say at the end. The counters count
  the rows read so far (`CountersAddUp`), the accepted names are those of the
  rows under no rule (`AcceptedIsRead`), a broken row ends the run
  (`NoRowBroke`), and aggregating what has been accepted so far would lose
  nothing (`EvidenceSoFar`). The last is about the fold `Aggregate`:
  `AggregateAppend` takes one turn off it, and `AbsorbKeepsEvidence` says that
  one turn keeps counts, earliest year, tags and first spelling right.
- **Provenance** (`ProvenanceProofs`): `TypeCorrect`, `FunnelTheorem`,
  `EvidenceTheorem`, `TraceabilityTheorem` (= `[]NamesAreTraceable`) and
  `ExclusionTheorem` (= `[]ExclusionsAccountForEveryName`), all from
  `Invariance`: `PInv` adds to `RunInv` that what is described was downloaded
  (`FilesAreEditions`), that a result names what the rows it consumed say
  (`ResultsAreTold`), and that an artifact is what `build_artifact` makes of the
  arguments kept with it, with open gates (`ArtifactsAreMade`). Acquisitions
  may rewrite a file while it is read: `FilesAreEditions` asks only that some
  edition is there. A listed provider's offered results all contribute
  (`ReadIsMerged`), and the three exclusion counts add up to the names that are
  gone (`ExclusionsAddUp`, from `SumOfClasses`).

The provers cannot use the library's induction theorems, whose parameter is an
operator. `FoldLemmas` gets induction from a theorem about sets of finite sets:
a set of counterexamples has a smallest member (`MinimalFiniteSet`,
`LeastNatural`, `NaturalInduction`, `SubsetInduction`). What the folds and
recursive functions of the model compute is proved with these.

Only model-checked: liveness (`RunsEnd`, `TaintIsReported`), which is out of
TLAPS's reach, and that the runs with two processes or unreviewed releases fail
where section 3 says.

## 6. Abstractions and limits

- Hashes and fingerprints do not collide. Double Metaphone is any function.
- An artifact is its use, providers and names, and in `Provenance` also its id
  and exclusion counts; an id is what is hashed. The order of names and
  providers is left out: both are sorted. A build whose blend has an entry
  without roles is an error in the code and no state here.
- `Ingest` aggregates one provider at a time, as `ingest` does, so a name's
  counts have one provider; `aggregate` itself is modelled for any.
- `pyproject.toml` is what `resolve` makes of it (`Configurations`).
  `inventory_root` refuses nothing; a file that is no TOML makes `check` raise,
  which is a release that does not happen.
- The ledger's tolerance is exact integer arithmetic; the code multiplies
  floats, which is exact for the sizes checked.
- A lockfile that does not parse, has another schema, or whose `entries` is no
  list is `Malformed`; `check` is not 0 for any of them. A lock with stray
  non-object entries, which `compare` skips, is not modelled: only `update`
  writes locks, and it writes none.
- An operator replaces the ledger by removing it or moving a file into its
  place. Overwriting it in place while a process has it open for writing, and
  two open writers whose bytes mix, are not modelled; a ledger removed between
  `exists` and `read_text` raises, which the model has as a crash.
- `Retry` of a snapshot whose accept succeeded writes its entry again, as the
  code does, although the ledger is documented as "one entry per acquisition"
  (`snapshot.py:117`); no property asks that entries be distinct.
- `NamesAreTraceable` is about artifacts that `build_artifact` made. A file
  written by hand that lists no provider, or not all of them, passes the
  guard's licence and autophagy checks (`Sourced` is vacuous for it), although
  ADR-0019 wants them to hold "regardless of how a record arrived".
- When a CSV file is rewritten during `extract`, the model reads on at the next
  row of the new file. The open handle reads on at a byte offset, behind what it
  has buffered, and may splice one row from old and new bytes. No property
  depends on which rows they are.
- A CSV row is what `extract` asks of it: standard character or not, its text,
  and from which field on it is missing.

- A CSV header is the set of its folded column names. Two columns that fold to
  one name are not told apart, although the code silently reads the last.

### Not modelled

- The generation engine, the other services, apps, infra and evals: empty
  packages and placeholders at this commit.
- `errors.py`, argument parsing and printing: no state and no decisions beyond
  what is caught where, which the actions have.
- `UsptoCaseFilesProvider.acquire`: it only raises. `FakeProvider.acquire` is
  the model of acquisition.
- Linters, type checkers and the tests themselves.

## 7. Plan

Done in this order: guard (model, runs, proofs), inventory lock, ledger, index,
ingest; then the builder as a module of its own, provenance, the abstract log,
the ledger's refinement, retries and proofs, and the configuration.

Then the proofs: first of guard, inventories, ledger and index; then
`NoFalseAlarm`, the types, the folds, ingest and provenance, and Levenshtein
distance.

To come, proofs that no run asks for yet:

1. *Ledger*: what two processes keep (the ledger is made of snapshots that were
   accepted, each after a comparison with some ledger), as an invariant that is
   checked and proved without `Alone`.
2. *Provenance*: that its `log` implements `AcceptedLog`, and so inherits what
   `SnapshotLedger` is proved to implement.
