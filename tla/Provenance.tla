----------------------------- MODULE Provenance ------------------------------
(***************************************************************************)
(* From a download to an artifact: acquire writes an edition of a source   *)
(* to its location, the ledger accepts or refuses it, ingest turns an      *)
(* accepted snapshot into a result, and build_artifact combines results.   *)
(*                                                                         *)
(* No code ties these calls together yet; the tests and the design call    *)
(* them in this order.  The caller is one program; the files are not its   *)
(* own, and acquisitions may happen at any time.  The ledger is used as    *)
(* AcceptedLog, which SnapshotLedger implements.                           *)
(***************************************************************************)
EXTENDS Ingest, Builder

CONSTANTS
  Tolerance,    \* DEFAULT_SHRINK_TOLERANCE, in percent
  Blends,       \* sequences of [provider, roles]: CorpusBlend.entries
  Holdouts,     \* the held-out names of the indexes a caller may hold, or None
  MaxAcquires, MaxResults, MaxBuilds   \* bounds on what happens in a behaviour

ASSUME ProvenanceAssumption ==
  /\ DOMAIN Sources = ProviderIds
  /\ \A p \in ProviderIds :
       [licence |-> Sources[p].licence, kind |-> Sources[p].kind] \in Descriptors
  /\ \A p \in ProviderIds : \A e \in Editions[p] : \A row \in Range(e.rows) :
       row.text.folded \in Words \cap Lines
  /\ Blends \subseteq Seq(BlendEntries)
  /\ Holdouts \subseteq {None} \cup SUBSET Words
  /\ Tolerance \in 0..100
  /\ MaxAcquires \in Nat /\ MaxResults \in Nat /\ MaxBuilds \in Nat

VARIABLES
  snapshots,  \* every snapshot acquire returned, in order
  log,        \* the accepted ones, as the ledger lists them
  results,    \* what ingest returned
  built,      \* what build_artifact returned, with its arguments
  \* Auxiliary.
  refused     \* the snapshots that shrank too much

vars == <<file, run, snapshots, log, results, built, refused>>

SnapshotOf(p, e) == [provider |-> p, size |-> e.size, content |-> e]

Snapshots == UNION {{SnapshotOf(p, e) : e \in Editions[p]} : p \in ProviderIds}

Ledger == INSTANCE AcceptedLog
          WITH Shrink <- Tolerance, Lost <- None, undo <- <<>>, resets <- 0

Init ==
  /\ IngestInit
  /\ snapshots = <<>> /\ log = <<>>
  /\ results = {} /\ built = {}
  /\ refused = {}

\* A behaviour is cut off at its last build: nothing that comes later can
\* change what was built.
GoesOn == Cardinality(built) < MaxBuilds

\* acquire overwrites what is at the location and describes it.  (FakeProvider
\* does; that of the USPTO provider only raises, its file is put there by hand.)
Acquire(p) ==
  /\ GoesOn
  /\ Len(snapshots) < MaxAcquires
  /\ \E e \in Editions[p] :
       /\ file' = [file EXCEPT ![p] = e]
       /\ snapshots' = Append(snapshots, SnapshotOf(p, e))
  /\ UNCHANGED <<run, log, results, built, refused>>

\* The caller is not in the middle of ingest.
AtRest == GoesOn /\ phase # "rows"

\* accept: the file must be the one described and may not have shrunk.  A
\* second accept of the same snapshot would only repeat its entry.
Accept(s) ==
  /\ AtRest
  /\ file[s.provider] = s.content
  /\ s \notin Range(log) \cup refused
  /\ IF Ledger!Follows(s, log)
       THEN log' = Append(log, s) /\ UNCHANGED refused
       ELSE refused' = refused \cup {s} /\ UNCHANGED log
  /\ UNCHANGED <<file, run, snapshots, results, built>>

\* ingest of an accepted snapshot, recent or not.
Ingest(s) ==
  /\ AtRest
  /\ Cardinality(results) < MaxResults
  /\ Open(s)
  /\ UNCHANGED <<snapshots, log, results, built, refused>>

IngestRow == ReadRow /\ UNCHANGED <<snapshots, log, results, built, refused>>

\* ingest returns; rows is auxiliary.
IngestReturns ==
  /\ Finish
  /\ results' = results \cup
       {[provider |-> source.provider,
         licence  |-> Sources[source.provider].licence,
         kind     |-> Sources[source.provider].kind,
         names    |-> DOMAIN names',
         rows     |-> consumed]}
  /\ UNCHANGED <<snapshots, log, built, refused>>

\* build_artifact with any results at hand and any index or none; an error of
\* one of the gates leaves nothing.
Build ==
  /\ AtRest
  /\ \E use \in Uses, blend \in Blends, offer \in SUBSET results, holdout \in Holdouts :
       LET contributing == Contributing(use, blend, offer)
           artifact     == BuiltFrom(use, contributing, holdout)
       IN  /\ GatesOpen(use, contributing)
           /\ built' = built \cup
                {[id       |-> ArtifactId(use, blend, artifact.names),
                  artifact |-> artifact,
                  excluded |-> Excluded(use, MergedNames(contributing), holdout),
                  blend    |-> blend,
                  offer    |-> offer,
                  holdout  |-> holdout]}
  /\ UNCHANGED <<file, run, snapshots, log, results, refused>>

Next ==
  \/ \E p \in ProviderIds : Acquire(p)
  \/ \E s \in Range(snapshots) : Accept(s)
  \/ \E s \in Range(log) : Ingest(s)
  \/ IngestRow \/ IngestReturns \/ Build

Spec == Init /\ [][Next]_vars

------------------------------------------------------------------------------
(* Properties *)

TypeOK ==
  /\ RunTypeOK
  /\ \A p \in ProviderIds : file[p] \in {<<>>} \cup Editions[p]
  /\ Range(log) \cup refused \subseteq Range(snapshots) /\ Range(snapshots) \subseteq Snapshots
  /\ \A r \in results : [provider |-> r.provider, licence |-> r.licence,
                         kind |-> r.kind, names |-> r.names] \in Results
  /\ \A b \in built : b.artifact \in Artifacts

\* The rows of a result that name n: yielded, rejected by no rule.
Naming(r, n) ==
  {i \in DOMAIN r.rows :
     /\ Outcome(r.provider, r.rows[i]) = "yield"
     /\ RejectedBy(r.rows[i].text) = 0
     /\ r.rows[i].text.folded = n}

NamesIn(r) == {n \in Words : Naming(r, n) # {}}

\* No name without a source: every name of an artifact was read from a row of a
\* provider the artifact lists, whose licence and kind allow the use and which
\* the blend includes for it.  So an artifact that lists no provider has no
\* names, and checking the listed providers checks all there is.
NamesAreTraceable ==
  \A b \in built : \A n \in b.artifact.names :
    \E r \in b.offer :
      /\ n \in NamesIn(r)
      /\ r.provider \in b.artifact.providers
      /\ b.artifact.use \in PermittedUses(Sources[r.provider].licence)
      /\ b.artifact.use = "induction" => Sources[r.provider].kind # "internal"
      /\ \E i \in DOMAIN b.blend : /\ b.blend[i].provider = r.provider
                                   /\ b.artifact.use \in b.blend[i].roles

\* No name lost without a trace: what the listed providers' rows name is in the
\* artifact, or it resembles a held-out name, the use is induction, and it is
\* counted among the exclusions, once.
ExclusionsAccountForEveryName ==
  \A b \in built :
    LET read == UNION {NamesIn(r) : r \in {q \in b.offer : q.provider \in b.artifact.providers}}
        lost == read \ b.artifact.names
    IN  /\ SumFunction(b.excluded) = Cardinality(lost)
        /\ lost # {} => b.artifact.use = "induction"
        /\ \A n \in lost : \E h \in b.holdout : Resembles(Fold[n], h)

\* "The defence is a size comparison against the previous snapshot": what the
\* ledger refused does not become a result.
RefusedEditionsReachNoResult ==
  \A r \in results, s \in refused :
    s.provider = r.provider /\ s.content.rows = r.rows =>
      \E a \in Range(log) : a.provider = r.provider /\ a.content.rows = r.rows

\* An artifact is "named, content-addressed": names under one id are the same
\* artifact, of the same origin.
ArtifactIdsAddressContent ==
  \A a, b \in built : a.id = b.id /\ a.artifact.names # {} => a.artifact = b.artifact
==============================================================================
