-------------------------------- MODULE Ingest -------------------------------
(***************************************************************************)
(* pipeline.ingest: the file of a snapshot goes through its provider's     *)
(* extract (uspto.py reads CSV rows, fake.py lines), every record through  *)
(* Normalise, and the result is a funnel report and the aggregated names.  *)
(*                                                                         *)
(* The snapshot is only a description of a file.  Whoever writes to the    *)
(* same location before or during the run changes what is read.            *)
(***************************************************************************)
EXTENDS Naturals, Sequences, FiniteSets, Normalise, Functions

CONSTANTS
  Sources,     \* provider id -> [format, licence, kind]
  Editions,    \* provider id -> what its file may hold: [header, rows, size]
  Candidates   \* COLUMN_CANDIDATES: logical field -> its column names

ASSUME IngestAssumption ==
  /\ \A p \in DOMAIN Sources : Sources[p].format \in {"csv", "lines"}
  /\ DOMAIN Editions = DOMAIN Sources
  /\ \A p \in DOMAIN Editions : \A e \in Editions[p] :
       /\ {"header", "rows"} \subseteq DOMAIN e /\ e.size \in Nat
       /\ e.rows \in Seq(Range(e.rows))
       /\ Sources[p].format = "csv" => \A row \in Range(e.rows) : row.year \in Nat \cup {NoYear}

VARIABLES
  file,       \* provider -> what is at its snapshots' location, <<>> if nothing
  phase,      \* "idle", "rows", "done", or "failed": an error reached the caller
  source,     \* the snapshot that is ingested
  fetched,    \* the lines FakeProvider read before it yields the first
  position,   \* rows read so far
  extracted, rejected, accepted,   \* ingest's locals
  names,      \* the aggregated names of the result
  \* Auxiliary.
  consumed    \* the rows as they were read

run == <<phase, source, fetched, position, extracted, rejected, accepted, names, consumed>>

------------------------------------------------------------------------------
(* The providers *)

\* resolve_columns: every logical field has exactly one column in the header.
Resolves(header) ==
  \A field \in DOMAIN Candidates : Cardinality(Candidates[field] \cap header) = 1

(***************************************************************************)
(* One turn of the USPTO loop.  A row too short for a field has None there *)
(* (csv.DictReader), and None has no strip(): row.missing says from which  *)
(* field on.  The drawing code is read first and the rest only if needed.  *)
(* A filing year of characters that isdigit() but not int() accepts is as  *)
(* good as missing.                                                        *)
(***************************************************************************)
RowOutcome(row) ==
  IF row.missing = "drawing_code" THEN "error"
  ELSE IF ~row.standard THEN "skip"
  ELSE IF row.missing = "mark_text" THEN "error"
  ELSE IF row.text.length = 0 THEN "skip"
  ELSE IF row.missing = "others" THEN "error"
  ELSE "yield"

\* One turn of FakeProvider's loop: a name, a tab and a status.
LineOutcome(line) ==
  IF line.blank THEN "skip"
  ELSE IF line.fields # 2 \/ line.status \notin {"live", "dead", "unknown"} THEN "error"
  ELSE "yield"

Outcome(p, row) == IF Sources[p].format = "csv" THEN RowOutcome(row) ELSE LineOutcome(row)

\* FakeProvider dates every name.
FixtureYear == 2020

RecordOf(p, row) ==
  [text     |-> row.text,
   provider |-> p,
   status   |-> row.status,
   year     |-> IF Sources[p].format = "csv" THEN row.year ELSE FixtureYear]

------------------------------------------------------------------------------
(* ingest *)

\* What extract has still to yield from: a CSV file is streamed as it is on
\* disk, a fixture was read whole.
Rows == IF Sources[source.provider].format = "csv" THEN file[source.provider].rows ELSE fetched

\* Counter().  The code lists a rule when it is first seen; here every rule is
\* listed from the start, with 0.
NoRejections == [i \in 1..Len(StructuralRules) |-> 0]

IngestInit ==
  /\ file = [p \in DOMAIN Sources |-> <<>>]
  /\ phase = "idle" /\ source = <<>> /\ fetched = <<>>
  /\ position = 0 /\ extracted = 0
  /\ rejected = NoRejections
  /\ accepted = <<>> /\ names = <<>> /\ consumed = <<>>

\* ingest(provider, snapshot) begins: extract opens the file, binds its columns
\* or reads its lines; nothing verifies the bytes.
Open(snapshot) ==
  /\ LET p == snapshot.provider
     IN  /\ phase' = IF Sources[p].format = "csv" => Resolves(file[p].header)
                       THEN "rows" ELSE "failed"
         /\ fetched' = IF Sources[p].format = "csv" THEN <<>> ELSE file[p].rows
  /\ source' = snapshot
  /\ position' = 0 /\ extracted' = 0
  /\ rejected' = NoRejections
  /\ accepted' = <<>> /\ names' = <<>> /\ consumed' = <<>>
  /\ UNCHANGED file

\* Wrong form of Take: what is rejected is not counted as extracted.
TakeAccepted(row) ==
  LET rule == RejectedBy(row.text)
  IN  IF rule = 0
        THEN /\ extracted' = extracted + 1
             /\ accepted' = Append(accepted, Normalised(RecordOf(source.provider, row)))
             /\ UNCHANGED rejected
        ELSE /\ rejected' = [rejected EXCEPT ![rule] = @ + 1]
             /\ UNCHANGED <<extracted, accepted>>

\* The body of ingest's loop: a record is counted, then normalised.
Take(row) ==
  /\ extracted' = extracted + 1
  /\ LET rule == RejectedBy(row.text)
     IN  IF rule = 0
           THEN /\ accepted' = Append(accepted, Normalised(RecordOf(source.provider, row)))
                /\ UNCHANGED rejected
           ELSE /\ rejected' = [rejected EXCEPT ![rule] = @ + 1]
                /\ UNCHANGED accepted

\* If the file is rewritten meanwhile, reading goes on at the next row of what
\* is there now.  (The open handle goes on at a byte offset, after what it has
\* buffered, and may splice a row from the old and the new bytes.)
ReadRow ==
  /\ phase = "rows"
  /\ position < Len(Rows)
  /\ position' = position + 1
  /\ LET row     == Rows[position + 1]
         outcome == Outcome(source.provider, row)
     IN  /\ consumed' = Append(consumed, row)
         /\ \/ /\ outcome = "error"
               /\ phase' = "failed"
               /\ UNCHANGED <<extracted, rejected, accepted>>
            \/ /\ outcome = "skip"
               /\ UNCHANGED <<phase, extracted, rejected, accepted>>
            \/ /\ outcome = "yield"
               /\ Take(row)
               /\ UNCHANGED phase
  /\ UNCHANGED <<file, source, fetched, names>>

Finish ==
  /\ phase = "rows"
  /\ position >= Len(Rows)
  /\ names' = Aggregate(accepted)
  /\ phase' = "done"
  /\ UNCHANGED <<file, source, fetched, position, extracted, rejected, accepted, consumed>>

------------------------------------------------------------------------------
(* Properties *)

RunTypeOK ==
  /\ phase \in {"idle", "rows", "done", "failed"}
  /\ position \in Nat /\ extracted \in Nat
  /\ rejected \in [1..Len(StructuralRules) -> Nat]
  /\ Len(accepted) <= position /\ Len(consumed) = position

\* The indices of the accepted records of one name.
Of(n) == {i \in DOMAIN accepted : accepted[i].normalized = n}

\* The funnel accounts for every record the provider yielded, exactly once, as
\* accepted or under the one rule that rejected it, and there is no result at
\* all when some row was broken.  It says nothing of the rows extract skips.
FunnelAddsUp ==
  phase = "done" =>
    LET outcomes == [i \in DOMAIN consumed |-> Outcome(source.provider, consumed[i])]
    IN  /\ "error" \notin Range(outcomes)
        /\ extracted = Cardinality({i \in DOMAIN consumed : outcomes[i] = "yield"})
        /\ extracted = Len(accepted) + SumFunction(rejected)

\* Deduplication aggregates, it does not discard: each name carries the number
\* of its records, live and dead ones apart, the earliest year of any of them
\* and every tag, as counting them in the accepted list does, in whatever order
\* they came; the display form is the first spelling seen.
EvidenceIsPreserved ==
  phase = "done" =>
    /\ DOMAIN names = {accepted[i].normalized : i \in DOMAIN accepted}
    /\ \A n \in DOMAIN names :
         LET counts == names[n].perProvider[source.provider]
             years  == {accepted[i].year : i \in Of(n)} \ {NoYear}
         IN  /\ DOMAIN names[n].perProvider = {source.provider}
             /\ counts.count = Cardinality(Of(n))
             /\ counts.live = Cardinality({i \in Of(n) : accepted[i].status = "live"})
             /\ counts.dead = Cardinality({i \in Of(n) : accepted[i].status = "dead"})
             /\ IF years = {} THEN counts.earliest = NoYear
                ELSE counts.earliest \in years /\ \A y \in years : counts.earliest <= y
             /\ names[n].tags = UNION {accepted[i].tags : i \in Of(n)}
             /\ \E i \in Of(n) : /\ names[n].display = accepted[i].display
                                 /\ \A j \in Of(n) : i <= j

\* Of the structural rejects, the standard-character and the non-empty-text rule
\* among them, "each records a rejection reason so the funnel is measurable": a
\* CSV row is accepted or counted as rejected.
SkippedRowsAreCounted ==
  phase = "done" /\ Sources[source.provider].format = "csv" =>
    Len(consumed) = Len(accepted) + SumFunction(rejected)

\* "Malformed records are quarantined by the caller": once a file is open no
\* row of it keeps ingest from finishing.
MalformedRowsAreQuarantined == phase = "failed" => consumed = <<>>
==============================================================================
