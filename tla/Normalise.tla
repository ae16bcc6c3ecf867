------------------------------ MODULE Normalise ------------------------------
(***************************************************************************)
(* services/corpus/normalise.py: the structural rules one record must pass *)
(* and the aggregation of the records that do.                             *)
(*                                                                         *)
(* A text is a record of what the rules look at, after strip():            *)
(*   folded   its casefolded form          display  as it was written      *)
(*   tokens   len(raw.split())             length   len(raw)               *)
(*   alpha    ASCII letters only           marks    its lexical tags       *)
(***************************************************************************)
EXTENDS Naturals, Sequences, FiniteSets, SequencesExt

CONSTANTS
  LegalEntityTokens,  \* LEGAL_ENTITY_TOKENS
  NoYear              \* a first_seen_year that is None

ASSUME NoYearAssumption == NoYear \notin Nat

MinLength == 3
MaxLength == 16

\* _STRUCTURAL_RULES: the first rule that fails names the rejection.
StructuralRules == <<"empty_text", "multi_token", "non_alphabetic",
                     "too_short", "too_long", "legal_entity_artifact">>

Fails(rule, text) ==
  \/ rule = "empty_text"            /\ text.length = 0
  \/ rule = "multi_token"           /\ text.tokens > 1
  \/ rule = "non_alphabetic"        /\ ~text.alpha
  \/ rule = "too_short"             /\ text.length < MinLength
  \/ rule = "too_long"              /\ text.length > MaxLength
  \/ rule = "legal_entity_artifact" /\ text.folded \in LegalEntityTokens

\* The position of the rule that rejects a text, 0 if it is accepted.
RejectedBy(text) == SelectInSeq(StructuralRules, LAMBDA rule : Fails(rule, text))

Tags(record) ==
  record.text.marks
    \cup (IF record.status = "live" THEN {"live_registration"} ELSE {})
    \cup (IF record.status = "dead" THEN {"abandoned"} ELSE {})

\* Wrong form of Normalised: the name is kept as it was spelled.
NormalisedAsSpelled(record) ==
  [normalized |-> record.text.display,
   display    |-> record.text.display,
   provider   |-> record.provider,
   status     |-> record.status,
   year       |-> record.year,
   tags       |-> Tags(record)]

\* normalise, for a record that no rule rejects.
Normalised(record) ==
  [normalized |-> record.text.folded,
   display    |-> record.text.display,
   provider   |-> record.provider,
   status     |-> record.status,
   year       |-> record.year,
   tags       |-> Tags(record)]

\* Wrong form of NoCounts: a year that nobody saw counts as year 0.
ZeroCounts == [count |-> 0, live |-> 0, dead |-> 0, earliest |-> 0]

NoCounts == [count |-> 0, live |-> 0, dead |-> 0, earliest |-> NoYear]

Bit(condition) == IF condition THEN 1 ELSE 0

Earlier(year, other) ==
  IF year = NoYear THEN other
  ELSE IF other = NoYear \/ year <= other THEN year ELSE other

Counted(counts, rec) ==
  [count    |-> counts.count + 1,
   live     |-> counts.live + Bit(rec.status = "live"),
   dead     |-> counts.dead + Bit(rec.status = "dead"),
   earliest |-> Earlier(counts.earliest, rec.year)]

With(f, key, value) == [k \in DOMAIN f \cup {key} |-> IF k = key THEN value ELSE f[k]]

\* One turn of aggregate's loop: the first spelling is kept for display.
Absorb(out, rec) ==
  LET existing == IF rec.normalized \in DOMAIN out
                    THEN out[rec.normalized]
                    ELSE [display |-> rec.display, perProvider |-> <<>>, tags |-> {}]
      counts   == IF rec.provider \in DOMAIN existing.perProvider
                    THEN existing.perProvider[rec.provider]
                    ELSE NoCounts
  IN  With(out, rec.normalized,
        [existing EXCEPT !.perProvider = With(@, rec.provider, Counted(counts, rec)),
                         !.tags = @ \cup rec.tags])

Aggregate(records) == FoldLeft(Absorb, <<>>, records)
==============================================================================
