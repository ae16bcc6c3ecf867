---------------------------- MODULE MCProvenance -----------------------------
(***************************************************************************)
(* A small instance of Provenance: a register with CSV files, a curated    *)
(* commercial list and an internal generator with one name per line.       *)
(***************************************************************************)
EXTENDS Provenance

MCSources == [p \in {"uspto", "blog", "ours"} |->
  CASE p = "uspto" -> [format |-> "csv", licence |-> "public_domain", kind |-> "registry"]
    [] p = "blog"  -> [format |-> "lines", licence |-> "commercial_licensed", kind |-> "curated"]
    [] p = "ours"  -> [format |-> "lines", licence |-> "open_attribution", kind |-> "internal"]]

\* figma is held out; phygma sounds like it, figna is one edit away, and both
\* lose a letter to figa; the others are clean or no names at all.
MCWords == {"figma", "phygma", "figna", "figa", "vexa", "abcdefghijklmnop", "inc", "x1", ""}
MCFold == [w \in MCWords |-> w]
MCAlphabetic == MCWords \ {"x1", ""}
MCSound == [w \in MCWords |->
  CASE w \in {"figma", "phygma"} -> "FKM" [] w \in {"figna", "figa"} -> "FKN" [] OTHER -> ""]
MCDel == [w \in MCWords |-> IF w \in {"figma", "figna"} THEN {"figa"} ELSE {}]
MCHoldouts == {None, {"figma"}}

Text(folded, display, tokens, length, alpha, marks) ==
  [folded |-> folded, display |-> display, tokens |-> tokens,
   length |-> length, alpha |-> alpha, marks |-> marks]

Figma   == Text("figma", "Figma", 1, 5, TRUE, {})
FIGMA   == Text("figma", "FIGMA", 1, 5, TRUE, {"profanity_signal"})
Phygma  == Text("phygma", "Phygma", 1, 6, TRUE, {})
Figna   == Text("figna", "Figna", 1, 5, TRUE, {})
Vexa    == Text("vexa", "Vexa", 1, 4, TRUE, {})
Sixteen == Text("abcdefghijklmnop", "Abcdefghijklmnop", 1, 16, TRUE, {})
Inc     == Text("inc", "INC", 1, 3, TRUE, {"probable_acronym"})
Xy      == Text("x1", "X1", 1, 2, FALSE, {})
Blank   == Text("", "", 0, 0, FALSE, {})

Row(text, status, year, standard, missing) ==
  [text |-> text, status |-> status, year |-> year,
   standard |-> standard, missing |-> missing]

Good(text) == Row(text, "live", 2001, TRUE, "none")

\* One name, spelled two ways, with and without a year.
Spellings == {Good(Figma), Row(FIGMA, "dead", 1999, TRUE, "none"),
              Row(Figma, "unknown", NoYear, TRUE, "none")}

\* Every place a row can break off; the first two are skipped all the same.
Broken == {Row(Figma, "live", 2001, FALSE, "mark_text"), Row(Blank, "live", 2001, TRUE, "none"),
           Row(Blank, "live", 2001, TRUE, "drawing_code"),
           Row(Blank, "live", 2001, TRUE, "mark_text"), Row(Figma, "unknown", NoYear, TRUE, "others")}

Header == {"mark_id_char", "mark_draw_cd"}

\* The more rows, the more bytes.
File(header, rows) == [header |-> header, rows |-> rows, size |-> 10 * Len(rows)]

CsvFiles ==
  {File(Header, rows) : rows \in
     [1..2 -> Spellings]
     \cup {<<Good(Figma), q, r>> : q, r \in Spellings}
     \cup {<<Good(Vexa), b>> : b \in Broken}
     \cup {<<>>, <<Good(Vexa)>>, <<Good(Figna), Good(Vexa)>>,
           <<Good(Sixteen), Good(Inc), Good(Xy)>>}}
  \cup {File({"mark_id_char"}, <<>>),
        File(Header \cup {"mark_identification"}, <<>>)}

Line(text, status, fields) == [text |-> text, status |-> status, fields |-> fields,
                               blank |-> FALSE]

LineFiles ==
  {File({}, lines) : lines \in
     {<<>>, <<Line(Vexa, "live", 2)>>,
      <<Line(Phygma, "live", 2), [Line(Blank, "", 1) EXCEPT !.blank = TRUE], Line(Vexa, "dead", 2)>>,
      <<Line(Blank, "live", 2), Line(Vexa, "live", 3)>>}}

MCEditions == [p \in DOMAIN MCSources |-> IF p = "uspto" THEN CsvFiles ELSE LineFiles]

\* Enough to show what an artifact id leaves out.
MCFewEditions == [p \in DOMAIN MCSources |->
  IF p = "uspto" THEN {File(Header, <<Good(Vexa)>>)} ELSE {File({}, <<Line(Vexa, "live", 2)>>)}]

\* Enough to show one edition shrink under another.
MCShrinkingEditions == [p \in DOMAIN MCSources |->
  IF p = "uspto" THEN {} ELSE
    {File({}, <<Line(Vexa, "live", 2)>>), File({}, <<Line(Phygma, "live", 2), Line(Vexa, "dead", 2)>>)}]

MCCandidates == [field \in {"mark_text", "drawing_code"} |->
  IF field = "mark_text" THEN {"mark_id_char", "mark_identification"} ELSE {"mark_draw_cd"}]

Entry(p, roles) == [provider |-> p, roles |-> roles]

\* The second blend lists the register twice: only the first entry counts.
MCBlends == {
  <<Entry("uspto", {"induction", "display"}), Entry("blog", {"induction", "display"}),
    Entry("ours", {"saturation", "induction"})>>,
  <<Entry("uspto", {"saturation"}), Entry("uspto", {"induction"}), Entry("blog", {"saturation"})>>}

MCLegalEntityTokens == {"inc", "llc"}
==============================================================================
