---------------------------- MODULE MCCorpusGuard ----------------------------
(***************************************************************************)
(* A small instance of CorpusGuard.  The lines below stand for one held-   *)
(* out name and its look-alikes: the same name recased, a name that sounds *)
(* like it, one at edit distance 1, an unrelated name, a name that only    *)
(* the other sealed holdout contains, and a line that is not a name.       *)
(***************************************************************************)
EXTENDS CorpusGuard

MCLines == {"figma", "FIGMA", "phygma", "figna", "loom", "vexa", "4you"}
MCAlphabetic == MCLines \ {"4you"}
MCFold == [l \in MCLines |-> IF l = "FIGMA" THEN "figma" ELSE l]

\* "figa" is the word that figma and figna share by losing one letter.
MCWords == (MCLines \ {"FIGMA"}) \cup {"figa", ""}
MCDel == [w \in MCWords |-> IF w \in {"figma", "figna"} THEN {"figa"} ELSE {}]
MCSound == [w \in MCWords |->
  CASE w \in {"figma", "phygma"} -> "FKM"
    [] w = "figna" -> "FKN"
    [] w = "loom"  -> "LM"
    [] w = "vexa"  -> "FKS"
    [] OTHER -> ""]

\* A holdout, the same recased, one emptied of figma, and one too small.
MCTexts == {{"figma", "loom"}, {"FIGMA", "loom"}, {"vexa", "loom"}, {"figma", "4you"}}

MCProviderIds == {"uspto", "ours", "blog"}

\* The registry knows a public register and an internal provider.
MCKnown == [p \in {"uspto", "ours"} |->
  IF p = "uspto" THEN [licence |-> "public_domain", kind |-> "registry"]
                 ELSE [licence |-> "internal_generated", kind |-> "internal"]]

Result(p, l, k, names) == [provider |-> p, licence |-> l, kind |-> k, names |-> names]

Register == Result("uspto", "public_domain", "registry", {"phygma", "vexa"})
Variant  == Result("uspto", "public_domain", "registry", {"figna"})
Relabel  == Result("blog", "open_attribution", "curated", {"vexa"})
Own      == Result("ours", "internal_generated", "internal", {"loom"})
OwnAsFree == Result("ours", "public_domain", "internal", {"loom"})

MCOffers == {{Register}, {Variant, Own}, {Relabel}, {Register, OwnAsFree}}

Entry(p, roles) == [provider |-> p, roles |-> roles]

\* The second blend lists its provider twice: only the first entry counts.
MCBlends == {
  <<Entry("uspto", {"induction"}), Entry("blog", {"induction"}),
    Entry("ours", {"saturation", "induction"})>>,
  <<Entry("uspto", {"saturation"}), Entry("uspto", {"induction"}),
    Entry("ours", {"saturation"})>>}

\* Written by hand: a contaminated one, and one whose provider is not permitted.
MCForeign == {
  [use |-> "induction", providers |-> {"uspto"}, names |-> {"FIGMA"}],
  [use |-> "display", providers |-> {"ours"}, names |-> {"loom"}]}
==============================================================================
