------------------------------ MODULE Licensing ------------------------------
(***************************************************************************)
(* The vocabulary of the corpus (services/corpus/types.py) and the licence *)
(* gate (services/corpus/licensing.py).  A provider's legal basis decides, *)
(* mechanically, what its records may be used for.  The gate is consulted  *)
(* twice with two different descriptors: build_artifact asks the           *)
(* descriptor the caller handed it, tools/check_corpus asks the registry.  *)
(***************************************************************************)

Uses == {"induction", "saturation", "novelty_reference", "evaluation", "display"}

LicenceClasses == {"public_domain", "open_attribution", "commercial_licensed",
                   "tos_restricted", "internal_generated", "unknown"}

ProviderKinds == {"registry", "curated", "usage", "internal"}

\* The two descriptor fields that decide anything; the rest is metadata.
Descriptors == [licence : LicenceClasses, kind : ProviderKinds]

\* PERMITTED_USES.get(licence, frozenset()): an unmapped class permits nothing.
PermittedUses(licence) ==
  CASE licence \in {"public_domain", "open_attribution"} -> Uses
    [] licence = "commercial_licensed" -> {"saturation", "novelty_reference", "display"}
    [] licence = "tos_restricted"      -> {"novelty_reference", "display"}
    [] licence = "internal_generated"  -> {"saturation", "novelty_reference"}
    [] OTHER -> {}

Permits(descriptor, use) == use \in PermittedUses(descriptor.licence)
==============================================================================
