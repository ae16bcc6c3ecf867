----------------------------- MODULE CorpusGuard -----------------------------
(***************************************************************************)
(* The corpus guard and everything that changes the files it reads.        *)
(*                                                                         *)
(*   - an operator edits, deletes and (re-)seals the holdout, and moves,   *)
(*     deletes, hand-writes or half-writes artifacts;                      *)
(*   - a builder loads the sealed holdout and, at any later time, combines *)
(*     provider results into an artifact (pipeline.build_artifact);        *)
(*   - the guard (tools/check_corpus.py) reads the holdout, its seal and   *)
(*     the artifacts file by file and exits green or not.                  *)
(*                                                                         *)
(* Nothing locks the files: the three interleave at every file access.     *)
(***************************************************************************)
EXTENDS Builder

CONSTANTS
  Files,        \* the *.json paths of the artifact directory
  Known,        \* KNOWN_PROVIDERS: registered id -> descriptor
  Texts,        \* contents an operator may write to holdout.txt
  Blends,       \* sequences of [provider, roles]: CorpusBlend.entries
  Offers,       \* sets of provider results handed to one build
  Foreign,      \* artifacts written by hand, never by build_artifact
  Garbled,      \* a file that does not parse or has another schema
  MaxEdits      \* bound on the changes of operator and builder to the files

ASSUME GuardAssumption ==
  /\ DOMAIN Known \subseteq ProviderIds
  /\ \A p \in DOMAIN Known : Known[p] \in Descriptors
  /\ Texts \subseteq SUBSET Lines
  /\ Blends \subseteq Seq(BlendEntries)
  /\ Offers \subseteq SUBSET Results
  /\ Foreign \subseteq Artifacts
  /\ None # Garbled
  /\ \A a \in Artifacts : a \notin {None, Garbled}
  /\ \A t \in SUBSET Lines : t \notin {None, Garbled}
  /\ \A n \in SUBSET Words : n \notin {None, Garbled}
  /\ MaxEdits \in Nat

VARIABLES
  config,         \* what config.resolve makes of pyproject.toml
  artifactsPath,  \* what the configured artifact path names on disk
  holdoutPath,    \* what the configured holdout path names on disk
  artifacts,      \* path -> its content
  text,           \* holdout.txt
  seal,           \* holdout.sealed.json
  sealing,        \* the names an operator is sealing, between the two writes
  builder,        \* the held-out names of the index the builder holds
  pc, readText, heldOut, todo, problems, verdict,  \* the guard's locals
  edits,          \* changes of operator and builder to the files, for MaxEdits
  \* Auxiliary: read by no guard of an action.
  lastSealed,     \* what was sealed last
  everSealed,     \* everything ever sealed
  origin,         \* path -> how its artifact was built, None if by hand
  seen,           \* path -> the artifact this run read there
  touched         \* a file changed since this run began

paths == <<config, artifactsPath, holdoutPath>>
tree  == <<paths, artifacts, text, seal>>
guard == <<pc, readText, heldOut, todo, problems, verdict, seen>>
vars  == <<tree, sealing, builder, guard, edits, lastSealed, everSealed,
           origin, touched>>

------------------------------------------------------------------------------
\* resolve: pyproject.toml, or the defaults where it says nothing, gives two
\* relative paths; one of them is empty or absolute, a CorpusConfigError; or it
\* is no TOML, an exception nobody catches.
Configurations == {"sound", "refused", "unparseable"}

\* The descriptor of a result is the one check_corpus knows.
Registered(r) ==
  /\ r.provider \in DOMAIN Known
  /\ Known[r.provider] = [licence |-> r.licence, kind |-> r.kind]

------------------------------------------------------------------------------
(* check_corpus: the problems one artifact has *)

LicenceProblem(a) ==
  \E p \in a.providers : p \notin DOMAIN Known \/ ~Permits(Known[p], a.use)

AutophagyProblem(a) ==
  /\ a.use = "induction"
  /\ \E p \in a.providers \cap DOMAIN Known : Known[p].kind = "internal"

HoldoutProblem(a, holdout) ==
  /\ a.use = "induction"
  /\ \/ holdout = None
     \/ \E n \in a.names : ContaminationKey(IndexOf(holdout), n) # "clean"

ProblemsOf(a, holdout) ==
  {k \in {"licence", "autophagy", "holdout"} :
     \/ k = "licence"   /\ LicenceProblem(a)
     \/ k = "autophagy" /\ AutophagyProblem(a)
     \/ k = "holdout"   /\ HoldoutProblem(a, holdout)}

------------------------------------------------------------------------------
Init ==
  /\ config = "sound" /\ artifactsPath = "artifacts" /\ holdoutPath = "holdout"
  /\ artifacts = [f \in Files |-> None]
  /\ text = None /\ seal = None /\ sealing = None /\ builder = None
  /\ pc = "idle" /\ readText = None /\ heldOut = None
  /\ todo = {} /\ problems = {} /\ verdict = "none"
  /\ edits = 0
  /\ lastSealed = None /\ everSealed = {}
  /\ origin = [f \in Files |-> None]
  /\ seen = [f \in Files |-> None]
  /\ touched = FALSE

(* The operator *)

Edit ==
  /\ edits < MaxEdits
  /\ edits' = edits + 1

\* Everything but the tree, its auxiliaries and the edit count.
UntouchedByOperator == UNCHANGED <<builder, guard>>

\* holdout.txt is edited, or deleted, without sealing it again.
EditHoldout ==
  /\ Edit
  /\ text' \in (Texts \cup {None}) \ {text}
  /\ touched' = TRUE
  /\ UNCHANGED <<paths, artifacts, seal, sealing, lastSealed, everSealed, origin>>
  /\ UntouchedByOperator

\* The seal is deleted, or damaged.
SpoilSeal ==
  /\ Edit
  /\ seal' \in {None, Garbled} \ {seal}
  /\ touched' = TRUE
  /\ UNCHANGED <<paths, artifacts, text, sealing, lastSealed, everSealed, origin>>
  /\ UntouchedByOperator

\* Sealing is two writes: the names, then the seal computed from them.
WriteHoldout ==
  /\ Edit
  /\ sealing = None
  /\ sealing' \in Texts
  /\ text' = sealing'
  /\ touched' = TRUE
  /\ UNCHANGED <<paths, artifacts, seal, lastSealed, everSealed, origin>>
  /\ UntouchedByOperator

WriteSeal ==
  /\ sealing # None
  /\ sealing' = None
  /\ seal' = SealOf(sealing)
  /\ lastSealed' = SealOf(sealing)
  /\ everSealed' = everSealed \cup {SealOf(sealing)}
  /\ touched' = TRUE
  /\ UNCHANGED <<paths, artifacts, text, edits, origin>>
  /\ UntouchedByOperator

\* pyproject.toml is edited.
EditConfig ==
  /\ Edit
  /\ config' \in Configurations \ {config}
  /\ touched' = TRUE
  /\ UNCHANGED <<artifactsPath, holdoutPath, artifacts, text, seal, sealing,
                 lastSealed, everSealed, origin>>
  /\ UntouchedByOperator

\* The artifact path comes to name another directory, a file or nothing at all
\* ("unusable"), because the setting changed or the directory was moved ...
MovePath ==
  /\ Edit
  /\ artifactsPath' \in {"artifacts", "elsewhere", "unusable"} \ {artifactsPath}
  /\ touched' = TRUE
  /\ UNCHANGED <<config, holdoutPath, artifacts, text, seal, sealing,
                 lastSealed, everSealed, origin>>
  /\ UntouchedByOperator

\* ... and the holdout path a place without a holdout, which may not exist.
MoveHoldout ==
  /\ Edit
  /\ holdoutPath' \in {"holdout", "elsewhere"} \ {holdoutPath}
  /\ touched' = TRUE
  /\ UNCHANGED <<config, artifactsPath, artifacts, text, seal, sealing,
                 lastSealed, everSealed, origin>>
  /\ UntouchedByOperator

\* A file is written by hand, left half-written by a crash, or deleted.
PlaceFile(f) ==
  /\ Edit
  /\ \E a \in (Foreign \cup {None, Garbled}) \ {artifacts[f]} :
       artifacts' = [artifacts EXCEPT ![f] = a]
  /\ origin' = [origin EXCEPT ![f] = None]
  /\ touched' = TRUE
  /\ UNCHANGED <<paths, text, seal, sealing, lastSealed, everSealed>>
  /\ UntouchedByOperator

(* The builder *)

\* What load_holdout finds at the configured path.
TextFound == IF holdoutPath = "holdout" THEN text ELSE None
SealFound == IF holdoutPath = "holdout" THEN seal ELSE None

\* load_holdout, then HoldoutIndex.build; an error leaves the builder as it was.
\* The reads of load_holdout are taken at once here (the guard has them one by
\* one): an index can go stale after loading all the same.
LoadIndex ==
  /\ \/ TextFound = None /\ SealFound = None /\ builder' = None
     \/ /\ TextFound # None /\ SealFound \notin {None, Garbled}
        /\ Verifies(TextFound, SealFound)
        /\ builder' = Canonical(TextFound)
  /\ UNCHANGED <<tree, sealing, guard, edits, lastSealed, everSealed, origin, touched>>

BuildWith(f, use, blend, offer, holdout) ==
  LET contributing == Contributing(use, blend, offer)
  IN  /\ GatesOpen(use, contributing)
      /\ artifacts' = [artifacts EXCEPT ![f] = BuiltFrom(use, contributing, holdout)]
      /\ origin' = [origin EXCEPT ![f] =
           [holdout    |-> holdout,
            registered |-> \A r \in contributing : Registered(r)]]

\* build_artifact with the index at hand, however old, or with none at all,
\* and the artifact written to f.
Build(f) ==
  /\ Edit
  /\ \E use \in Uses, blend \in Blends, offer \in Offers, holdout \in {builder, None} :
       BuildWith(f, use, blend, offer, holdout)
  /\ touched' = TRUE
  /\ UNCHANGED <<paths, text, seal, sealing, builder, guard, lastSealed, everSealed>>

------------------------------------------------------------------------------
(* The guard: run_check *)

\* A guard step changes nothing outside the guard.
Reading == UNCHANGED <<tree, sealing, builder, edits, lastSealed, everSealed, origin>>

Exit(v) == pc' = "idle" /\ verdict' = v

\* require_artifacts_dir: the artifact path must name a directory.  Nothing
\* asks as much of the holdout's.
Usable == artifactsPath # "unusable"

\* main and the beginning of run_check: errors of the configuration end the run.
GuardStart ==
  /\ pc = "idle"
  /\ readText' = None /\ heldOut' = None /\ todo' = {} /\ problems' = {}
  /\ seen' = [f \in Files |-> None]
  /\ touched' = FALSE
  /\ \/ config = "unparseable" /\ Exit("crash")
     \/ config = "refused" /\ Exit("red")
     \/ config = "sound" /\ ~Usable /\ Exit("red")
     \/ config = "sound" /\ Usable /\ pc' = "probe" /\ verdict' = "none"
  /\ Reading

\* load_holdout asks up to four times whether a file exists: with neither of
\* the two there is no holdout yet ...
GuardProbeNone ==
  /\ \/ pc = "probe"  /\ pc' = IF TextFound = None THEN "noText" ELSE "either"
     \/ pc = "noText" /\ pc' = IF SealFound = None THEN "glob" ELSE "either"
  /\ UNCHANGED <<readText, heldOut, todo, problems, verdict, seen, touched>>
  /\ Reading

\* ... and one without the other is an error.
GuardProbeOne ==
  /\ \/ pc = "either" /\ pc' = (IF TextFound = None THEN "lacksText" ELSE "hasText")
        /\ UNCHANGED verdict
     \/ pc = (IF SealFound = None THEN "lacksText" ELSE "hasText")
        /\ pc' = "text"
        /\ UNCHANGED verdict
     \/ pc = (IF SealFound = None THEN "hasText" ELSE "lacksText") /\ Exit("red")
  /\ UNCHANGED <<readText, heldOut, todo, problems, seen, touched>>
  /\ Reading

\* Wrong form of GuardReadText: it waits for a vanished file to come back.
GuardAwaitText ==
  /\ pc = "text" /\ TextFound # None
  /\ readText' = TextFound /\ pc' = "seal"
  /\ UNCHANGED <<heldOut, todo, problems, verdict, seen, touched>>
  /\ Reading

GuardReadText ==
  /\ pc = "text"
  /\ \/ TextFound = None /\ Exit("crash") /\ UNCHANGED readText
     \/ TextFound # None /\ readText' = TextFound /\ pc' = "seal" /\ UNCHANGED verdict
  /\ UNCHANGED <<heldOut, todo, problems, seen, touched>>
  /\ Reading

\* HoldoutSeal.from_path, verify_seal and HoldoutIndex.build, after which the
\* names as they were read are not used again.
GuardReadSeal ==
  /\ pc = "seal"
  /\ \/ SealFound = None /\ Exit("crash") /\ UNCHANGED heldOut
     \* Not JSON is an exception, another schema a seal failure.
     \/ SealFound = Garbled /\ (Exit("crash") \/ Exit("red")) /\ UNCHANGED heldOut
     \/ /\ SealFound \notin {None, Garbled}
        /\ ~Verifies(readText, SealFound)
        /\ Exit("red")
        /\ UNCHANGED heldOut
     \/ /\ SealFound \notin {None, Garbled}
        /\ Verifies(readText, SealFound)
        /\ heldOut' = Canonical(readText)
        /\ pc' = "glob"
        /\ UNCHANGED verdict
  /\ readText' = None
  /\ UNCHANGED <<todo, problems, seen, touched>>
  /\ Reading

Present == IF artifactsPath = "artifacts" THEN {f \in Files : artifacts[f] # None} ELSE {}

GuardGlob ==
  /\ pc = "glob"
  /\ todo' = Present
  /\ IF Present = {}
       THEN Exit("green")
       ELSE pc' = "check" /\ UNCHANGED verdict
  /\ UNCHANGED <<readText, heldOut, problems, seen, touched>>
  /\ Reading

\* Wrong form of GuardCheck: a file that cannot be read is passed over.
GuardCheckReadable(f) ==
  /\ pc = "check"
  /\ f \in todo
  /\ todo' = todo \ {f}
  /\ problems' = problems \cup
       (IF f \in Present /\ artifacts[f] # Garbled THEN ProblemsOf(artifacts[f], heldOut) ELSE {})
  /\ UNCHANGED <<pc, verdict, seen, readText, heldOut, touched>>
  /\ Reading

\* from_path and the three checks; an unreadable or vanished file is an
\* exception that nobody catches.
GuardCheck(f) ==
  /\ pc = "check"
  /\ f \in todo
  /\ IF f \in Present /\ artifacts[f] # Garbled
       THEN /\ problems' = problems \cup ProblemsOf(artifacts[f], heldOut)
            /\ seen' = [seen EXCEPT ![f] = artifacts[f]]
            /\ todo' = todo \ {f}
            /\ UNCHANGED <<pc, verdict>>
       ELSE Exit("crash") /\ UNCHANGED <<problems, seen, todo>>
  /\ UNCHANGED <<readText, heldOut, touched>>
  /\ Reading

GuardFinish ==
  /\ pc = "check"
  /\ todo = {}
  /\ Exit(IF problems = {} THEN "green" ELSE "red")
  /\ UNCHANGED <<readText, heldOut, todo, problems, seen, touched>>
  /\ Reading

GuardStep ==
  \/ GuardStart \/ GuardProbeNone \/ GuardProbeOne \/ GuardReadText \/ GuardReadSeal
  \/ GuardGlob \/ GuardFinish \/ \E f \in Files : GuardCheck(f)

Next ==
  \/ EditHoldout \/ SpoilSeal \/ WriteHoldout \/ WriteSeal
  \/ EditConfig \/ MovePath \/ MoveHoldout
  \/ LoadIndex \/ \E f \in Files : PlaceFile(f) \/ Build(f)
  \/ GuardStep

Spec == Init /\ [][Next]_vars

\* A run is a finite program, and commits and CI run it over and over.
FairSpec == Spec /\ WF_vars(GuardStep)

------------------------------------------------------------------------------
(* Type invariant *)

Origins == [holdout : {None} \cup SUBSET Words, registered : BOOLEAN]

TypeOK ==
  /\ config \in Configurations
  /\ artifactsPath \in {"artifacts", "elsewhere", "unusable"}
  /\ holdoutPath \in {"holdout", "elsewhere"}
  /\ artifacts \in [Files -> {None, Garbled} \cup Artifacts]
  /\ text \in {None} \cup Texts
  /\ seal \in {None, Garbled} \cup SUBSET Words
  /\ sealing \in {None} \cup Texts
  /\ builder \in {None} \cup SUBSET Words
  /\ pc \in {"idle", "probe", "noText", "either", "hasText", "lacksText",
            "text", "seal", "glob", "check"}
  /\ readText \in {None} \cup Texts
  /\ heldOut \in {None} \cup SUBSET Words
  /\ todo \subseteq Files
  /\ problems \subseteq {"licence", "autophagy", "holdout"}
  /\ verdict \in {"none", "green", "red", "crash"}
  /\ edits \in 0..MaxEdits
  /\ lastSealed \in {None} \cup SUBSET Words
  /\ everSealed \subseteq SUBSET Words
  /\ origin \in [Files -> {None} \cup Origins]
  /\ seen \in [Files -> {None} \cup Artifacts]
  /\ touched \in BOOLEAN

------------------------------------------------------------------------------
(* What an artifact must be, said without the guard's index and its order  *)
(* of checks: every listed provider is registered and permitted, and an    *)
(* induction artifact has no internal provider and no name resembling a    *)
(* held-out one, of a holdout large enough to mean something.              *)

Sourced(a) ==
  \A p \in a.providers : p \in DOMAIN Known /\ a.use \in PermittedUses(Known[p].licence)

FitForInduction(a, holdout) ==
  /\ holdout # None
  /\ Cardinality(holdout) >= MinHoldoutSize
  /\ CleanOf(a.names, holdout)
  /\ \A p \in a.providers : Known[p].kind # "internal"

Admissible(a, holdout) ==
  /\ Sourced(a)
  /\ a.use = "induction" => FitForInduction(a, holdout)

\* When the guard exits 0 and no file changed since it began, every artifact
\* is admissible with respect to the holdout that was last SEALED, whatever
\* editing, deleting or spoiling the holdout and its seal went on before: the
\* holdout cannot be edited to make a contamination check pass
\* (holdout.verify_seal), a missing artifact directory is never a pass, and a
\* holdout that is not where the configuration says makes no check easier.
GreenIsTrustworthy ==
  verdict = "green" /\ ~touched =>
    /\ config = "sound" /\ artifactsPath \in {"artifacts", "elsewhere"}
    /\ artifactsPath = "artifacts" =>
         \A f \in Files : artifacts[f] # None =>
           artifacts[f] # Garbled /\ Admissible(artifacts[f], lastSealed)

\* Even when files change under the guard's feet, a green run judged every
\* artifact it read against one holdout somebody really sealed: a mixture of
\* old names and a new seal, or a half-finished re-seal, is never used.
GreenRunUsedOneSealedHoldout ==
  verdict = "green" =>
    \A f \in Files : seen[f] # None =>
      /\ Admissible(seen[f], heldOut)
      /\ seen[f].use = "induction" => heldOut \in everSealed

\* An artifact that build_artifact made, from registered descriptors and (for
\* induction) with the index of the holdout now sealed.
Blameless(f) ==
  \/ artifacts[f] = None
  \/ /\ origin[f] # None
     /\ origin[f].registered
     /\ artifacts[f].use = "induction" =>
          origin[f].holdout # None /\ origin[f].holdout = seal

PathsInOrder ==
  /\ config = "sound"
  /\ artifactsPath \in {"artifacts", "elsewhere"}
  /\ holdoutPath = "holdout"

HoldoutInOrder ==
  \/ text = None /\ seal = None
  \/ text # None /\ seal \notin {None, Garbled} /\ Verifies(text, seal)

\* The two enforcement points agree: if the tree did not change during the
\* run, paths and holdout are in order and every artifact came out of build_artifact
\* as it should, the guard finds nothing.  A red run always has a cause
\* outside the pipeline (a stale or skipped index, an unregistered
\* descriptor, a file from elsewhere).
NoFalseAlarm ==
  /\ verdict \in {"red", "crash"}
  /\ ~touched
  /\ PathsInOrder
  /\ HoldoutInOrder
  => \E f \in Files : ~Blameless(f)

\* f holds an artifact that is not admissible, where the guard looks for it.
Tainted(f) ==
  /\ artifactsPath = "artifacts"
  /\ artifacts[f] # None
  /\ artifacts[f] # Garbled => ~Admissible(artifacts[f], lastSealed)

\* An artifact that stays inadmissible is reported: from some point on no run
\* ends green, and runs that end red or with an exception keep coming.  Changes
\* are bounded here, so every tree comes to rest and this is what green runs and
\* fairness come to over a tree at rest; over one that is re-sealed and changed
\* for ever a run may read a mixture each time, and nothing of the kind holds.
TaintIsReported ==
  \A f \in Files :
    <>[]Tainted(f) => /\ <>[](verdict # "green")
                      /\ []<>(verdict \in {"red", "crash"})

\* Every run ends with a verdict, whatever happens to the files meanwhile.
RunsEnd == (pc # "idle") ~> (pc = "idle" /\ verdict # "none")
==============================================================================
