-------------------------- MODULE CorpusGuardProofs --------------------------
(***************************************************************************)
(* What is proved of CorpusGuard for every set of files, names, providers, *)
(* blends and edits: type correctness; GreenRunUsedOneSealedHoldout and    *)
(* GreenIsTrustworthy from one inductive invariant; and NoFalseAlarm from  *)
(* another.                                                                *)
(***************************************************************************)
EXTENDS CorpusGuard, BuilderProofs, TLAPS

------------------------------------------------------------------------------
(* The inductive invariant, in named parts *)

\* A seal on disk is intact, or it is the last one written.
SealIsTheLastSealed ==
  /\ seal \in {None, Garbled} \cup {lastSealed}
  /\ lastSealed # None => lastSealed \in everSealed

\* A run has a verdict only when it is over, and has judged nothing before
\* it lists the directory.
RunShape ==
  /\ pc # "idle" => verdict = "none"
  /\ pc \notin {"idle", "check"} =>
       problems = {} /\ \A f \in Files : seen[f] = None
  /\ verdict = "green" => problems = {}

\* The index of a run was built from names that matched a seal.
IndexIsSealed ==
  heldOut # None => /\ heldOut \in everSealed
                    /\ Cardinality(heldOut) >= MinHoldoutSize

\* Whatever was wrong with a file the run has read is among its problems.
ProblemsAreKept ==
  \A f \in Files : seen[f] # None => ProblemsOf(seen[f], heldOut) \subseteq problems

\* As long as no file changed, the run's copies are the files, and no file
\* of the listed directory escapes it.
RunSeesTheTree ==
  ~touched =>
    /\ heldOut # None => heldOut = lastSealed
    /\ pc # "idle" \/ verdict = "green" =>
         config = "sound" /\ artifactsPath \in {"artifacts", "elsewhere"}
    /\ \A f \in Files : seen[f] # None => seen[f] = artifacts[f]
    /\ artifactsPath = "artifacts" /\ (pc = "check" \/ verdict = "green") =>
         \A f \in Files : artifacts[f] # None =>
           seen[f] # None \/ (pc = "check" /\ f \in todo)

IInv ==
  /\ TypeOK
  /\ SealIsTheLastSealed
  /\ RunShape
  /\ IndexIsSealed
  /\ ProblemsAreKept
  /\ RunSeesTheTree

------------------------------------------------------------------------------
(* Lemmas about the operators *)

\* Canonical names are words.
LEMMA CanonicalType ==
  ASSUME NEW lines
  PROVE  Canonical(lines) \in SUBSET Words
BY TextAssumption DEF Canonical

\* Sentinels are never the content of anything.
LEMMA SentinelsAreApart ==
  /\ None # Garbled
  /\ \A a \in Artifacts : a # None /\ a # Garbled
  /\ \A t \in Texts : t # None
  /\ \A n \in SUBSET Words : n # None /\ n # Garbled
BY GuardAssumption

\* An artifact without problems is admissible for the holdout it was judged by.
LEMMA NoProblemsIsAdmissible ==
  ASSUME NEW a \in Artifacts, NEW holdout \in {None} \cup SUBSET Words,
         holdout # None => Cardinality(holdout) >= MinHoldoutSize,
         ProblemsOf(a, holdout) = {}
  PROVE  /\ Admissible(a, holdout)
         /\ a.use = "induction" => holdout # None
<1>1. ~LicenceProblem(a) /\ ~AutophagyProblem(a) /\ ~HoldoutProblem(a, holdout)
  BY DEF ProblemsOf
<1>2. Sourced(a)
  BY <1>1 DEF LicenceProblem, Sourced, Permits
<1>3. ASSUME a.use = "induction" PROVE FitForInduction(a, holdout)
  <2>1. holdout # None /\ \A n \in a.names : ContaminationKey(IndexOf(holdout), n) = "clean"
    BY <1>1, <1>3 DEF HoldoutProblem
  <2>2. a.names \subseteq Lines
    BY DEF Artifacts
  <2>3. CleanOf(a.names, holdout)
    BY <2>1, <2>2, KeyIsPairwise DEF CleanOf
  <2>4. \A p \in a.providers : Known[p].kind # "internal"
    BY <1>1, <1>2, <1>3 DEF AutophagyProblem, Sourced
  <2> QED
    BY <2>1, <2>3, <2>4 DEF FitForInduction
<1>4. a.use = "induction" => holdout # None
  BY <1>3 DEF FitForInduction
<1> QED
  BY <1>2, <1>3, <1>4 DEF Admissible

\* The parts of the assumptions that typing needs.
LEMMA ConstantTypes ==
  /\ MaxEdits \in Nat
  /\ Texts \subseteq SUBSET Lines
  /\ Foreign \subseteq Artifacts
BY GuardAssumption

\* What build_artifact returns is an artifact.
LEMMA BuiltType ==
  ASSUME NEW use \in Uses, NEW blend \in Blends, NEW offer \in Offers,
         NEW holdout \in {None} \cup SUBSET Words
  PROVE  BuiltFrom(use, Contributing(use, blend, offer), holdout) \in Artifacts
<1> DEFINE C == Contributing(use, blend, offer)
<1>1. C \subseteq Results
  BY GuardAssumption DEF Contributing
<1>2. {r.provider : r \in C} \subseteq ProviderIds
  BY <1>1 DEF Results
<1>3. MergedNames(C) \subseteq Lines
  BY <1>1 DEF Results, MergedNames
<1>4. Admitted(use, MergedNames(C), holdout) \subseteq Lines
  BY <1>3 DEF Admitted, Filtered
<1> QED
  BY <1>2, <1>4 DEF BuiltFrom, Artifacts

------------------------------------------------------------------------------
(* Type correctness *)

\* The initial state is well typed.
LEMMA TypeInit == Init => TypeOK
<1> SUFFICES ASSUME Init PROVE TypeOK
  OBVIOUS
<1>1. /\ artifacts \in [Files -> {None, Garbled} \cup Artifacts]
      /\ origin \in [Files -> {None} \cup Origins]
      /\ seen \in [Files -> {None} \cup Artifacts]
  BY DEF Init
<1>2. edits \in 0..MaxEdits
  BY ConstantTypes DEF Init
<1> QED
  BY <1>1, <1>2 DEF Init, Configurations, TypeOK

\* Every step of operator, builder and guard keeps the state well typed.
LEMMA TypeNext == TypeOK /\ [Next]_vars => TypeOK'
<1> SUFFICES ASSUME TypeOK, [Next]_vars PROVE TypeOK'
  OBVIOUS
<1> USE DEF TypeOK, paths, tree, guard
<1>1. CASE EditHoldout
  BY <1>1, ConstantTypes DEF EditHoldout, Edit, UntouchedByOperator
<1>2. CASE SpoilSeal
  BY <1>2, ConstantTypes DEF SpoilSeal, Edit, UntouchedByOperator
<1>3. CASE WriteHoldout
  BY <1>3, ConstantTypes DEF WriteHoldout, Edit, UntouchedByOperator
<1>4. CASE WriteSeal
  <2>1. SealOf(sealing) \in SUBSET Words
    BY CanonicalType DEF SealOf
  <2> QED
    BY <2>1, <1>4 DEF WriteSeal, UntouchedByOperator
<1>5. CASE EditConfig \/ MovePath \/ MoveHoldout
  <2>1. CASE EditConfig
    BY <2>1, ConstantTypes DEF EditConfig, Configurations, Edit, UntouchedByOperator
  <2>2. CASE MovePath
    BY <2>2, ConstantTypes DEF MovePath, Edit, UntouchedByOperator
  <2>3. CASE MoveHoldout
    BY <2>3, ConstantTypes DEF MoveHoldout, Edit, UntouchedByOperator
  <2> QED
    BY <1>5, <2>1, <2>2, <2>3
<1>6. CASE LoadIndex
  <2>1. Canonical(text) \in SUBSET Words
    BY CanonicalType
  <2> QED
    BY <2>1, <1>6, ConstantTypes DEF LoadIndex, TextFound, SealFound, Edit
<1>7. ASSUME NEW f \in Files, PlaceFile(f) PROVE TypeOK'
  <2>1. artifacts' \in [Files -> {None, Garbled} \cup Artifacts]
    BY <1>7, ConstantTypes DEF PlaceFile
  <2> QED
    BY <2>1, <1>7, ConstantTypes DEF PlaceFile, Edit, UntouchedByOperator
<1>8. ASSUME NEW f \in Files, Build(f) PROVE TypeOK'
  <2>1. PICK use \in Uses, blend \in Blends, offer \in Offers, holdout \in {builder, None} :
          BuildWith(f, use, blend, offer, holdout)
    BY <1>8 DEF Build
  <2>2. artifacts' \in [Files -> {None, Garbled} \cup Artifacts]
    BY <2>1, BuiltType DEF BuildWith
  <2>3. [holdout |-> holdout,
         registered |-> \A r \in Contributing(use, blend, offer) : Registered(r)] \in Origins
    BY DEF Origins
  <2>4. origin' \in [Files -> {None} \cup Origins]
    BY <2>1, <2>3 DEF BuildWith
  <2> QED
    BY <2>2, <2>4, <1>8, ConstantTypes DEF Build, Edit
<1>9. CASE GuardStart
  <2>1. /\ readText' \in {None} \cup Texts /\ heldOut' \in {None} \cup SUBSET Words
        /\ todo' \subseteq Files /\ problems' \subseteq {"licence", "autophagy", "holdout"}
        /\ touched' \in BOOLEAN
    BY <1>9 DEF GuardStart
  <2>2. seen' \in [Files -> {None} \cup Artifacts]
    BY <1>9 DEF GuardStart
  <2>3. pc' \in {"idle", "probe"} /\ verdict' \in {"none", "red", "crash"}
    BY <1>9 DEF GuardStart, Exit
  <2>4. UNCHANGED <<tree, sealing, builder, edits, lastSealed, everSealed, origin>>
    BY <1>9 DEF GuardStart, Reading
  <2> QED
    BY <2>1, <2>2, <2>3, <2>4
<1>10. CASE GuardProbeNone \/ GuardProbeOne
  <2>1. /\ pc' \in {"idle", "noText", "either", "hasText", "lacksText", "text", "glob"}
        /\ verdict' \in {verdict, "red"}
    BY <1>10 DEF GuardProbeNone, GuardProbeOne, Exit
  <2>2. UNCHANGED <<tree, sealing, builder, edits, lastSealed, everSealed, origin,
                   readText, heldOut, todo, problems, seen, touched>>
    BY <1>10 DEF GuardProbeNone, GuardProbeOne, Reading
  <2> QED
    BY <2>1, <2>2
<1>11. CASE GuardReadText
  BY <1>11 DEF GuardReadText, TextFound, Exit, Reading
<1>12. CASE GuardReadSeal
  <2>1. Canonical(readText) \in SUBSET Words
    BY CanonicalType
  <2>2. pc' \in {"idle", "seal", "glob"}
        /\ verdict' \in {"none", "green", "red", "crash"}
    BY <1>12 DEF GuardReadSeal, Exit
  <2>3. heldOut' \in {None} \cup SUBSET Words
    BY <2>1, <1>12 DEF GuardReadSeal
  <2>4. /\ UNCHANGED <<tree, sealing, builder, edits, lastSealed, everSealed, origin,
                       todo, problems, seen, touched>>
        /\ readText' = None
    BY <1>12 DEF GuardReadSeal, Reading
  <2> QED
    BY <2>2, <2>3, <2>4
<1>13. CASE GuardGlob
  BY <1>13 DEF GuardGlob, Exit, Reading, Present
<1>14. ASSUME NEW f \in Files, GuardCheck(f) PROVE TypeOK'
  <2>1. f \in Present /\ artifacts[f] # Garbled => artifacts[f] \in Artifacts
    BY DEF Present
  <2>2. ProblemsOf(artifacts[f], heldOut) \subseteq {"licence", "autophagy", "holdout"}
    BY DEF ProblemsOf
  <2>3. /\ problems' \subseteq {"licence", "autophagy", "holdout"}
        /\ seen' \in [Files -> {None} \cup Artifacts]
        /\ todo' \subseteq Files
    BY <2>1, <2>2, <1>14 DEF GuardCheck
  <2>4. pc' \in {"idle", "check"} /\ verdict' \in {"none", "green", "red", "crash"}
    BY <1>14 DEF GuardCheck, Exit
  <2> QED
    BY <2>3, <2>4, <1>14 DEF GuardCheck, Reading
<1>15. CASE GuardFinish
  BY <1>15 DEF GuardFinish, Exit, Reading
<1>16. CASE UNCHANGED vars
  BY <1>16 DEF vars
<1> QED
  BY <1>1, <1>2, <1>3, <1>4, <1>5, <1>6, <1>7, <1>8, <1>9, <1>10, <1>11, <1>12,
     <1>13, <1>14, <1>15, <1>16 DEF Next, GuardStep

\* Every reachable state is well typed, whatever the constants.
THEOREM TypeCorrect == Spec => []TypeOK
BY TypeInit, TypeNext, PTL DEF Spec

------------------------------------------------------------------------------
(* The inductive invariant *)

\* Nothing is sealed, placed or read yet.
LEMMA IInvInit == Init => IInv
<1> SUFFICES ASSUME Init PROVE IInv
  OBVIOUS
<1>1. \A f \in Files : seen[f] = None /\ artifacts[f] = None
  BY DEF Init
<1> QED
  BY <1>1, TypeInit DEF Init, IInv, SealIsTheLastSealed, RunShape, IndexIsSealed,
     ProblemsAreKept, RunSeesTheTree

\* A step of the operator or the builder marks the run as touched and leaves
\* its locals alone, which is all the run's part of the invariant asks.
LEMMA TouchingSteps ==
  ASSUME IInv, touched' = TRUE, UNCHANGED guard, everSealed \subseteq everSealed'
  PROVE  RunShape' /\ IndexIsSealed' /\ ProblemsAreKept' /\ RunSeesTheTree'
<1> USE DEF guard
<1>1. RunShape'
  BY DEF IInv, RunShape
<1>2. IndexIsSealed'
  BY DEF IInv, IndexIsSealed
<1>3. ProblemsAreKept'
  BY DEF IInv, ProblemsAreKept
<1>4. RunSeesTheTree'
  BY DEF RunSeesTheTree
<1> QED
  BY <1>1, <1>2, <1>3, <1>4

\* Every step keeps the invariant: edits by marking the run as touched, the
\* guard's own steps by reading what is there.
LEMMA IInvNext == IInv /\ [Next]_vars => IInv'
<1> SUFFICES ASSUME IInv, [Next]_vars PROVE IInv'
  OBVIOUS
<1> USE DEF paths, tree, guard
<1>0. TypeOK'
  BY TypeNext DEF IInv
<1>1. CASE EditHoldout \/ SpoilSeal \/ WriteHoldout \/ EditConfig \/ MovePath \/ MoveHoldout
  <2>1. /\ touched' = TRUE
        /\ UNCHANGED <<guard, lastSealed, everSealed>>
        /\ seal' \in {seal, None, Garbled}
    BY <1>1 DEF EditHoldout, SpoilSeal, WriteHoldout, EditConfig, MovePath, MoveHoldout,
       UntouchedByOperator
  <2>2. SealIsTheLastSealed'
    BY <2>1 DEF IInv, SealIsTheLastSealed
  <2> QED
    BY <1>0, <2>1, <2>2, TouchingSteps DEF IInv
<1>2. CASE WriteSeal
  <2>1. /\ touched' = TRUE
        /\ UNCHANGED guard
        /\ everSealed \subseteq everSealed'
        /\ seal' = lastSealed' /\ lastSealed' \in everSealed'
    BY <1>2 DEF WriteSeal, UntouchedByOperator
  <2>2. SealIsTheLastSealed'
    BY <2>1 DEF SealIsTheLastSealed
  <2> QED
    BY <1>0, <2>1, <2>2, TouchingSteps DEF IInv
<1>3. CASE \E f \in Files : PlaceFile(f) \/ Build(f)
  <2>1. touched' = TRUE /\ UNCHANGED <<guard, seal, lastSealed, everSealed>>
    BY <1>3 DEF PlaceFile, Build, UntouchedByOperator
  <2>2. SealIsTheLastSealed'
    BY <2>1 DEF IInv, SealIsTheLastSealed
  <2> QED
    BY <1>0, <2>1, <2>2, TouchingSteps DEF IInv
<1>4. CASE LoadIndex \/ UNCHANGED vars
  <2>1. UNCHANGED <<tree, guard, lastSealed, everSealed, touched>>
    BY <1>4 DEF LoadIndex, vars
  <2>2. SealIsTheLastSealed' /\ IndexIsSealed' /\ ProblemsAreKept'
    BY <2>1 DEF IInv, SealIsTheLastSealed, IndexIsSealed, ProblemsAreKept
  <2>3. RunShape'
    BY <2>1 DEF IInv, RunShape
  <2>4. RunSeesTheTree'
    BY <2>1 DEF IInv, RunSeesTheTree
  <2> QED
    BY <1>0, <2>2, <2>3, <2>4 DEF IInv
<1>5. CASE GuardStep
  <2>1. SealIsTheLastSealed' /\ UNCHANGED <<tree, lastSealed, everSealed>>
    BY <1>5 DEF IInv, SealIsTheLastSealed, GuardStep, GuardStart, GuardProbeNone,
       GuardProbeOne, GuardReadText, GuardReadSeal, GuardGlob, GuardCheck, GuardFinish, Reading
  <2>2. CASE GuardStart
    <3>1. /\ heldOut' = None /\ problems' = {}
          /\ \A f \in Files : seen'[f] = None
          /\ pc' # "idle" => verdict' = "none"
          /\ pc' # "idle" => config' = "sound" /\ artifactsPath' \in {"artifacts", "elsewhere"}
          /\ pc' \in {"idle", "probe"} /\ verdict' # "green"
      BY <2>2, <2>1 DEF GuardStart, Usable, Exit, Reading, IInv, TypeOK
    <3> QED
      BY <3>1, <2>1, <1>0 DEF IInv, RunShape, IndexIsSealed, ProblemsAreKept, RunSeesTheTree
  <2>3. CASE GuardProbeNone \/ GuardProbeOne \/ GuardReadText
    <3>1. /\ UNCHANGED <<heldOut, problems, seen, touched>>
          /\ pc \notin {"idle", "check"}
          /\ \/ pc' \notin {"idle", "check"} /\ verdict' = verdict
             \/ pc' = "idle" /\ verdict' \in {"red", "crash"}
      BY <2>3 DEF GuardProbeNone, GuardProbeOne, GuardReadText, Exit
    <3> QED
      BY <3>1, <2>1, <1>0 DEF IInv, RunShape, IndexIsSealed, ProblemsAreKept, RunSeesTheTree
  <2>4. CASE GuardReadSeal
    <3>1. /\ UNCHANGED <<problems, seen, touched>>
          /\ pc = "seal"
          /\ \/ pc' = "glob" /\ verdict' = verdict
             \/ pc' = "idle" /\ verdict' \in {"red", "crash"}
      BY <2>4 DEF GuardReadSeal, Exit
    <3>2. ASSUME heldOut' # heldOut
          PROVE  /\ heldOut' = seal /\ seal \notin {None, Garbled}
                 /\ Cardinality(heldOut') >= MinHoldoutSize
      <4>1. /\ seal \notin {None, Garbled}
            /\ Verifies(readText, seal)
            /\ heldOut' = Canonical(readText)
        BY <2>4, <3>2 DEF GuardReadSeal, SealFound
      <4>2. Canonical(readText) = seal /\ Cardinality(seal) >= MinHoldoutSize
        BY <4>1 DEF Verifies
      <4> QED
        BY <4>1, <4>2
    <3>3. IndexIsSealed'
      BY <3>2, <2>1 DEF IInv, IndexIsSealed, SealIsTheLastSealed
    <3>4. \A f \in Files : seen'[f] = None
      BY <3>1 DEF IInv, RunShape
    <3>5. RunShape' /\ ProblemsAreKept'
      BY <3>1, <3>4 DEF IInv, RunShape, ProblemsAreKept
    <3>6. RunSeesTheTree'
      BY <3>1, <3>2, <3>4, <2>1 DEF IInv, RunSeesTheTree, RunShape, SealIsTheLastSealed
    <3> QED
      BY <3>3, <3>5, <3>6, <2>1, <1>0 DEF IInv
  <2>5. CASE GuardGlob
    <3>1. /\ UNCHANGED <<heldOut, problems, seen, touched>>
          /\ pc = "glob"
          /\ todo' = Present
          /\ \/ pc' = "check" /\ verdict' = verdict
             \/ pc' = "idle" /\ verdict' = "green" /\ Present = {}
      BY <2>5 DEF GuardGlob, Exit
    <3>2. RunShape' /\ IndexIsSealed' /\ ProblemsAreKept'
      BY <3>1, <2>1 DEF IInv, RunShape, IndexIsSealed, ProblemsAreKept
    <3>3. RunSeesTheTree'
      BY <3>1, <2>1 DEF IInv, RunSeesTheTree, Present
    <3> QED
      BY <3>2, <3>3, <2>1, <1>0 DEF IInv
  <2>6. ASSUME NEW f \in Files, GuardCheck(f) PROVE IInv'
    <3>1. /\ UNCHANGED <<heldOut, touched>>
          /\ pc = "check" /\ verdict = "none" /\ f \in todo
      BY <2>6 DEF GuardCheck, IInv, RunShape
    <3>2. CASE f \in Present /\ artifacts[f] # Garbled
      <4>1. /\ problems' = problems \cup ProblemsOf(artifacts[f], heldOut)
            /\ seen' = [seen EXCEPT ![f] = artifacts[f]]
            /\ todo' = todo \ {f}
            /\ UNCHANGED <<pc, verdict>>
        BY <2>6, <3>2 DEF GuardCheck
      <4>2. artifacts[f] # None
        BY <3>2 DEF Present
      <4>3. \A g \in Files : seen'[g] = IF g = f THEN artifacts[f] ELSE seen[g]
        BY <4>1 DEF IInv, TypeOK
      <4>4. RunShape'
        BY <3>1, <4>1 DEF RunShape
      <4>5. IndexIsSealed'
        BY <3>1, <2>1 DEF IInv, IndexIsSealed
      <4>6. ProblemsAreKept'
        BY <3>1, <4>1, <4>3 DEF IInv, ProblemsAreKept
      <4>7. RunSeesTheTree'
        BY <3>1, <4>1, <4>2, <4>3, <2>1 DEF IInv, RunSeesTheTree
      <4> QED
        BY <4>4, <4>5, <4>6, <4>7, <2>1, <1>0 DEF IInv
    <3>3. CASE ~(f \in Present /\ artifacts[f] # Garbled)
      <4>1. /\ pc' = "idle" /\ verdict' = "crash"
            /\ UNCHANGED <<problems, seen, todo>>
        BY <2>6, <3>3 DEF GuardCheck, Exit
      <4> QED
        BY <4>1, <3>1, <2>1, <1>0 DEF IInv, RunShape, IndexIsSealed, ProblemsAreKept, RunSeesTheTree
    <3> QED
      BY <3>2, <3>3
  <2>7. CASE GuardFinish
    <3>1. /\ UNCHANGED <<heldOut, problems, seen, touched, todo>>
          /\ pc = "check" /\ todo = {} /\ pc' = "idle"
          /\ verdict' \in {"green", "red"}
          /\ verdict' = "green" => problems = {}
      BY <2>7 DEF GuardFinish, Exit
    <3> QED
      BY <3>1, <2>1, <1>0 DEF IInv, RunShape, IndexIsSealed, ProblemsAreKept, RunSeesTheTree
  <2> QED
    BY <1>5, <2>2, <2>3, <2>4, <2>5, <2>6, <2>7 DEF GuardStep
<1> QED
  BY <1>1, <1>2, <1>3, <1>4, <1>5 DEF Next

\* The inductive invariant holds throughout: a run's index is a sealed holdout,
\* its problems are kept, and it sees the tree as long as nobody touches it.
THEOREM Invariance == Spec => []IInv
BY IInvInit, IInvNext, PTL DEF Spec

------------------------------------------------------------------------------
(* The safety properties *)

\* A green run judged what it read against one holdout that was really sealed.
THEOREM OneSealedHoldout == Spec => []GreenRunUsedOneSealedHoldout
<1>1. IInv => GreenRunUsedOneSealedHoldout
  <2> SUFFICES ASSUME IInv, verdict = "green", NEW f \in Files, seen[f] # None
               PROVE  /\ Admissible(seen[f], heldOut)
                      /\ seen[f].use = "induction" => heldOut \in everSealed
    BY DEF GreenRunUsedOneSealedHoldout
  <2>1. seen[f] \in Artifacts /\ heldOut \in {None} \cup SUBSET Words
    BY DEF IInv, TypeOK
  <2>2. ProblemsOf(seen[f], heldOut) = {}
    BY DEF IInv, RunShape, ProblemsAreKept
  <2>3. heldOut # None => heldOut \in everSealed /\ Cardinality(heldOut) >= MinHoldoutSize
    BY DEF IInv, IndexIsSealed
  <2> QED
    BY <2>1, <2>2, <2>3, NoProblemsIsAdmissible
<1> QED
  BY <1>1, Invariance, PTL

\* A green run over an unchanged tree vouches for every artifact, with respect
\* to the holdout last sealed.
THEOREM GreenTrust == Spec => []GreenIsTrustworthy
<1>1. IInv => GreenIsTrustworthy
  <2> SUFFICES ASSUME IInv, verdict = "green", ~touched
               PROVE  /\ config = "sound" /\ artifactsPath \in {"artifacts", "elsewhere"}
                      /\ artifactsPath = "artifacts" =>
                           \A f \in Files : artifacts[f] # None =>
                             artifacts[f] # Garbled /\ Admissible(artifacts[f], lastSealed)
    BY DEF GreenIsTrustworthy
  <2>1. pc = "idle" /\ problems = {}
    BY DEF IInv, RunShape
  <2>2. config = "sound" /\ artifactsPath \in {"artifacts", "elsewhere"}
    BY DEF IInv, RunSeesTheTree
  <2>3. ASSUME artifactsPath = "artifacts", NEW f \in Files, artifacts[f] # None
        PROVE  artifacts[f] # Garbled /\ Admissible(artifacts[f], lastSealed)
    <3>1. seen[f] # None /\ seen[f] = artifacts[f]
      BY <2>1, <2>3 DEF IInv, RunSeesTheTree
    <3>2. artifacts[f] \in Artifacts
      BY <3>1 DEF IInv, TypeOK
    <3>3. ProblemsOf(artifacts[f], heldOut) = {}
      BY <2>1, <3>1 DEF IInv, ProblemsAreKept
    <3>4. heldOut \in {None} \cup SUBSET Words
      BY DEF IInv, TypeOK
    <3>5. heldOut # None => heldOut = lastSealed /\ Cardinality(heldOut) >= MinHoldoutSize
      BY DEF IInv, RunSeesTheTree, IndexIsSealed
    <3>6. /\ Admissible(artifacts[f], heldOut)
          /\ artifacts[f].use = "induction" => heldOut # None
      BY <3>2, <3>3, <3>4, <3>5, NoProblemsIsAdmissible
    <3> QED
      BY <3>2, <3>5, <3>6, SentinelsAreApart DEF Admissible
  <2> QED
    BY <2>2, <2>3
<1> QED
  BY <1>1, Invariance, PTL

------------------------------------------------------------------------------
(* No run ends badly without a cause outside the pipeline *)

\* The auxiliary origin tells the truth: it records a build that passed the
\* gates and whose artifact is what the file holds.
BuiltAsRecorded ==
  \A f \in Files : origin[f] # None =>
    \E use \in Uses, blend \in Blends, offer \in Offers :
      LET contributing == Contributing(use, blend, offer)
      IN  /\ GatesOpen(use, contributing)
          /\ artifacts[f] = BuiltFrom(use, contributing, origin[f].holdout)
          /\ origin[f].registered => \A r \in contributing : Registered(r)

\* There is nothing a guard could rightly object to, and nobody interferes.
Unprovoked ==
  /\ ~touched
  /\ PathsInOrder
  /\ HoldoutInOrder
  /\ \A f \in Files : Blameless(f)

\* Then the run goes from one file to the next the way it was meant to, and
\* judges by the holdout the artifacts were built with.
RunGoesWell ==
  /\ verdict \notin {"red", "crash"}
  /\ problems = {}
  /\ pc # "lacksText"
  /\ pc = "noText" => text = None
  /\ pc \in {"probe", "noText"} => heldOut = None
  /\ pc \in {"either", "hasText", "text", "seal"} => text # None
  /\ pc = "seal" => readText = text
  /\ pc \in {"glob", "check"} => heldOut = seal
  /\ pc = "check" => todo \subseteq Present

JInv ==
  /\ TypeOK
  /\ BuiltAsRecorded
  /\ Unprovoked => RunGoesWell

\* What was built from registered descriptors, for induction with the holdout
\* the guard judges by, has no problem: the registry permits what the builder's
\* gates let through, and the filter removed what the guard looks for.
LEMMA BuiltHasNoProblems ==
  ASSUME NEW use \in Uses, NEW blend \in Blends, NEW offer \in Offers,
         NEW holdout, NEW judge,
         GatesOpen(use, Contributing(use, blend, offer)),
         \A r \in Contributing(use, blend, offer) : Registered(r),
         use = "induction" => holdout # None /\ holdout = judge
  PROVE  ProblemsOf(BuiltFrom(use, Contributing(use, blend, offer), holdout), judge) = {}
<1> DEFINE C == Contributing(use, blend, offer)
           a == BuiltFrom(use, C, holdout)
<1>1. /\ a.use = use
      /\ a.providers = {r.provider : r \in C}
      /\ a.names = Admitted(use, MergedNames(C), holdout)
  BY DEF BuiltFrom
<1> HIDE DEF C, a
<1>2. \A p \in a.providers :
        p \in DOMAIN Known /\ Permits(Known[p], use)
        /\ ~(use = "induction" /\ Known[p].kind = "internal")
  <2> SUFFICES ASSUME NEW r \in C
               PROVE  /\ r.provider \in DOMAIN Known
                      /\ Permits(Known[r.provider], use)
                      /\ ~(use = "induction" /\ Known[r.provider].kind = "internal")
    BY <1>1
  <2>1. r.provider \in DOMAIN Known /\ Known[r.provider] = [licence |-> r.licence, kind |-> r.kind]
    BY DEF C, Registered
  <2>2. Permits(r, use) /\ ~(use = "induction" /\ r.kind = "internal")
    BY DEF C, GatesOpen
  <2> QED
    BY <2>1, <2>2 DEF Permits
<1>3. ~LicenceProblem(a)
  BY <1>1, <1>2 DEF LicenceProblem
<1>4. ~AutophagyProblem(a)
  BY <1>1, <1>2 DEF AutophagyProblem
<1>5. ~HoldoutProblem(a, judge)
  BY <1>1 DEF HoldoutProblem, Admitted, Filtered
<1>6. ProblemsOf(a, judge) = {}
  BY <1>3, <1>4, <1>5 DEF ProblemsOf
<1> QED
  BY <1>6 DEF C, a

\* So a blameless file has none, and is no garbage.
LEMMA BlamelessHasNoProblems ==
  ASSUME JInv, NEW f \in Files, Blameless(f), artifacts[f] # None, NEW judge,
         judge = seal
  PROVE  artifacts[f] # Garbled /\ ProblemsOf(artifacts[f], judge) = {}
<1>1. /\ origin[f] # None /\ origin[f].registered
      /\ artifacts[f].use = "induction" => origin[f].holdout # None /\ origin[f].holdout = seal
  BY DEF Blameless
<1>2. PICK use \in Uses, blend \in Blends, offer \in Offers :
        LET contributing == Contributing(use, blend, offer)
        IN  /\ GatesOpen(use, contributing)
            /\ artifacts[f] = BuiltFrom(use, contributing, origin[f].holdout)
            /\ origin[f].registered => \A r \in contributing : Registered(r)
  BY <1>1 DEF JInv, BuiltAsRecorded
<1>3. artifacts[f].use = use
  BY <1>2 DEF BuiltFrom
<1>4. ProblemsOf(artifacts[f], judge) = {}
  BY <1>1, <1>2, <1>3, BuiltHasNoProblems
<1>5. origin[f].holdout \in {None} \cup SUBSET Words
  BY <1>1 DEF JInv, TypeOK, Origins
<1>6. artifacts[f] \in Artifacts
  BY <1>2, <1>5, BuiltType
<1> QED
  BY <1>4, <1>6, SentinelsAreApart

\* No file, no run.
LEMMA JInvInit == Init => JInv
<1> SUFFICES ASSUME Init PROVE JInv
  OBVIOUS
<1>1. BuiltAsRecorded
  BY DEF Init, BuiltAsRecorded
<1>2. RunGoesWell
  BY DEF Init, RunGoesWell
<1> QED
  BY <1>1, <1>2, TypeInit DEF JInv

\* Builds are recorded with what they were made of, and any other way to write
\* a file erases the record.
LEMMA RecordsStayTrue ==
  ASSUME TypeOK, BuiltAsRecorded, [Next]_vars
  PROVE  BuiltAsRecorded'
<1>1. CASE UNCHANGED <<artifacts, origin>>
  BY <1>1 DEF BuiltAsRecorded
<1>2. ASSUME NEW f \in Files, PlaceFile(f) PROVE BuiltAsRecorded'
  <2>1. /\ origin'[f] = None
        /\ \A g \in Files \ {f} : origin'[g] = origin[g] /\ artifacts'[g] = artifacts[g]
    BY <1>2 DEF PlaceFile, TypeOK
  <2> QED
    BY <2>1 DEF BuiltAsRecorded
<1>3. ASSUME NEW f \in Files, Build(f) PROVE BuiltAsRecorded'
  <2>1. PICK use \in Uses, blend \in Blends, offer \in Offers, holdout \in {builder, None} :
          BuildWith(f, use, blend, offer, holdout)
    BY <1>3 DEF Build
  <2>2. /\ GatesOpen(use, Contributing(use, blend, offer))
        /\ artifacts'[f] = BuiltFrom(use, Contributing(use, blend, offer), origin'[f].holdout)
        /\ origin'[f].registered => \A r \in Contributing(use, blend, offer) : Registered(r)
        /\ \A g \in Files \ {f} : origin'[g] = origin[g] /\ artifacts'[g] = artifacts[g]
    BY <2>1 DEF BuildWith, TypeOK
  <2> QED
    BY <2>2 DEF BuiltAsRecorded
<1>4. UNCHANGED <<artifacts, origin>> \/ \E f \in Files : PlaceFile(f) \/ Build(f)
  BY DEF Next, vars, paths, tree, EditHoldout, SpoilSeal, WriteHoldout, WriteSeal, EditConfig,
     MovePath, MoveHoldout, LoadIndex, GuardStep, GuardStart, GuardProbeNone, GuardProbeOne,
     GuardReadText, GuardReadSeal, GuardGlob, GuardCheck, GuardFinish, Reading
<1> QED
  BY <1>1, <1>2, <1>3, <1>4

\* Every other step of the guard leaves the tree, what is known of its files,
\* and touched alone.
LEMMA GuardOnlyLooks ==
  ASSUME GuardStep
  PROVE  /\ UNCHANGED <<config, artifactsPath, holdoutPath, artifacts, text, seal, origin>>
         /\ ~GuardStart => UNCHANGED touched
BY DEF GuardStep, GuardStart, GuardProbeNone, GuardProbeOne, GuardReadText, GuardReadSeal,
   GuardGlob, GuardCheck, GuardFinish, Reading, paths, tree

\* In order, the paths lead to holdout and artifacts, and the seal verifies.
LEMMA InOrder ==
  ASSUME TypeOK, Unprovoked
  PROVE  /\ config = "sound" /\ Usable /\ TextFound = text /\ SealFound = seal
         /\ text = None <=> seal = None
         /\ seal # Garbled
         /\ text # None => Verifies(text, seal)
<1>1. None # Garbled
  BY SentinelsAreApart
<1> QED
  BY <1>1 DEF Unprovoked, PathsInOrder, HoldoutInOrder, Usable, TextFound, SealFound

\* A run nobody provokes goes well to its end.
LEMMA JInvNext == JInv /\ [Next]_vars => JInv'
<1> SUFFICES ASSUME JInv, [Next]_vars PROVE JInv'
  OBVIOUS
<1>0. TypeOK' /\ BuiltAsRecorded'
  BY TypeNext, RecordsStayTrue DEF JInv
<1>1. CASE touched'
  BY <1>0, <1>1 DEF JInv, Unprovoked
<1>2. CASE LoadIndex \/ UNCHANGED vars
  <2>1. UNCHANGED <<tree, guard, origin, touched>>
    BY <1>2 DEF LoadIndex, vars
  <2>2. Unprovoked' => Unprovoked
    BY <2>1 DEF tree, paths, Unprovoked, PathsInOrder, HoldoutInOrder, Blameless
  <2>3. RunGoesWell => RunGoesWell'
    BY <2>1 DEF tree, paths, guard, RunGoesWell, Present
  <2> QED
    BY <1>0, <2>2, <2>3 DEF JInv
<1>3. CASE GuardStep
  <2>0. UNCHANGED <<config, artifactsPath, holdoutPath, artifacts, text, seal, origin>>
    BY <1>3, GuardOnlyLooks
  <2> SUFFICES ASSUME Unprovoked' PROVE RunGoesWell'
    BY <1>0 DEF JInv
  <2>1. CASE GuardStart
    <3>1. config = "sound" /\ Usable
      BY <2>0 DEF Unprovoked, PathsInOrder, Usable
    <3>2. pc' = "probe" /\ verdict' = "none" /\ problems' = {} /\ heldOut' = None
      BY <2>1, <3>1 DEF GuardStart
    <3> QED
      BY <3>2 DEF RunGoesWell
  <2>2. CASE ~GuardStart
    <3>1. Unprovoked
      BY <2>0, <1>3, <2>2, GuardOnlyLooks
      DEF Unprovoked, PathsInOrder, HoldoutInOrder, Blameless
    <3>2. RunGoesWell /\ TypeOK
      BY <3>1 DEF JInv
    <3>3. /\ TextFound = text /\ SealFound = seal
          /\ text = None <=> seal = None
          /\ seal # Garbled
          /\ text # None => Verifies(text, seal)
      BY <3>1, <3>2, InOrder
    <3>4. CASE GuardProbeNone
      <4>1. /\ UNCHANGED <<verdict, problems, readText, heldOut, todo>>
            /\ pc' \in {"noText", "glob", "either"}
            /\ pc' \in {"noText", "glob"} => text = None
            /\ pc' = "either" => text # None
            /\ pc' = "glob" => seal = None
            /\ pc \in {"probe", "noText"}
        BY <3>2, <3>3, <3>4 DEF GuardProbeNone, RunGoesWell
      <4>2. heldOut = None
        BY <4>1, <3>2 DEF RunGoesWell
      <4> QED
        BY <4>1, <4>2, <2>0, <3>2 DEF RunGoesWell
    <3>5. CASE GuardProbeOne
      <4>1. /\ UNCHANGED <<verdict, problems, readText, heldOut, todo>>
            /\ pc' \in {"hasText", "text"}
            /\ pc \in {"either", "hasText"}
        BY <3>2, <3>3, <3>5 DEF GuardProbeOne, RunGoesWell
      <4> QED
        BY <4>1, <2>0, <3>2 DEF RunGoesWell
    <3>6. CASE GuardReadText
      <4>1. /\ UNCHANGED <<verdict, problems, heldOut, todo>>
            /\ pc = "text" /\ pc' = "seal" /\ readText' = text
        BY <3>2, <3>3, <3>6 DEF GuardReadText, RunGoesWell
      <4> QED
        BY <4>1, <2>0, <3>2 DEF RunGoesWell
    <3>7. CASE GuardReadSeal
      <4>1. pc = "seal" /\ text # None /\ readText = text /\ seal # None
        BY <3>2, <3>3, <3>7 DEF GuardReadSeal, RunGoesWell
      <4>2. Verifies(readText, SealFound) /\ SealFound \notin {None, Garbled}
        BY <3>3, <4>1
      <4>3. heldOut' = Canonical(text) /\ pc' = "glob" /\ UNCHANGED <<verdict, problems, todo>>
        BY <3>7, <4>1, <4>2 DEF GuardReadSeal
      <4>4. heldOut' = seal
        BY <3>3, <4>1, <4>3 DEF Verifies
      <4> QED
        BY <4>3, <4>4, <2>0, <3>2 DEF RunGoesWell
    <3>8. CASE GuardGlob
      <4>1. /\ UNCHANGED <<problems, heldOut>>
            /\ pc = "glob" /\ todo' = Present
            /\ \/ pc' = "idle" /\ verdict' = "green"
               \/ pc' = "check" /\ verdict' = verdict
        BY <3>8 DEF GuardGlob, Exit
      <4>2. Present' = Present
        BY <2>0 DEF Present
      <4> QED
        BY <4>1, <4>2, <2>0, <3>2 DEF RunGoesWell
    <3>9. ASSUME NEW f \in Files, GuardCheck(f) PROVE RunGoesWell'
      <4>1. pc = "check" /\ f \in Present /\ heldOut = seal
        BY <3>2, <3>9 DEF GuardCheck, RunGoesWell
      <4>2. artifacts[f] # None /\ Blameless(f)
        BY <3>1, <4>1 DEF Present, Unprovoked
      <4>3. artifacts[f] # Garbled /\ ProblemsOf(artifacts[f], heldOut) = {}
        BY <4>1, <4>2, BlamelessHasNoProblems
      <4>4. /\ problems' = problems /\ todo' = todo \ {f}
            /\ UNCHANGED <<pc, verdict, heldOut>>
        BY <3>9, <4>1, <4>3 DEF GuardCheck
      <4>5. Present' = Present
        BY <2>0 DEF Present
      <4> QED
        BY <4>1, <4>4, <4>5, <2>0, <3>2 DEF RunGoesWell
    <3>10. CASE GuardFinish
      <4>1. pc' = "idle" /\ verdict' = "green" /\ problems' = {}
        BY <3>2, <3>10 DEF GuardFinish, Exit, RunGoesWell
      <4> QED
        BY <4>1 DEF RunGoesWell
    <3> QED
      BY <1>3, <2>2, <3>4, <3>5, <3>6, <3>7, <3>8, <3>9, <3>10 DEF GuardStep
  <2> QED
    BY <2>1, <2>2
<1>4. touched' \/ LoadIndex \/ UNCHANGED vars \/ GuardStep
  BY DEF Next, EditHoldout, SpoilSeal, WriteHoldout, WriteSeal, EditConfig, MovePath,
     MoveHoldout, PlaceFile, Build
<1> QED
  BY <1>1, <1>2, <1>3, <1>4

\* A red run, or one that ends with an exception, has a cause outside the
\* pipeline: the builder's gates and filter and the guard's checks agree.
THEOREM NoFalseAlarmTheorem == Spec => []NoFalseAlarm
<1>1. JInv => NoFalseAlarm
  BY DEF JInv, Unprovoked, RunGoesWell, NoFalseAlarm
<1> QED
  BY <1>1, JInvInit, JInvNext, PTL DEF Spec
==============================================================================
