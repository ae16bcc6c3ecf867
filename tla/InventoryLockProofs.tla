------------------------- MODULE InventoryLockProofs -------------------------
(***************************************************************************)
(* What the inventory guard guarantees for any number of inventories and   *)
(* entries and any edits: LockedPositionsKeepTheirMeaning, and, with a     *)
(* review of each release tree, an append-only address space.              *)
(***************************************************************************)
EXTENDS InventoryLock, FoldLemmas, TLAPS

\* Nothing is released without passing the check.
ReleasedPassed == CheckPasses(released)

\* In a tree that passes, an inventory honours every position of its lock.
LEMMA PassingHonoursTheLock ==
  ASSUME NEW tree, CheckPasses(tree), NEW p \in Discovered(tree),
         NEW i \in DOMAIN tree.lock[p]
  PROVE  /\ i \in DOMAIN tree.inventory[p]
         /\ LockedForm(tree.inventory[p][i]) = tree.lock[p][i]
BY DEF CheckPasses, Breaches

\* Only Release changes what is released.
LEMMA OnlyReleaseReleases ==
  ASSUME [Next]_vars
  PROVE  released' = released \/ (released' = Tree /\ CheckPasses(Tree))
BY DEF Next, vars, EditInventory, EditLock, MoveRoot, StartUpdate, UpdateNext,
   UpdateDies, Release

\* The first tree holds no inventory and every later one went through Release.
THEOREM ReleasesPassTheCheck == Spec => []ReleasedPassed
<1>1. Init => ReleasedPassed
  <2> SUFFICES ASSUME Init PROVE Discovered(released) = {}
    BY DEF ReleasedPassed, CheckPasses
  <2>1. \A p \in Paths : released.inventory[p] = Absent
    BY DEF Init, Tree
  <2> QED
    BY <2>1 DEF Discovered
<1>2. ReleasedPassed /\ [Next]_vars => ReleasedPassed'
  <2> SUFFICES ASSUME ReleasedPassed, [Next]_vars PROVE CheckPasses(released')
    BY DEF ReleasedPassed, CheckPasses, Discovered
  <2> QED
    BY OnlyReleaseReleases DEF ReleasedPassed
<1> QED
  BY <1>1, <1>2, PTL DEF Spec

\* Between two releases whose locks differ by additions only, a locked
\* position keeps its id and its address-relevant fields.
THEOREM LockedPositionsTheorem == Spec => LockedPositionsKeepTheirMeaning
<1>1. ReleasedPassed /\ [Next]_vars =>
        [released' # released =>
           \A p \in Discovered(released) \cap Discovered(released') :
             LockOnlyGrew(p, released, released') =>
             \A i \in DOMAIN released.lock[p] :
               /\ i \in DOMAIN released'.inventory[p]
               /\ LockedForm(released'.inventory[p][i]) = LockedForm(released.inventory[p][i])]_vars
  <2> SUFFICES ASSUME ReleasedPassed, [Next]_vars, released' # released,
                      NEW p \in Discovered(released) \cap Discovered(released'),
                      LockOnlyGrew(p, released, released'),
                      NEW i \in DOMAIN released.lock[p]
               PROVE  /\ i \in DOMAIN released'.inventory[p]
                      /\ LockedForm(released'.inventory[p][i]) = LockedForm(released.inventory[p][i])
    OBVIOUS
  <2>1. released' = Tree /\ CheckPasses(Tree)
    BY OnlyReleaseReleases
  <2>2. /\ p \in Discovered(released) /\ p \in Discovered(Tree)
        /\ i \in DOMAIN Tree.lock[p]
        /\ Tree.lock[p][i] = released.lock[p][i]
    BY <2>1 DEF LockOnlyGrew, Space!Extends
  <2>3. LockedForm(released.inventory[p][i]) = released.lock[p][i]
    BY <2>2, PassingHonoursTheLock DEF ReleasedPassed
  <2>4. i \in DOMAIN Tree.inventory[p] /\ LockedForm(Tree.inventory[p][i]) = Tree.lock[p][i]
    BY <2>1, <2>2, PassingHonoursTheLock
  <2> QED
    BY <2>1, <2>2, <2>3, <2>4
<1> QED
  BY <1>1, ReleasesPassTheCheck, PTL DEF Spec, LockedPositionsKeepTheirMeaning

------------------------------------------------------------------------------
(* The reviewed releases *)

\* Every file holds something a contributor can write.
ContentTypes ==
  /\ inventory \in [Paths -> {Absent, Malformed} \cup Contents]
  /\ reviewed.inventory \in [Paths -> {Absent, Malformed} \cup Contents]

\* What was taken over had passed the check and was locked in full.
TakenOverInFull ==
  /\ CheckPasses(reviewed)
  /\ LockedInFull(reviewed)

ReviewedInv == ContentTypes /\ TakenOverInFull

\* Only Release takes a tree over, and only a reviewed one.
LEMMA OnlyReviewedIsTakenOver ==
  ASSUME [Next]_vars
  PROVE  \/ reviewed' = reviewed
         \/ reviewed' = Tree /\ CheckPasses(Tree) /\ Reviewed(reviewed, Tree)
BY DEF Next, vars, EditInventory, EditLock, MoveRoot, StartUpdate, UpdateNext,
   UpdateDies, Release

\* There is no inventory in the initial state.
LEMMA ReviewedInvInit == Init => ReviewedInv
<1> SUFFICES ASSUME Init PROVE ReviewedInv
  OBVIOUS
<1>1. /\ inventory = [p \in Paths |-> Absent]
      /\ reviewed.inventory = [p \in Paths |-> Absent]
  BY DEF Init, Tree
<1>2. Discovered(reviewed) = {}
  BY <1>1 DEF Discovered
<1> QED
  BY <1>1, <1>2 DEF ReviewedInv, CheckPasses, ContentTypes, TakenOverInFull, LockedInFull

\* No step of a contributor or of the tool writes anything but contents.
LEMMA ContentTypesNext ==
  ASSUME ContentTypes, [Next]_vars
  PROVE  ContentTypes'
<1>1. inventory' \in [Paths -> {Absent, Malformed} \cup Contents]
  <2>1. ASSUME NEW p \in Paths, EditInventory(p)
        PROVE  inventory' \in [Paths -> {Absent, Malformed} \cup Contents]
    BY <2>1 DEF EditInventory, ContentTypes
  <2>2. CASE UNCHANGED inventory
    BY <2>2 DEF ContentTypes
  <2> QED
    BY <2>1, <2>2 DEF Next, vars, EditLock, MoveRoot, StartUpdate, UpdateNext,
       UpdateDies, Release
<1>2. reviewed' = reviewed \/ reviewed'.inventory = inventory
  BY OnlyReviewedIsTakenOver DEF Tree
<1> QED
  BY <1>1, <1>2 DEF ContentTypes

\* Locks of a release that was taken over cover its inventories.
LEMMA ReviewedInvNext == ReviewedInv /\ [Next]_vars => ReviewedInv'
<1> SUFFICES ASSUME ReviewedInv, [Next]_vars PROVE ReviewedInv'
  OBVIOUS
<1>1. ContentTypes'
  BY ContentTypesNext DEF ReviewedInv
<1>2. CASE reviewed' = reviewed
  BY <1>1, <1>2 DEF ReviewedInv, TakenOverInFull, LockedInFull, CheckPasses, Discovered
<1>3. CASE reviewed' = Tree /\ CheckPasses(Tree) /\ Reviewed(reviewed, Tree)
  <2>1. CheckPasses(reviewed') /\ Reviewed(reviewed, reviewed')
    BY <1>3
  <2> QED
    BY <1>1, <2>1 DEF ReviewedInv, TakenOverInFull, LockedInFull, Reviewed, CheckPasses,
       Discovered
<1> QED
  BY <1>2, <1>3, OnlyReviewedIsTakenOver

\* A release that is taken over extends every inventory taken over before.
LEMMA TakingOverGrows ==
  ASSUME ReviewedInv, ReviewedInv', [Next]_vars, reviewed' # reviewed
  PROVE  Space!Grow
<1>1. Reviewed(reviewed, reviewed') /\ CheckPasses(reviewed')
  BY OnlyReviewedIsTakenOver
<1>2. ASSUME NEW p \in Paths, Meaning(reviewed)[p] # Absent
      PROVE  /\ Meaning(reviewed')[p] # Absent
             /\ Space!Extends(Meaning(reviewed')[p], Meaning(reviewed)[p])
  <2>1. p \in Discovered(reviewed)
    BY <1>1, <1>2 DEF Meaning, Discovered, Reviewed, NothingGone
  <2>2. LockOnlyGrew(p, reviewed, reviewed')
    BY <1>1, <2>1 DEF Reviewed
  <2>3. p \in Discovered(reviewed')
    BY <1>1, <2>1 DEF Reviewed, NothingGone
  <2>4. /\ reviewed.inventory[p] # Absent
        /\ reviewed'.inventory[p] # Absent
        /\ reviewed'.inventory[p] \in Contents
    BY <1>1, <2>1, <2>3 DEF CheckPasses, Loads, Discovered, ReviewedInv, ContentTypes
  <2>5. /\ Meaning(reviewed)[p] = LockedForms(reviewed.inventory[p])
        /\ Meaning(reviewed')[p] = LockedForms(reviewed'.inventory[p])
    BY <2>4 DEF Meaning
  <2>6. ASSUME NEW i \in DOMAIN reviewed.inventory[p]
        PROVE  /\ i \in DOMAIN reviewed'.inventory[p]
               /\ LockedForm(reviewed'.inventory[p][i]) = LockedForm(reviewed.inventory[p][i])
    <3>1. i \in DOMAIN reviewed.lock[p]
      BY <2>1, <2>6 DEF ReviewedInv, TakenOverInFull, LockedInFull
    <3>2. LockedForm(reviewed.inventory[p][i]) = reviewed.lock[p][i]
      BY <2>1, <3>1, PassingHonoursTheLock DEF ReviewedInv, TakenOverInFull
    <3>3. i \in DOMAIN reviewed'.lock[p] /\ reviewed'.lock[p][i] = reviewed.lock[p][i]
      BY <2>2, <3>1 DEF LockOnlyGrew, Space!Extends
    <3> QED
      BY <1>1, <2>3, <3>2, <3>3, PassingHonoursTheLock
  <2>7. Space!Extends(LockedForms(reviewed'.inventory[p]), LockedForms(reviewed.inventory[p]))
    BY <2>6 DEF Space!Extends, LockedForms
  <2> QED
    BY <2>4, <2>5, <2>7, InventoryAssumption
<1>3. DOMAIN Meaning(reviewed') = Paths
  BY DEF Meaning
<1> QED
  BY <1>2, <1>3 DEF Space!Grow, Meaning

\* The releases taken over implement the append-only address space of ADR-0014
\* if each was reviewed for lockfile diffs that only add, for inventories the
\* tool no longer sees, and for entries without a lock; check does the rest.
THEOREM ReviewedRefinement == Spec => ReviewedReleasesAreAppendOnly
<1>1. Init => Space!Init
  BY DEF Init, Tree, Space!Init, Meaning
<1>2. ReviewedInv /\ ReviewedInv' /\ [Next]_vars => [Space!Grow]_(Meaning(reviewed))
  BY TakingOverGrows DEF Meaning
<1> QED
  BY <1>1, <1>2, ReviewedInvInit, ReviewedInvNext, PTL
     DEF Spec, ReviewedReleasesAreAppendOnly, Space!Spec
------------------------------------------------------------------------------
(* Types *)

\* As long as the update is not through there is an inventory whose turn it is.
LEMMA TurnIsUpdating ==
  ASSUME updating \subseteq Paths, updating # {}
  PROVE  Turn \in updating
<1> DEFINE Positions == {i \in DOMAIN Inventories : Inventories[i] \in updating}
<1>1. Inventories \in Seq(Paths)
  BY InventoryAssumption
<1>2. Positions \in SUBSET Nat /\ DOMAIN Inventories = 1..Len(Inventories)
  BY <1>1
<1>3. Positions # {}
  BY DEF Paths, Range
<1>4. PICK i \in Positions : \A j \in Positions : i <= j
  BY <1>2, <1>3, LeastNatural
<1>5. \A j \in 1..(i - 1) : Inventories[j] \notin updating
  BY <1>1, <1>2, <1>4
<1>6. Inventories[i] \in updating
  OBVIOUS
<1> QED
  BY <1>5, <1>6 DEF Turn

\* What load_entries accepts is something a contributor can write, and the
\* tool can lock it.
LEMMA LoadedCanBeLocked ==
  ASSUME TypeOK, NEW p \in Paths, Loads(inventory[p])
  PROVE  LockedForms(inventory[p]) \in Locks
BY DEF TypeOK, Trees, Tree, Loads, Locks

\* Contributors write contents, the tool locks of contents, and an update works
\* off inventories that exist.
THEOREM TypeCorrect == Spec => []TypeOK
<1> USE DEF Tree, Trees
<1>1. Init => TypeOK
  BY InventoryAssumption DEF Init, TypeOK, Locks
<1>2. TypeOK /\ [Next]_vars => TypeOK'
  <2> SUFFICES ASSUME TypeOK, [Next]_vars PROVE TypeOK'
    OBVIOUS
  <2> USE DEF TypeOK
  <2>1. ASSUME NEW p \in Paths, EditInventory(p) PROVE TypeOK'
    <3>1. inventory' \in [Paths -> {Absent, Malformed} \cup Contents] /\ edits' \in 0..MaxEdits
      BY <2>1, InventoryAssumption DEF EditInventory, Edit
    <3> QED
      BY <2>1, <3>1 DEF EditInventory, Locks
  <2>2. ASSUME NEW p \in Paths, EditLock(p) PROVE TypeOK'
    <3>1. lock' \in [Paths -> Locks] /\ edits' \in 0..MaxEdits
      BY <2>2, InventoryAssumption DEF EditLock, Edit, Locks
    <3> QED
      BY <2>2, <3>1 DEF EditLock, Locks
  <2>3. CASE MoveRoot
    BY <2>3, InventoryAssumption DEF MoveRoot, Edit, Locks
  <2>4. CASE StartUpdate
    BY <2>4 DEF StartUpdate, Discovered, Locks
  <2>5. CASE UpdateNext
    <3>1. lock' \in [Paths -> Locks]
      <4>1. Turn \in Paths
        BY <2>5, TurnIsUpdating DEF UpdateNext
      <4>2. Loads(inventory[Turn]) => LockedForms(inventory[Turn]) \in Locks
        BY <4>1, LoadedCanBeLocked
      <4> QED
        BY <2>5, <4>1, <4>2 DEF UpdateNext
    <3> QED
      BY <2>5, <3>1 DEF UpdateNext, Locks
  <2>6. CASE UpdateDies
    BY <2>6 DEF UpdateDies, Locks
  <2>7. CASE Release
    BY <2>7 DEF Release, Locks
  <2>8. CASE UNCHANGED vars
    BY <2>8 DEF vars, Locks
  <2> QED
    BY <2>1, <2>2, <2>3, <2>4, <2>5, <2>6, <2>7, <2>8 DEF Next
<1> QED
  BY <1>1, <1>2, PTL DEF Spec
==============================================================================
