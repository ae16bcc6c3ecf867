---------------------------- MODULE InventoryLock ----------------------------
(***************************************************************************)
(* tools/inventory_lock.py: the append-only guard of ruleset inventories.  *)
(*                                                                         *)
(* Contributors edit inventories and lockfiles at will; "update" rewrites  *)
(* the lockfiles one inventory after the other and may stop half-way; a    *)
(* tree is released only when "check" exits 0 on it (pre-commit and CI).   *)
(* A released index is the position of an entry, so what matters is how    *)
(* one released tree differs from the next.                                *)
(***************************************************************************)
EXTENDS Naturals, Sequences, FiniteSets, Functions

CONSTANTS
  Inventories,  \* sequence of the *.yaml paths in sorted order
  Entries,      \* inventory entries: [id, addr, note]
  Contents,     \* the sequences of entries a contributor may write
  Absent,       \* a file that does not exist
  Malformed,    \* a file its loader refuses
  MaxEdits      \* bound on the contributors' edits in a behaviour

Paths == Range(Inventories)

\* What a lockfile keeps of an entry: its id, and the fingerprint of its
\* address-relevant fields.  Descriptive fields (note) are not hashed.
LockedForm(entry) == [id |-> entry.id, fingerprint |-> entry.addr]

LockedForms(entries) == [i \in DOMAIN entries |-> LockedForm(entries[i])]

ASSUME InventoryAssumption ==
  /\ Inventories \in Seq(Paths)
  /\ \A e \in Entries : {"id", "addr", "note"} \subseteq DOMAIN e
  /\ Contents \subseteq Seq(Entries)
  /\ \A c \in Contents : c \notin {Absent, Malformed}
  /\ \A c \in Contents : LockedForms(c) \notin {Absent, Malformed}
  /\ <<>> \notin {Absent, Malformed}
  /\ Absent # Malformed
  /\ MaxEdits \in Nat

VARIABLES
  rooted,     \* the configured root is where the inventories are
  inventory,  \* path -> content of the YAML
  lock,       \* path -> content of the sibling .lock.json
  updating,   \* the inventories a running update has still to lock
  released,   \* the tree that was released last
  reviewed,   \* the release a user who reviews releases has taken over last
  edits       \* contributors' edits so far, for MaxEdits

vars == <<rooted, inventory, lock, updating, released, reviewed, edits>>

Tree == [rooted |-> rooted, inventory |-> inventory, lock |-> lock]

------------------------------------------------------------------------------
(* The tool *)

\* load_entries: a list of mappings with distinct ids, or ValueError.
Loads(content) ==
  /\ content \notin {Absent, Malformed}
  /\ \A i, j \in DOMAIN content : content[i].id = content[j].id => i = j

\* load_lock and the first checks of compare: there is a lockfile, it is a JSON
\* object of the right schema, and its entries are a list.
LockLoads(content) == content \notin {Absent, Malformed}

\* discover: a missing root is no error, it holds nothing.
Discovered(tree) ==
  IF tree.rooted THEN {p \in Paths : tree.inventory[p] # Absent} ELSE {}

\* Wrong forms of Breaches: only the ids are compared, or only the positions
\* that both sequences have.
IdBreaches(entries, locked) ==
  {i \in DOMAIN locked : i \notin DOMAIN entries \/ entries[i].id # locked[i].id}
CommonBreaches(entries, locked) ==
  {i \in DOMAIN locked \cap DOMAIN entries : LockedForm(entries[i]) # locked[i]}

\* compare: the locked positions that the entries no longer honour.
Breaches(entries, locked) ==
  {i \in DOMAIN locked : i \notin DOMAIN entries \/ LockedForm(entries[i]) # locked[i]}

\* run_check exits 0.
CheckPasses(tree) ==
  \A p \in Discovered(tree) :
    /\ Loads(tree.inventory[p])
    /\ LockLoads(tree.lock[p])
    /\ Breaches(tree.inventory[p], tree.lock[p]) = {}

------------------------------------------------------------------------------
(* Refinement: the address space of the reviewed releases *)

Meaning(tree) ==
  [p \in Paths |-> IF tree.inventory[p] = Absent THEN Absent ELSE LockedForms(tree.inventory[p])]

Space == INSTANCE AddressSpace WITH Unborn <- Absent, space <- Meaning(reviewed)

\* The diff of p's lockfile only adds lines.
LockOnlyGrew(p, old, new) == Space!Extends(new.lock[p], old.lock[p])

\* What no lockfile diff shows and check does not ask: every inventory the tool
\* could see it can still see, ...
NothingGone(old, new) ==
  /\ old.rooted /\ new.rooted
  /\ Discovered(old) \subseteq Discovered(new)

\* ... and there is no entry that waits for an update.
LockedInFull(tree) ==
  \A p \in Discovered(tree) : DOMAIN tree.lock[p] = DOMAIN tree.inventory[p]

\* A review of the release tree, of which the lockfile diffs (CONTRIBUTING.md)
\* are the last part only.
Reviewed(old, new) ==
  /\ NothingGone(old, new)
  /\ LockedInFull(new)
  /\ \A p \in Discovered(old) : LockOnlyGrew(p, old, new)

------------------------------------------------------------------------------
Init ==
  /\ rooted = TRUE
  /\ inventory = [p \in Paths |-> Absent]
  /\ lock = [p \in Paths |-> Absent]
  /\ updating = {}
  /\ released = Tree
  /\ reviewed = Tree
  /\ edits = 0

Edit ==
  /\ edits < MaxEdits
  /\ edits' = edits + 1

\* An inventory is created, rewritten in any way, broken or deleted.
EditInventory(p) ==
  /\ Edit
  /\ \E c \in ({Absent, Malformed} \cup Contents) \ {inventory[p]} :
       inventory' = [inventory EXCEPT ![p] = c]
  /\ UNCHANGED <<rooted, lock, updating, released, reviewed>>

\* A lockfile is deleted, damaged, or emptied of its entries.
EditLock(p) ==
  /\ Edit
  /\ \E l \in {Absent, Malformed, <<>>} \ {lock[p]} : lock' = [lock EXCEPT ![p] = l]
  /\ UNCHANGED <<rooted, inventory, updating, released, reviewed>>

\* The configured root is changed to a directory that does not exist, or back.
MoveRoot ==
  /\ Edit
  /\ rooted' = ~rooted
  /\ UNCHANGED <<inventory, lock, updating, released, reviewed>>

\* run_update lists the inventories once ...
StartUpdate ==
  /\ updating = {}
  /\ updating' = Discovered(Tree)
  /\ updating' # {}
  /\ UNCHANGED <<rooted, inventory, lock, released, reviewed, edits>>

\* The inventory whose turn it is: the list is sorted.
Turn ==
  CHOOSE p \in updating :
    \E i \in DOMAIN Inventories :
      Inventories[i] = p /\ \A j \in 1..(i - 1) : Inventories[j] \notin updating

\* Wrong form of UpdateNext: the entries are locked as they are.
UpdateNextRaw ==
  /\ updating # {}
  /\ Loads(inventory[Turn])
  /\ lock' = [lock EXCEPT ![Turn] = inventory[Turn]]
  /\ updating' = updating \ {Turn}
  /\ UNCHANGED <<rooted, inventory, released, reviewed, edits>>

\* ... and overwrites their locks one by one, whatever was locked before.
UpdateNext ==
  /\ updating # {}
  /\ \/ /\ Loads(inventory[Turn])
        /\ lock' = [lock EXCEPT ![Turn] = LockedForms(inventory[Turn])]
        /\ updating' = updating \ {Turn}
     \* A load error ends the update; the locks written so far stay.
     \/ /\ ~Loads(inventory[Turn])
        /\ updating' = {}
        /\ UNCHANGED lock
  /\ UNCHANGED <<rooted, inventory, released, reviewed, edits>>

\* The process dies, between two locks or while it writes one.
UpdateDies ==
  /\ updating # {}
  /\ lock' \in {lock, [lock EXCEPT ![Turn] = Malformed]}
  /\ updating' = {}
  /\ UNCHANGED <<rooted, inventory, released, reviewed, edits>>

\* The tree is committed and passes the gate.  Who reviews a release compares
\* it with the one taken over last, and takes it over if nothing speaks
\* against it; releases that fail the review are skipped.
Release ==
  /\ CheckPasses(Tree)
  /\ released # Tree
  /\ released' = Tree
  /\ reviewed' = IF Reviewed(reviewed, Tree) THEN Tree ELSE reviewed
  /\ UNCHANGED <<rooted, inventory, lock, updating, edits>>

Next ==
  \/ \E p \in Paths : EditInventory(p) \/ EditLock(p)
  \/ MoveRoot \/ StartUpdate \/ UpdateNext \/ UpdateDies \/ Release

Spec == Init /\ [][Next]_vars

\* The same with lockfiles that nothing but the tool ever writes.
NextWithToolLocks ==
  \/ \E p \in Paths : EditInventory(p)
  \/ MoveRoot \/ StartUpdate \/ UpdateNext \/ UpdateDies \/ Release

ToolLocksSpec == Init /\ [][NextWithToolLocks]_vars

------------------------------------------------------------------------------
(* Properties *)

Locks == {Absent, Malformed, <<>>} \cup {LockedForms(c) : c \in Contents}

Trees == [rooted : BOOLEAN,
          inventory : [Paths -> {Absent, Malformed} \cup Contents],
          lock : [Paths -> Locks]]

TypeOK ==
  /\ Tree \in Trees
  /\ released \in Trees
  /\ reviewed \in Trees
  /\ updating \subseteq Paths
  /\ edits \in 0..MaxEdits

\* The lockfile diff is the reviewable artifact: in an inventory that both of
\* two successive releases show to the tool, whatever was edited or half-updated
\* in between, a position the old lock covers means the same entry unless the
\* lock's diff shows otherwise.  It says nothing of an inventory that was
\* deleted beside its unchanged lock: CheckFailsOnRemoval does.
LockedPositionsKeepTheirMeaning ==
  [][released' # released =>
       \A p \in Discovered(released) \cap Discovered(released') :
         LockOnlyGrew(p, released, released') =>
         \A i \in DOMAIN released.lock[p] :
           /\ i \in DOMAIN released'.inventory[p]
           /\ LockedForm(released'.inventory[p][i]) = LockedForm(released.inventory[p][i])]_vars

\* What it takes, beside a check that exits 0, for the releases a user takes
\* over to be an append-only address space, whatever happens between them:
\* lockfile diffs that only add, and two things these diffs do not show, that
\* nothing the tool could see is gone and that every entry is locked.
ReviewedReleasesAreAppendOnly == Space!Spec

\* What the module's description promises of check: it "fails on removal".  If
\* it did, a released inventory whose lock is still there would not disappear.
CheckFailsOnRemoval ==
  [][released' # released =>
       \A p \in Discovered(released) :
         released'.lock[p] = released.lock[p] => released'.inventory[p] # Absent]_vars
==============================================================================
