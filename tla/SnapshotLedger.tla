---------------------------- MODULE SnapshotLedger ---------------------------
(***************************************************************************)
(* services/corpus/snapshot.py: SnapshotLedger.accept and what it calls.   *)
(*                                                                         *)
(* A process acquires an edition of a source, checks the file against what *)
(* the snapshot declares, compares its size with the last accepted edition *)
(* and rewrites the ledger.  The ledger is read twice and rewritten whole, *)
(* first emptied and then filled, without a lock; the process may die      *)
(* between any two of these steps.                                         *)
(***************************************************************************)
EXTENDS Naturals, Sequences, FiniteSets

CONSTANTS
  Procs,        \* processes that acquire and accept
  Providers,    \* sources that share the ledger
  Editions,     \* what an acquisition can yield: [size, hash]
  Tolerance,    \* DEFAULT_SHRINK_TOLERANCE, in percent
  Missing,      \* a file that does not exist
  Torn,         \* a ledger that is not JSON: emptied, not yet filled
  NotAList,     \* a ledger that is JSON, but not a list
  MaxTries,     \* bound on acquisitions and retries in a behaviour
  MaxMishaps    \* bound on crashes, damaged files and ledger accidents

SnapshotOf(p, e) == [provider |-> p, size |-> e.size, hash |-> e.hash]

Snapshots == {SnapshotOf(p, e) : p \in Providers, e \in Editions}

ASSUME LedgerAssumption ==
  /\ \A e \in Editions : e.size \in Nat
  /\ Tolerance \in 0..100
  /\ Missing \notin {Torn, NotAList} /\ Torn # NotAList
  /\ Missing \notin Editions \cup Snapshots
  /\ Missing \notin Seq(Snapshots) /\ Torn \notin Seq(Snapshots)
  /\ NotAList \notin Seq(Snapshots)
  /\ MaxTries \in Nat /\ MaxMishaps \in Nat

VARIABLES
  file,      \* provider -> edition at the snapshot's location
  ledger,    \* the ledger file: a sequence of snapshots, or unreadable
  pc,        \* process -> where it is in accept
  snapshot,  \* process -> the snapshot it wants accepted
  loaded,    \* process -> the entries record() read
  tries, mishaps,
  overtaken, \* processes under whom the ledger was replaced since they read
             \* it for the second time, or since they opened it to write
  \* Auxiliary.
  history,   \* what the ledger should list: what accept recorded since an
             \* operator last started anew
  resets     \* how often an operator did

vars == <<file, ledger, pc, snapshot, loaded, tries, mishaps, overtaken, history, resets>>

------------------------------------------------------------------------------
(* What the ledger file says *)

\* _load raises on what is not JSON ...
Readable == ledger # Torn

\* ... and takes a missing ledger, or one that is not a list, for no history.
Entries == IF ledger \in {Missing, NotAList} THEN <<>> ELSE ledger

\* Where latest finds the last entry of a provider: one position, or none.
Latest(provider, entries) ==
  {i \in DOMAIN entries :
     /\ entries[i].provider = provider
     /\ \A j \in DOMAIN entries : i < j => entries[j].provider # provider}

\* Wrong form of WithinTolerance: the sizes are swapped.
SwappedTolerance(size, previous) == 100 * previous >= (100 - Tolerance) * size

\* validate_against_previous refuses size < previous * (1 - tolerance).
WithinTolerance(size, previous) == 100 * size >= (100 - Tolerance) * previous

\* Wrong form of AcceptableAfter: it looks at the provider's first entry.
AcceptableAfterFirst(s, entries) ==
  \A i \in DOMAIN entries :
    (entries[i].provider = s.provider /\ \A j \in 1..(i - 1) : entries[j].provider # s.provider)
      => WithinTolerance(s.size, entries[i].size)

\* latest and validate_against_previous: a first snapshot passes.
AcceptableAfter(s, entries) ==
  \A i \in Latest(s.provider, entries) : WithinTolerance(s.size, entries[i].size)

------------------------------------------------------------------------------
Init ==
  /\ file = [p \in Providers |-> Missing]
  /\ ledger = Missing
  /\ pc = [a \in Procs |-> "idle"]
  /\ snapshot = [a \in Procs |-> Missing]
  /\ loaded = [a \in Procs |-> <<>>]
  /\ tries = 0 /\ mishaps = 0
  /\ overtaken = {} /\ history = <<>> /\ resets = 0

Goto(a, label) == pc' = [pc EXCEPT ![a] = label]

\* An error reaches the caller, who gives this snapshot up.
Raise(a) == Goto(a, "idle")

\* acquire writes the file, whatever was there, and describes it.
Acquire(a) ==
  /\ pc[a] = "idle"
  /\ tries < MaxTries
  /\ tries' = tries + 1
  /\ \E p \in Providers, e \in Editions :
       /\ file' = [file EXCEPT ![p] = e]
       /\ snapshot' = [snapshot EXCEPT ![a] = SnapshotOf(p, e)]
  /\ Goto(a, "verify")
  /\ UNCHANGED <<ledger, loaded, mishaps, overtaken, history, resets>>

\* The caller tries the snapshot it has once more, whether accept failed, died
\* or succeeded without the caller getting to know.
Retry(a) ==
  /\ pc[a] = "idle" /\ snapshot[a] # Missing
  /\ tries < MaxTries
  /\ tries' = tries + 1
  /\ Goto(a, "verify")
  /\ UNCHANGED <<file, ledger, snapshot, loaded, mishaps, overtaken, history, resets>>

\* verify_integrity: the file exists and has the declared size and hash.
Verify(a) ==
  /\ pc[a] = "verify"
  /\ LET s == snapshot[a]
     IN  IF file[s.provider] = [size |-> s.size, hash |-> s.hash]
           THEN Goto(a, "compare")
           ELSE Raise(a)
  /\ UNCHANGED <<file, ledger, snapshot, loaded, tries, mishaps, overtaken, history, resets>>

Compare(a) ==
  /\ pc[a] = "compare"
  /\ IF Readable /\ AcceptableAfter(snapshot[a], Entries)
       THEN Goto(a, "load")
       ELSE Raise(a)
  /\ UNCHANGED <<file, ledger, snapshot, loaded, tries, mishaps, overtaken, history, resets>>

\* record reads the ledger again ...
Load(a) ==
  /\ pc[a] = "load"
  /\ IF Readable
       THEN loaded' = [loaded EXCEPT ![a] = Entries] /\ Goto(a, "truncate")
       ELSE Raise(a) /\ UNCHANGED loaded
  /\ UNCHANGED <<file, ledger, snapshot, tries, mishaps, overtaken, history, resets>>

\* ... and write_text opens it, which empties or creates it, before it writes.
\* If an operator replaced the ledger since it was read, what he removed is on
\* its way back.
Truncate(a) ==
  /\ pc[a] = "truncate"
  /\ ledger' = Torn
  /\ history' = IF a \in overtaken THEN loaded[a] ELSE history
  /\ overtaken' = overtaken \ {a}
  /\ Goto(a, "write")
  /\ UNCHANGED <<file, snapshot, loaded, tries, mishaps, resets>>

\* Wrong forms of Appended: the provider is not written, or only the entries
\* of its own provider are.
AppendedAnonymous(entries, s) == Append(entries, [size |-> s.size, hash |-> s.hash])
AppendedAlone(entries, s) ==
  Append(SelectSeq(entries, LAMBDA e : e.provider = s.provider), s)

\* What record appends to the entries it read.
Appended(entries, s) == Append(entries, s)

\* What is written goes to the file that was opened.  If that was replaced
\* since, nobody will read it there.
Write(a) ==
  /\ pc[a] = "write"
  /\ IF a \in overtaken
       THEN UNCHANGED <<ledger, history>>
       ELSE /\ ledger' = Appended(loaded[a], snapshot[a])
            /\ history' = Append(history, snapshot[a])
  /\ overtaken' = overtaken \ {a}
  /\ loaded' = [loaded EXCEPT ![a] = <<>>]
  /\ Goto(a, "idle")
  /\ UNCHANGED <<file, snapshot, tries, mishaps, resets>>

Mishap ==
  /\ mishaps < MaxMishaps
  /\ mishaps' = mishaps + 1

\* The process dies and its memory with it.
Crash(a) ==
  /\ Mishap
  /\ pc[a] # "idle"
  /\ Goto(a, "idle")
  /\ loaded' = [loaded EXCEPT ![a] = <<>>]
  /\ overtaken' = overtaken \ {a}
  /\ UNCHANGED <<file, ledger, snapshot, tries, history, resets>>

\* The downloaded file is deleted or replaced.
DamageFile(p) ==
  /\ Mishap
  /\ \E e \in ({Missing} \cup Editions) \ {file[p]} : file' = [file EXCEPT ![p] = e]
  /\ UNCHANGED <<ledger, pc, snapshot, loaded, tries, overtaken, history, resets>>

\* An operator removes the ledger, or moves a file that is no list into its
\* place, at any time: between the two reads, between reading and opening, and
\* while it is open.
TamperWithLedger ==
  /\ Mishap
  /\ ledger' \in {Missing, NotAList} \ {ledger}
  /\ overtaken' = {a \in Procs : pc[a] \in {"truncate", "write"}}
  /\ history' = <<>> /\ resets' = resets + 1
  /\ UNCHANGED <<file, pc, snapshot, loaded, tries>>

Next ==
  \/ \E a \in Procs :
       \/ Acquire(a) \/ Retry(a) \/ Verify(a) \/ Compare(a) \/ Load(a)
       \/ Truncate(a) \/ Write(a) \/ Crash(a)
  \/ \E p \in Providers : DamageFile(p)
  \/ TamperWithLedger

Spec == Init /\ [][Next]_vars

------------------------------------------------------------------------------
(* Properties *)

TypeOK ==
  /\ file \in [Providers -> {Missing} \cup Editions]
  /\ ledger \in {Missing, Torn, NotAList} \cup Seq(Snapshots)
  /\ pc \in [Procs -> {"idle", "verify", "compare", "load", "truncate", "write"}]
  /\ snapshot \in [Procs -> {Missing} \cup Snapshots]
  /\ loaded \in [Procs -> Seq(Snapshots)]
  /\ tries \in 0..MaxTries
  /\ mishaps \in 0..MaxMishaps
  /\ overtaken \subseteq Procs
  /\ history \in Seq(Snapshots)
  /\ resets \in 0..mishaps

\* A ledger that can be read tells the whole truth: it lists exactly what
\* accept recorded since an operator last started anew.  A crash may lose it,
\* visibly; it never forgets quietly.
ReadableLedgerIsComplete == Readable => Entries = history

\* From one edition of a source to the next the size falls by no more than the
\* tolerance, however many editions of other sources lie between.
NoShrink(entries) ==
  \A i, j \in DOMAIN entries :
    /\ i < j
    /\ entries[i].provider = entries[j].provider
    /\ \A k \in (i + 1)..(j - 1) : entries[k].provider # entries[j].provider
    => WithinTolerance(entries[j].size, entries[i].size)

\* No accepted edition shrank, whatever attempts and crashes lay between it and
\* the one before: a ledger torn by a crash stops further accepts instead of
\* turning the next snapshot into a first one.  (After an operator's reset a
\* first one it is.)
AcceptedEditionsDoNotShrink == NoShrink(history)

(***************************************************************************)
(* The log the ledger file stands for.  While write_text has the file      *)
(* emptied it is still what its writer read; when the writer is dead it is *)
(* lost.  A process that read the ledger before it was replaced will write *)
(* what it read, and so bring it back.                                     *)
(***************************************************************************)
Writers == {a \in Procs : pc[a] = "write"}

Log == IF Readable THEN Entries
       ELSE IF Writers # {} THEN loaded[CHOOSE a \in Writers : TRUE] ELSE Torn

Revivers == {a \in overtaken : pc[a] = "truncate"}

Revivable == IF Revivers # {} THEN loaded[CHOOSE a \in Revivers : TRUE] ELSE <<>>

Abstract == INSTANCE AcceptedLog
            WITH Shrink <- Tolerance, Lost <- Torn, log <- Log, undo <- Revivable

\* With one process, every interleaving of crashes, retries and an operator who
\* removes or replaces the ledger with the two reads and the two halves of the
\* write is an append, a visible loss, an operator's reset, or the undoing of
\* one by the accept that was under way when it happened: nothing is forgotten,
\* reordered or accepted out of tolerance otherwise.
ImplementsAcceptedLog == Abstract!Spec

\* The ledger is "an append-only record of accepted snapshots, one entry per
\* acquisition": when every process is done and something was accepted, the
\* ledger can be read and holds what was accepted.
AcceptedStaysRecorded ==
  (\A a \in Procs : pc[a] = "idle") /\ history # <<>> => Readable /\ Entries = history
==============================================================================
