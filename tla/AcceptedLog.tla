----------------------------- MODULE AcceptedLog -----------------------------
(***************************************************************************)
(* What SnapshotLedger promises its callers: an append-only log of the     *)
(* snapshots accepted, none of which shrank inexplicably since the last    *)
(* one of its provider.  The log may be lost, for everybody to see, and    *)
(* only an operator starts a new one; an accept that read the old log      *)
(* before may still bring it back, as it was.                              *)
(***************************************************************************)
EXTENDS Naturals, Sequences

CONSTANTS
  Snapshots,  \* [provider, size, ...]
  Shrink,     \* how much an edition may shrink, in percent
  Lost        \* a log nobody can read any more

VARIABLES
  log,     \* a sequence of snapshots, or Lost
  undo,    \* the log an accept under way may bring back, <<>> if none
  resets   \* how often an operator started anew

\* The size of s is at least (100 - Shrink)% of the one accepted before it.
Follows(s, entries) ==
  \A i \in DOMAIN entries :
    \/ entries[i].provider # s.provider
    \/ \E j \in DOMAIN entries : i < j /\ entries[j].provider = s.provider
    \/ entries[i].size * (100 - Shrink) <= s.size * 100

Init == log = <<>> /\ undo = <<>> /\ resets = 0

Accept ==
  /\ log # Lost
  /\ \E s \in Snapshots : Follows(s, log) /\ log' = Append(log, s)
  /\ undo' = <<>>
  /\ UNCHANGED resets

Lose == log' = Lost /\ undo' = <<>> /\ UNCHANGED resets

\* The operator starts anew; what was there may be in somebody's memory.
Reset ==
  /\ log' = <<>>
  /\ undo' \in {<<>>, undo} \cup ({log} \ {Lost})
  /\ resets' = resets + 1

Undo ==
  /\ undo # <<>>
  /\ log' = undo
  /\ undo' = <<>>
  /\ UNCHANGED resets

\* The accept that could have brought the old log back is dead.
Forget == undo' = <<>> /\ UNCHANGED <<log, resets>>

Next == Accept \/ Lose \/ Reset \/ Undo \/ Forget

Spec == Init /\ [][Next]_<<log, undo, resets>>
==============================================================================
