------------------------- MODULE SnapshotLedgerProofs -------------------------
(***************************************************************************)
(* What is proved of SnapshotLedger when one process uses the ledger, for  *)
(* all providers, editions and tolerances, any number of attempts, crashes *)
(* and accidents: a readable ledger is complete, accepted editions do not  *)
(* shrink, and every step is one of AcceptedLog.  (Two processes do not    *)
(* keep this promise; see the run ledger_race.)                            *)
(***************************************************************************)
EXTENDS SnapshotLedger, TLAPS

\* Accept is called by one process at a time.
Alone == \A a, b \in Procs : a = b

------------------------------------------------------------------------------
(* The inductive invariant, in named parts *)

\* A process in accept has a snapshot.
HasSnapshot == \A a \in Procs : pc[a] # "idle" => snapshot[a] # Missing

\* Under whom the ledger was replaced: he had read it, and it is empty now.
OvertakenInAccept ==
  \A a \in overtaken : pc[a] \in {"truncate", "write"} /\ Readable /\ history = <<>>

\* A process that is not overtaken has read what is accepted, and has the ledger
\* to itself while it writes.
UndisturbedAccept ==
  \A a \in Procs \ overtaken :
    /\ pc[a] \in {"truncate", "write"} => loaded[a] = history
    /\ pc[a] = "write" => ledger = Torn

\* What was compared is acceptable after what was read, overtaken or not.
AcceptInStep ==
  \A a \in Procs :
    /\ pc[a] \in {"load", "truncate"} => Readable
    /\ pc[a] = "load" => AcceptableAfter(snapshot[a], history)
    /\ pc[a] \in {"truncate", "write"} =>
         AcceptableAfter(snapshot[a], loaded[a]) /\ NoShrink(loaded[a])

IInv ==
  /\ TypeOK /\ HasSnapshot
  /\ ReadableLedgerIsComplete
  /\ OvertakenInAccept /\ UndisturbedAccept /\ AcceptInStep
  /\ AcceptedEditionsDoNotShrink

------------------------------------------------------------------------------
(* Lemmas about the operators *)

\* The parts of the assumption that typing needs.
LEMMA ConstantTypes ==
  /\ MaxTries \in Nat /\ MaxMishaps \in Nat
  /\ Tolerance \in 0..100
  /\ \A e \in Editions : e.size \in Nat
  /\ Missing # Torn /\ Missing # NotAList /\ Torn # NotAList
  /\ Missing \notin Editions /\ Missing \notin Snapshots
BY LedgerAssumption

\* No sequence of snapshots is taken for a file that is missing or unreadable.
LEMMA SentinelsAreNoLedgers ==
  ASSUME NEW s \in Seq(Snapshots)
  PROVE  s # Missing /\ s # Torn /\ s # NotAList
BY LedgerAssumption

\* A snapshot declares a size.
LEMMA SnapshotSizes ==
  ASSUME NEW s \in Snapshots
  PROVE  s.size \in Nat
BY ConstantTypes DEF Snapshots, SnapshotOf

\* Only the last edition of a provider matters, said as the ledger finds it and
\* as the abstract log does.
LEMMA FollowsIsAcceptable ==
  ASSUME NEW s \in Snapshots, NEW entries \in Seq(Snapshots)
  PROVE  Abstract!Follows(s, entries) <=> AcceptableAfter(s, entries)
<1>1. \A i \in DOMAIN entries :
        WithinTolerance(s.size, entries[i].size)
          <=> entries[i].size * (100 - Tolerance) <= s.size * 100
  <2> SUFFICES ASSUME NEW i \in DOMAIN entries
               PROVE  WithinTolerance(s.size, entries[i].size)
                        <=> entries[i].size * (100 - Tolerance) <= s.size * 100
    OBVIOUS
  <2>1. entries[i] \in Snapshots
    OBVIOUS
  <2>2. entries[i].size \in Nat /\ s.size \in Nat /\ 100 - Tolerance \in Nat
    BY <2>1, SnapshotSizes, ConstantTypes
  <2>3. /\ entries[i].size * (100 - Tolerance) = (100 - Tolerance) * entries[i].size
        /\ s.size * 100 = 100 * s.size
    BY <2>2
  <2> QED
    BY <2>2, <2>3 DEF WithinTolerance
<1>2. \A i \in DOMAIN entries :
        i \in Latest(s.provider, entries)
          <=> ~(\/ entries[i].provider # s.provider
                \/ \E j \in DOMAIN entries : i < j /\ entries[j].provider = s.provider)
  BY DEF Latest
<1>3. Latest(s.provider, entries) \subseteq DOMAIN entries
  BY DEF Latest
<1> QED
  BY <1>1, <1>2, <1>3 DEF AcceptableAfter, Abstract!Follows

\* Appending an edition that is acceptable keeps the tolerance from one edition
\* of a provider to its next.
LEMMA AppendingKeepsTolerance ==
  ASSUME NEW entries \in Seq(Snapshots), NoShrink(entries),
         NEW s \in Snapshots, AcceptableAfter(s, entries)
  PROVE  NoShrink(Append(entries, s))
<1> DEFINE n == Len(entries)
           longer == Append(entries, s)
<1> SUFFICES ASSUME NEW i \in DOMAIN longer, NEW j \in DOMAIN longer,
                    i < j, longer[i].provider = longer[j].provider,
                    \A k \in (i + 1)..(j - 1) : longer[k].provider # longer[j].provider
             PROVE  WithinTolerance(longer[j].size, longer[i].size)
  BY DEF NoShrink
<1>1. /\ DOMAIN entries = 1..n /\ DOMAIN longer = 1..(n + 1) /\ n \in Nat
      /\ \A k \in 1..n : longer[k] = entries[k]
      /\ longer[n + 1] = s
  OBVIOUS
<1> HIDE DEF longer
<1>2. i \in 1..n
  BY <1>1
<1>3. CASE j \in 1..n
  <2>1. \A k \in (i + 1)..(j - 1) : entries[k].provider # entries[j].provider
    BY <1>1, <1>2, <1>3
  <2> QED
    BY <1>1, <1>2, <1>3, <2>1 DEF NoShrink
<1>4. CASE j = n + 1
  <2>1. \A k \in DOMAIN entries : i < k => entries[k].provider # s.provider
    BY <1>1, <1>2, <1>4
  <2>2. i \in Latest(s.provider, entries)
    BY <1>1, <1>2, <1>4, <2>1 DEF Latest
  <2> QED
    BY <1>1, <1>2, <1>4, <2>2 DEF AcceptableAfter
<1> QED
  BY <1>1, <1>3, <1>4

------------------------------------------------------------------------------
(* Type correctness, for any number of processes *)

\* The initial state is well typed.
LEMMA TypeInit == Init => TypeOK /\ HasSnapshot
<1> SUFFICES ASSUME Init PROVE TypeOK /\ HasSnapshot
  OBVIOUS
<1>1. /\ file \in [Providers -> {Missing} \cup Editions]
      /\ pc = [a \in Procs |-> "idle"]
      /\ snapshot \in [Procs -> {Missing} \cup Snapshots]
      /\ loaded \in [Procs -> Seq(Snapshots)]
      /\ history \in Seq(Snapshots)
  BY DEF Init
<1>2. tries \in 0..MaxTries /\ mishaps \in 0..MaxMishaps /\ resets \in 0..mishaps
  BY ConstantTypes DEF Init
<1> QED
  BY <1>1, <1>2 DEF Init, TypeOK, HasSnapshot

\* Every step keeps the state well typed: what is read is a list of snapshots,
\* and so is what is written.
LEMMA TypeNext == TypeOK /\ HasSnapshot /\ [Next]_vars => TypeOK' /\ HasSnapshot'
<1> SUFFICES ASSUME TypeOK, HasSnapshot, [Next]_vars PROVE TypeOK' /\ HasSnapshot'
  OBVIOUS
<1> USE DEF TypeOK, HasSnapshot
<1>0. Readable => Entries \in Seq(Snapshots)
  BY DEF Readable, Entries
<1>1. ASSUME NEW a \in Procs, Acquire(a) PROVE TypeOK' /\ HasSnapshot'
  <2>1. PICK p \in Providers, e \in Editions :
          /\ file' = [file EXCEPT ![p] = e]
          /\ snapshot' = [snapshot EXCEPT ![a] = SnapshotOf(p, e)]
    BY <1>1 DEF Acquire
  <2>2. SnapshotOf(p, e) \in Snapshots /\ SnapshotOf(p, e) # Missing
    BY ConstantTypes DEF Snapshots
  <2>3. tries' \in 0..MaxTries
    BY <1>1, ConstantTypes DEF Acquire
  <2> QED
    BY <1>1, <2>1, <2>2, <2>3 DEF Acquire, Goto
<1>2. ASSUME NEW a \in Procs, Retry(a) PROVE TypeOK' /\ HasSnapshot'
  <2>1. tries' \in 0..MaxTries
    BY <1>2, ConstantTypes DEF Retry
  <2> QED
    BY <1>2, <2>1 DEF Retry, Goto
<1>3. ASSUME NEW a \in Procs, Verify(a) \/ Compare(a) PROVE TypeOK' /\ HasSnapshot'
  <2>1. UNCHANGED <<file, ledger, snapshot, loaded, tries, mishaps, overtaken, history, resets>>
    BY <1>3 DEF Verify, Compare
  <2>2. \E label \in {"idle", "compare", "load"} :
          pc[a] # "idle" /\ pc' = [pc EXCEPT ![a] = label]
    BY <1>3 DEF Verify, Compare, Raise, Goto
  <2> QED
    BY <2>1, <2>2
<1>4. ASSUME NEW a \in Procs, Load(a) PROVE TypeOK' /\ HasSnapshot'
  <2>1. loaded' \in [Procs -> Seq(Snapshots)]
    BY <1>0, <1>4 DEF Load
  <2>2. \E label \in {"idle", "truncate"} :
          pc[a] # "idle" /\ pc' = [pc EXCEPT ![a] = label]
    BY <1>4 DEF Load, Raise, Goto
  <2>3. UNCHANGED <<file, ledger, snapshot, tries, mishaps, overtaken, history, resets>>
    BY <1>4 DEF Load
  <2> QED
    BY <2>1, <2>2, <2>3
<1>5. ASSUME NEW a \in Procs, Truncate(a) PROVE TypeOK' /\ HasSnapshot'
  <2>1. history' \in Seq(Snapshots)
    BY <1>5 DEF Truncate
  <2>2. pc[a] # "idle" /\ pc' = [pc EXCEPT ![a] = "write"]
    BY <1>5 DEF Truncate, Goto
  <2>3. overtaken' \subseteq Procs /\ ledger' = Torn
    BY <1>5 DEF Truncate
  <2>4. UNCHANGED <<file, snapshot, loaded, tries, mishaps, resets>>
    BY <1>5 DEF Truncate
  <2> QED
    BY <2>1, <2>2, <2>3, <2>4
<1>6. ASSUME NEW a \in Procs, Write(a) PROVE TypeOK' /\ HasSnapshot'
  <2>1. snapshot[a] \in Snapshots
    BY <1>6 DEF Write
  <2>2. /\ ledger' \in {Missing, Torn, NotAList} \cup Seq(Snapshots)
        /\ history' \in Seq(Snapshots)
    <3>1. CASE a \in overtaken
      BY <1>6, <3>1 DEF Write
    <3>2. CASE a \notin overtaken
      <4>1. loaded[a] \in Seq(Snapshots) /\ history \in Seq(Snapshots)
        OBVIOUS
      <4>2. /\ Append(loaded[a], snapshot[a]) \in Seq(Snapshots)
            /\ Append(history, snapshot[a]) \in Seq(Snapshots)
        BY <2>1, <4>1
      <4>3. /\ ledger' = Append(loaded[a], snapshot[a])
            /\ history' = Append(history, snapshot[a])
        BY <1>6, <3>2 DEF Write, Appended
      <4> QED
        BY <4>2, <4>3
    <3> QED
      BY <3>1, <3>2
  <2>3. loaded' \in [Procs -> Seq(Snapshots)] /\ overtaken' \subseteq Procs
    BY <1>6 DEF Write
  <2>4. pc' = [pc EXCEPT ![a] = "idle"]
    BY <1>6 DEF Write, Goto
  <2>5. UNCHANGED <<file, snapshot, tries, mishaps, resets>>
    BY <1>6 DEF Write
  <2> QED
    BY <2>2, <2>3, <2>4, <2>5
<1>7. ASSUME Mishap PROVE mishaps' \in 0..MaxMishaps /\ mishaps' = mishaps + 1
  BY <1>7, ConstantTypes DEF Mishap
<1>8. ASSUME NEW a \in Procs, Crash(a) PROVE TypeOK' /\ HasSnapshot'
  <2>1. loaded' \in [Procs -> Seq(Snapshots)] /\ overtaken' \subseteq Procs
    BY <1>8 DEF Crash
  <2>2. resets' \in 0..mishaps'
    BY <1>7, <1>8 DEF Crash
  <2> QED
    BY <1>7, <1>8, <2>1, <2>2 DEF Crash, Goto
<1>9. ASSUME NEW p \in Providers, DamageFile(p) PROVE TypeOK' /\ HasSnapshot'
  <2>1. resets' \in 0..mishaps'
    BY <1>7, <1>9 DEF DamageFile
  <2> QED
    BY <1>7, <1>9, <2>1 DEF DamageFile
<1>10. CASE TamperWithLedger
  <2>1. resets' \in 0..mishaps'
    BY <1>7, <1>10 DEF TamperWithLedger
  <2>2. history' \in Seq(Snapshots) /\ overtaken' \subseteq Procs
    BY <1>10 DEF TamperWithLedger
  <2> QED
    BY <1>7, <1>10, <2>1, <2>2 DEF TamperWithLedger
<1>11. CASE UNCHANGED vars
  BY <1>11 DEF vars
<1> QED
  BY <1>1, <1>2, <1>3, <1>4, <1>5, <1>6, <1>8, <1>9, <1>10, <1>11 DEF Next

\* Every reachable state is well typed, whatever the number of processes: no
\* interleaving of them writes anything but snapshots into the ledger.
THEOREM TypeCorrect == Spec => []TypeOK
<1>1. Spec => [](TypeOK /\ HasSnapshot)
  BY TypeInit, TypeNext, PTL DEF Spec
<1> QED
  BY <1>1, PTL

------------------------------------------------------------------------------
(* The inductive invariant *)

\* There is no ledger, nothing is accepted and nobody is in accept.
LEMMA IInvInit == Init => IInv
<1> SUFFICES ASSUME Init PROVE IInv
  OBVIOUS
<1>1. ReadableLedgerIsComplete /\ AcceptedEditionsDoNotShrink
  BY DEF Init, ReadableLedgerIsComplete, Entries, AcceptedEditionsDoNotShrink, NoShrink
<1>2. OvertakenInAccept /\ UndisturbedAccept /\ AcceptInStep
  BY DEF Init, OvertakenInAccept, UndisturbedAccept, AcceptInStep
<1> QED
  BY <1>1, <1>2, TypeInit DEF IInv

\* What a snapshot may follow does not change with the state around it.
LEMMA JudgementIsStable ==
  ASSUME NEW entries, NoShrink(entries), history' = entries
  PROVE  AcceptedEditionsDoNotShrink'
BY DEF AcceptedEditionsDoNotShrink, NoShrink, WithinTolerance

\* Steps that leave ledger, history and what the process read alone keep the
\* invariant as long as they do not go on in accept beyond the comparison.
LEMMA QuietSteps ==
  ASSUME IInv, TypeOK', HasSnapshot',
         UNCHANGED <<ledger, history>>,
         \A a \in Procs :
           \/ pc'[a] \in {"idle", "verify", "compare"} /\ a \notin overtaken'
           \/ UNCHANGED <<pc[a], snapshot[a], loaded[a]>> /\ (a \in overtaken' <=> a \in overtaken)
  PROVE  IInv'
<1>1. ReadableLedgerIsComplete' /\ AcceptedEditionsDoNotShrink'
  BY DEF IInv, ReadableLedgerIsComplete, Readable, Entries, AcceptedEditionsDoNotShrink,
     NoShrink, WithinTolerance
<1>2. OvertakenInAccept'
  BY DEF IInv, TypeOK, OvertakenInAccept, Readable
<1>3. UndisturbedAccept'
  BY DEF IInv, UndisturbedAccept
<1>4. AcceptInStep'
  BY DEF IInv, AcceptInStep, Readable, AcceptableAfter, Latest, NoShrink, WithinTolerance
<1> QED
  BY <1>1, <1>2, <1>3, <1>4 DEF IInv

\* With one process every step keeps the invariant: what was compared and read
\* is still in the ledger when it is written, or an operator started anew.
LEMMA IInvNext ==
  ASSUME Alone
  PROVE  IInv /\ [Next]_vars => IInv'
<1> SUFFICES ASSUME IInv, [Next]_vars PROVE IInv'
  OBVIOUS
<1>0. TypeOK' /\ HasSnapshot'
  BY TypeNext DEF IInv
<1> USE DEF Goto, Raise
<1>1. ASSUME NEW a \in Procs, Acquire(a) \/ Retry(a) \/ Verify(a) \/ Crash(a) PROVE IInv'
  <2>1. UNCHANGED <<ledger, history>>
    BY <1>1 DEF Acquire, Retry, Verify, Crash
  <2>2. pc'[a] \in {"idle", "verify", "compare"}
    BY <1>1 DEF Acquire, Retry, Verify, Crash, IInv, TypeOK
  <2>3. a \notin overtaken'
    BY <1>1 DEF Acquire, Retry, Verify, Crash, IInv, OvertakenInAccept
  <2> QED
    BY <1>0, <2>1, <2>2, <2>3, QuietSteps DEF Alone
<1>2. ASSUME NEW a \in Procs, Compare(a) PROVE IInv'
  <2>1. /\ pc[a] = "compare"
        /\ UNCHANGED <<ledger, history, snapshot, loaded, overtaken>>
    BY <1>2 DEF Compare
  <2>2. overtaken' = {}
    BY <2>1 DEF IInv, TypeOK, OvertakenInAccept, Alone
  <2>3. CASE ~(Readable /\ AcceptableAfter(snapshot[a], Entries))
    <3>1. pc'[a] = "idle"
      BY <1>2, <2>3 DEF Compare, IInv, TypeOK
    <3> QED
      BY <1>0, <2>1, <2>2, <3>1, QuietSteps DEF Alone
  <2>4. CASE Readable /\ AcceptableAfter(snapshot[a], Entries)
    <3>1. pc'[a] = "load"
      BY <1>2, <2>4 DEF Compare, IInv, TypeOK
    <3>2. AcceptableAfter(snapshot[a], history)
      BY <2>4 DEF IInv, ReadableLedgerIsComplete
    <3>3. AcceptInStep'
      BY <2>1, <2>4, <3>1, <3>2 DEF AcceptInStep, Alone, Readable, AcceptableAfter,
         Latest, WithinTolerance
    <3>4. OvertakenInAccept' /\ UndisturbedAccept'
      BY <2>2, <3>1 DEF OvertakenInAccept, UndisturbedAccept, Alone
    <3>5. ReadableLedgerIsComplete' /\ AcceptedEditionsDoNotShrink'
      BY <2>1 DEF IInv, ReadableLedgerIsComplete, Readable, Entries,
         AcceptedEditionsDoNotShrink, NoShrink, WithinTolerance
    <3> QED
      BY <1>0, <3>3, <3>4, <3>5 DEF IInv
  <2> QED
    BY <2>3, <2>4
<1>3. ASSUME NEW a \in Procs, Load(a) PROVE IInv'
  <2>1. /\ pc[a] = "load"
        /\ UNCHANGED <<ledger, history, snapshot, overtaken>>
    BY <1>3 DEF Load
  <2>2. overtaken' = {}
    BY <2>1 DEF IInv, TypeOK, OvertakenInAccept, Alone
  <2>3. /\ Readable /\ Entries = history
        /\ AcceptableAfter(snapshot[a], history) /\ NoShrink(history)
    BY <2>1 DEF IInv, AcceptInStep, ReadableLedgerIsComplete, AcceptedEditionsDoNotShrink
  <2>4. pc'[a] = "truncate" /\ loaded'[a] = history'
    BY <1>3, <2>1, <2>3 DEF Load, IInv, TypeOK
  <2>5. AcceptInStep'
    BY <2>1, <2>3, <2>4 DEF AcceptInStep, Alone, Readable, AcceptableAfter, Latest,
       NoShrink, WithinTolerance
  <2>6. OvertakenInAccept' /\ UndisturbedAccept'
    BY <2>2, <2>4 DEF OvertakenInAccept, UndisturbedAccept, Alone
  <2>7. ReadableLedgerIsComplete' /\ AcceptedEditionsDoNotShrink'
    BY <2>1 DEF IInv, ReadableLedgerIsComplete, Readable, Entries,
       AcceptedEditionsDoNotShrink, NoShrink, WithinTolerance
  <2> QED
    BY <1>0, <2>5, <2>6, <2>7 DEF IInv
<1>4. ASSUME NEW a \in Procs, Truncate(a) PROVE IInv'
  <2>1. /\ pc[a] = "truncate" /\ ledger' = Torn
        /\ history' = IF a \in overtaken THEN loaded[a] ELSE history
        /\ UNCHANGED <<snapshot, loaded>>
    BY <1>4 DEF Truncate
  <2>2. pc'[a] = "write" /\ overtaken' = {}
    BY <1>4 DEF Truncate, IInv, TypeOK, Alone
  <2>3. AcceptableAfter(snapshot[a], loaded[a]) /\ NoShrink(loaded[a])
    BY <2>1 DEF IInv, AcceptInStep
  <2>4. history' = loaded[a]
    BY <2>1 DEF IInv, UndisturbedAccept
  <2>5. AcceptInStep'
    BY <2>1, <2>2, <2>3 DEF AcceptInStep, Alone, AcceptableAfter, Latest, NoShrink,
       WithinTolerance
  <2>6. OvertakenInAccept' /\ UndisturbedAccept'
    BY <2>1, <2>2, <2>4 DEF OvertakenInAccept, UndisturbedAccept, Alone
  <2>7. ReadableLedgerIsComplete'
    BY <2>1 DEF ReadableLedgerIsComplete, Readable
  <2>8. AcceptedEditionsDoNotShrink'
    BY <2>3, <2>4, JudgementIsStable
  <2> QED
    BY <1>0, <2>5, <2>6, <2>7, <2>8 DEF IInv
<1>5. ASSUME NEW a \in Procs, Write(a) PROVE IInv'
  <2>1. pc[a] = "write" /\ pc'[a] = "idle" /\ overtaken' = {}
    BY <1>5 DEF Write, IInv, TypeOK, Alone
  <2>2. CASE a \in overtaken
    <3>1. UNCHANGED <<ledger, history>>
      BY <1>5, <2>2 DEF Write
    <3> QED
      BY <1>0, <2>1, <3>1, QuietSteps DEF Alone
  <2>3. CASE a \notin overtaken
    <3>1. /\ ledger' = Append(loaded[a], snapshot[a])
          /\ history' = Append(history, snapshot[a])
      BY <1>5, <2>3 DEF Write, Appended
    <3>2. /\ loaded[a] = history /\ history \in Seq(Snapshots)
          /\ snapshot[a] \in Snapshots
          /\ AcceptableAfter(snapshot[a], history) /\ NoShrink(history)
      BY <2>1, <2>3 DEF IInv, AcceptInStep, UndisturbedAccept, TypeOK, HasSnapshot
    <3>3. ledger' = history' /\ ledger' \in Seq(Snapshots)
      BY <3>1, <3>2
    <3>4. ReadableLedgerIsComplete'
      BY <3>3, SentinelsAreNoLedgers DEF ReadableLedgerIsComplete, Readable, Entries
    <3>5. AcceptedEditionsDoNotShrink'
      BY <3>1, <3>2, AppendingKeepsTolerance, JudgementIsStable
    <3>6. OvertakenInAccept' /\ UndisturbedAccept' /\ AcceptInStep'
      BY <2>1 DEF OvertakenInAccept, UndisturbedAccept, AcceptInStep, Alone
    <3> QED
      BY <1>0, <3>4, <3>5, <3>6 DEF IInv
  <2> QED
    BY <2>2, <2>3
<1>6. ASSUME NEW p \in Providers, DamageFile(p) PROVE IInv'
  BY <1>0, <1>6, QuietSteps DEF DamageFile
<1>7. CASE TamperWithLedger
  <2>1. /\ ledger' \in {Missing, NotAList} /\ history' = <<>>
        /\ overtaken' = {a \in Procs : pc[a] \in {"truncate", "write"}}
        /\ UNCHANGED <<pc, snapshot, loaded>>
    BY <1>7 DEF TamperWithLedger
  <2>2. Readable'
    BY <2>1, ConstantTypes DEF Readable
  <2>3. OvertakenInAccept' /\ UndisturbedAccept'
    BY <2>1, <2>2 DEF OvertakenInAccept, UndisturbedAccept
  <2>4. AcceptInStep'
    BY <2>1, <2>2 DEF IInv, AcceptInStep, AcceptableAfter, Latest, NoShrink, WithinTolerance
  <2>5. ReadableLedgerIsComplete' /\ AcceptedEditionsDoNotShrink'
    BY <2>1 DEF ReadableLedgerIsComplete, Entries, AcceptedEditionsDoNotShrink, NoShrink
  <2> QED
    BY <1>0, <2>3, <2>4, <2>5 DEF IInv
<1>8. CASE UNCHANGED vars
  BY <1>0, <1>8, QuietSteps DEF vars
<1> QED
  BY <1>1, <1>2, <1>3, <1>4, <1>5, <1>6, <1>7, <1>8 DEF Next

\* The inductive invariant holds throughout.
THEOREM Invariance ==
  ASSUME Alone
  PROVE  Spec => []IInv
<1>1. IInv /\ [Next]_vars => IInv'
  BY IInvNext
<1> QED
  BY <1>1, IInvInit, PTL DEF Spec

------------------------------------------------------------------------------
(* The safety properties *)

\* With one process a ledger that can be read lists what accept returned, all
\* of it and in order, whatever crashed, was retried or was tampered with.
THEOREM CompleteLedger ==
  ASSUME Alone
  PROVE  Spec => []ReadableLedgerIsComplete
<1>1. IInv => ReadableLedgerIsComplete
  BY DEF IInv
<1> QED
  BY <1>1, Invariance, PTL

\* With one process no accepted edition is smaller than the tolerance allows
\* after the one of its provider that was accepted before it.
THEOREM NoAcceptedShrink ==
  ASSUME Alone
  PROVE  Spec => []AcceptedEditionsDoNotShrink
<1>1. IInv => AcceptedEditionsDoNotShrink
  BY DEF IInv
<1> QED
  BY <1>1, Invariance, PTL

------------------------------------------------------------------------------
(* The refinement *)

\* A readable ledger is the log; otherwise the only writer has it in memory.
LEMMA LogOfWriter ==
  ASSUME Alone, NEW a \in Procs, pc[a] = "write", ~Readable
  PROVE  Log = loaded[a]
<1>1. Writers = {a}
  BY DEF Alone, Writers
<1> QED
  BY <1>1 DEF Log

\* The abstract log begins empty.
LEMMA InitImplements == Init => Abstract!Init
<1> SUFFICES ASSUME Init PROVE Log = <<>> /\ Revivable = <<>> /\ resets = 0
  BY DEF Abstract!Init
<1> QED
  BY ConstantTypes DEF Init, Log, Readable, Entries, Revivers, Revivable

\* Every step is an append of an acceptable snapshot, a visible loss, a reset by
\* an operator, the undoing of one, or leaves the log as it is.
LEMMA NextImplements ==
  ASSUME Alone, IInv, IInv', [Next]_vars
  PROVE  [Abstract!Next]_<<Log, Revivable, resets>>
<1> USE DEF Goto, Raise
<1>1. ASSUME NEW a \in Procs,
             Acquire(a) \/ Retry(a) \/ Verify(a) \/ Compare(a) \/ Load(a)
      PROVE  UNCHANGED <<Log, Revivable, resets>>
  <2>1. /\ UNCHANGED <<ledger, overtaken, resets>>
        /\ pc[a] \notin {"truncate", "write"} /\ pc'[a] # "write"
    BY <1>1 DEF Acquire, Retry, Verify, Compare, Load, IInv, TypeOK
  <2>2. Writers = {} /\ Writers' = {}
    BY <2>1 DEF Writers, Alone
  <2>3. overtaken = {}
    BY <2>1 DEF IInv, TypeOK, OvertakenInAccept, Alone
  <2>4. Revivable = <<>> /\ Revivable' = <<>>
    BY <2>1, <2>3 DEF Revivers, Revivable
  <2> QED
    BY <2>1, <2>2, <2>4 DEF Log, Readable, Entries
<1>2. ASSUME NEW a \in Procs, Truncate(a)
      PROVE  Abstract!Undo \/ UNCHANGED <<Log, Revivable, resets>>
  <2>1. /\ pc[a] = "truncate" /\ ledger' = Torn
        /\ UNCHANGED <<loaded, resets>>
    BY <1>2 DEF Truncate
  <2>2. pc'[a] = "write" /\ Writers' = {a} /\ overtaken' = {}
    BY <1>2 DEF Truncate, IInv, TypeOK, Writers, Alone
  <2>3. Readable /\ Log = history
    BY <2>1 DEF IInv, AcceptInStep, ReadableLedgerIsComplete, Log
  <2>4. Log' = loaded[a] /\ Revivable' = <<>>
    BY <2>1, <2>2 DEF Log, Readable, Revivers, Revivable
  <2>5. CASE a \notin overtaken
    <3>1. loaded[a] = history
      BY <2>1, <2>5 DEF IInv, UndisturbedAccept
    <3>2. Revivers = {}
      BY <2>5 DEF IInv, TypeOK, Revivers, Alone
    <3> QED
      BY <2>1, <2>3, <2>4, <3>1, <3>2 DEF Revivable
  <2>6. CASE a \in overtaken
    <3>1. history = <<>>
      BY <2>6 DEF IInv, OvertakenInAccept
    <3>2. Revivers = {a}
      BY <2>1, <2>6 DEF IInv, TypeOK, Revivers, Alone
    <3>3. Revivable = loaded[a]
      BY <3>2 DEF Revivable
    <3> QED
      BY <2>1, <2>3, <2>4, <3>1, <3>3 DEF Abstract!Undo
  <2> QED
    BY <2>5, <2>6
<1>3. ASSUME NEW a \in Procs, Write(a)
      PROVE  Abstract!Accept \/ UNCHANGED <<Log, Revivable, resets>>
  <2>1. /\ pc[a] = "write" /\ pc'[a] = "idle"
        /\ UNCHANGED resets
    BY <1>3 DEF Write, IInv, TypeOK
  <2>2. Revivable = <<>> /\ Revivable' = <<>>
    BY <2>1 DEF IInv, TypeOK, Revivers, Revivable, Alone
  <2>3. CASE a \in overtaken
    <3>1. UNCHANGED ledger
      BY <1>3, <2>3 DEF Write
    <3>2. Readable
      BY <2>3 DEF IInv, OvertakenInAccept
    <3> QED
      BY <2>1, <2>2, <3>1, <3>2 DEF Log, Readable, Entries
  <2>4. CASE a \notin overtaken
    <3>1. ledger' = Append(loaded[a], snapshot[a])
      BY <1>3, <2>4 DEF Write, Appended
    <3>2. /\ loaded[a] = history /\ history \in Seq(Snapshots)
          /\ snapshot[a] \in Snapshots
          /\ AcceptableAfter(snapshot[a], history)
          /\ ledger = Torn
      BY <2>1, <2>4 DEF IInv, AcceptInStep, UndisturbedAccept, TypeOK, HasSnapshot
    <3>3. Log = history
      BY <2>1, <3>2, LogOfWriter DEF Readable
    <3>4. ledger' \in Seq(Snapshots)
      BY <3>1, <3>2
    <3>5. Log' = Append(Log, snapshot[a])
      BY <3>1, <3>2, <3>3, <3>4, SentinelsAreNoLedgers DEF Log, Readable, Entries
    <3>6. Abstract!Follows(snapshot[a], Log)
      BY <3>2, <3>3, FollowsIsAcceptable
    <3> QED
      BY <2>1, <2>2, <3>2, <3>3, <3>5, <3>6, SentinelsAreNoLedgers DEF Abstract!Accept
  <2> QED
    BY <2>3, <2>4
<1>4. ASSUME NEW a \in Procs, Crash(a)
      PROVE  Abstract!Lose \/ Abstract!Forget
  <2>1. UNCHANGED <<ledger, resets>> /\ pc'[a] = "idle"
    BY <1>4 DEF Crash, IInv, TypeOK
  <2>2. Writers' = {} /\ Revivable' = <<>>
    BY <2>1 DEF Writers, Revivers, Revivable, IInv, TypeOK, Alone
  <2>3. CASE Readable
    <3>1. Log' = Log
      BY <2>1, <2>3 DEF Log, Readable, Entries
    <3> QED
      BY <2>1, <2>2, <3>1 DEF Abstract!Forget
  <2>4. CASE ~Readable
    <3>1. Log' = Torn
      BY <2>1, <2>2, <2>4 DEF Log, Readable
    <3> QED
      BY <2>1, <2>2, <3>1 DEF Abstract!Lose
  <2> QED
    BY <2>3, <2>4
<1>5. ASSUME NEW p \in Providers, DamageFile(p) PROVE UNCHANGED <<Log, Revivable, resets>>
  BY <1>5 DEF DamageFile, Log, Readable, Entries, Writers, Revivers, Revivable
<1>6. CASE TamperWithLedger
  <2>1. /\ ledger' \in {Missing, NotAList} /\ resets' = resets + 1
        /\ overtaken' = {a \in Procs : pc[a] \in {"truncate", "write"}}
        /\ UNCHANGED <<pc, loaded>>
    BY <1>6 DEF TamperWithLedger
  <2>2. Log' = <<>>
    BY <2>1, ConstantTypes DEF Log, Readable, Entries
  <2>3. Revivable' \in {<<>>, Revivable} \cup ({Log} \ {Torn})
    <3>1. CASE \A a \in Procs : pc[a] # "truncate"
      BY <2>1, <3>1 DEF Revivers, Revivable
    <3>2. ASSUME NEW a \in Procs, pc[a] = "truncate"
          PROVE  Revivable' \in {<<>>, Revivable} \cup ({Log} \ {Torn})
      <4>1. Revivers' = {a}
        BY <2>1, <3>2 DEF Revivers, Alone
      <4>2. Revivable' = loaded[a]
        BY <2>1, <4>1 DEF Revivable
      <4>3. CASE a \in overtaken
        <5>1. Revivers = {a}
          BY <3>2, <4>3 DEF Revivers, IInv, TypeOK, Alone
        <5> QED
          BY <4>2, <5>1 DEF Revivable
      <4>4. CASE a \notin overtaken
        <5>1. /\ Readable /\ Entries = history /\ loaded[a] = history
              /\ history \in Seq(Snapshots)
          BY <3>2, <4>4 DEF IInv, AcceptInStep, UndisturbedAccept,
             ReadableLedgerIsComplete, TypeOK
        <5>2. Log = loaded[a] /\ loaded[a] # Torn
          BY <5>1, SentinelsAreNoLedgers DEF Log
        <5> QED
          BY <4>2, <5>2
      <4> QED
        BY <4>3, <4>4
    <3> QED
      BY <3>1, <3>2
  <2> QED
    BY <2>1, <2>2, <2>3 DEF Abstract!Next, Abstract!Reset
<1>7. CASE UNCHANGED vars
  BY <1>7 DEF vars, Log, Readable, Entries, Writers, Revivers, Revivable
<1> QED
  BY <1>1, <1>2, <1>3, <1>4, <1>5, <1>6, <1>7 DEF Next, Abstract!Next

\* With one process the ledger implements the append-only log: nothing it once
\* listed is forgotten, reordered or followed out of tolerance without a loss
\* everybody sees or an operator's hand, whenever that falls.
THEOREM LedgerRefinement ==
  ASSUME Alone
  PROVE  Spec => ImplementsAcceptedLog
<1>1. Init => Abstract!Init
  BY InitImplements
<1>2. IInv /\ IInv' /\ [Next]_vars => [Abstract!Next]_<<Log, Revivable, resets>>
  BY NextImplements
<1>3. Spec => []IInv
  BY Invariance
<1> QED
  BY <1>1, <1>2, <1>3, PTL DEF Spec, ImplementsAcceptedLog, Abstract!Spec
==============================================================================
