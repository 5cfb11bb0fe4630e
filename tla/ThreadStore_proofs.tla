------------------------- MODULE ThreadStore_proofs -------------------------
(***************************************************************************)
(* Theorems about ThreadStore: its types, the bound of its logs and the    *)
(* bound of what torn appends may cost, for every choice of faults; that   *)
(* acknowledged updates are read back, and that the store implements       *)
(* ThreadRegister, when a cut append loses bytes of the record (and not    *)
(* just its newline) and ends the daemon.                                  *)
(***************************************************************************)
EXTENDS ThreadStore, TLAPS, FiniteSetTheorems, NaturalsInduction, WellFoundedInduction

(* A nonempty set of indices has a largest element. *)
LEMMA LargestExists ==
    ASSUME NEW n \in Nat, NEW S \in SUBSET (1..n), S # {}
    PROVE  \E i \in S : \A j \in S : j <= i
  <1> DEFINE T == {n - i : i \in S}
             R == OpToRel(<, Nat)
  <1>1. \A i \in S : i \in Nat /\ n - i \in Nat
    BY Z3
  <1>2. T \in SUBSET Nat /\ T # {}
    <2>1. T \subseteq Nat
      BY <1>1
    <2>2. PICK i \in S : TRUE
      OBVIOUS
    <2>3. n - i \in T
      BY <2>2
    <2> QED
      BY <2>1, <2>3
  <1>3. \A x, y \in Nat : ~(<<y, x>> \in R) => x <= y
    BY DEF OpToRel
  <1>4. IsWellFoundedOn(R, Nat)
    BY NatLessThanWellFounded
  <1> HIDE DEF R
  <1>5. PICK d \in T : \A e \in T : ~(<<e, d>> \in R)
    BY <1>2, <1>4, WFMin
  <1>6. \A e \in T : d <= e
    BY <1>2, <1>3, <1>5
  <1>7. PICK i \in S : d = n - i
    BY <1>5
  <1>8. ASSUME NEW j \in S PROVE j <= i
    <2>1. n - j \in T
      OBVIOUS
    <2>2. n - i <= n - j
      BY <2>1, <1>6, <1>7
    <2> QED
      BY <2>2, <1>1
  <1> QED
    BY <1>7, <1>8

-----------------------------------------------------------------------------
(* What readThread makes of a log. *)

(* The snapshot of a log is its last valid line. *)
LEMMA WinnerIsLast ==
    ASSUME NEW f \in Log, IsReadable(f)
    PROVE  /\ Winner(f) \in 1..Len(f.lines)
           /\ f.lines[Winner(f)] # Fragment
           /\ \A j \in ValidLines(f) : j <= Winner(f)
  <1>1. Len(f.lines) \in Nat
    BY DEF Log
  <1>2. ValidLines(f) \in SUBSET (1..Len(f.lines)) /\ ValidLines(f) # {}
    BY DEF ValidLines, IsReadable
  <1>3. \E i \in ValidLines(f) : \A j \in ValidLines(f) : j <= i
    BY <1>1, <1>2, LargestExists
  <1>4. Winner(f) \in ValidLines(f) /\ \A j \in ValidLines(f) : j <= Winner(f)
    BY <1>3 DEF Winner
  <1> QED
    BY <1>4 DEF ValidLines

LEMMA SnapshotIs ==
    ASSUME NEW f \in Log, NEW i \in ValidLines(f), \A j \in ValidLines(f) : j <= i
    PROVE  IsReadable(f) /\ Winner(f) = i /\ Snapshot(f) = f.lines[i]
  <1>1. IsReadable(f)
    BY DEF IsReadable
  <1>2. Winner(f) \in ValidLines(f) /\ i <= Winner(f)
    BY <1>1, WinnerIsLast DEF ValidLines
  <1>3. Winner(f) \in Int /\ i \in Int
    BY <1>2 DEF ValidLines
  <1>4. Winner(f) = i
    BY <1>2, <1>3
  <1> QED
    BY <1>1, <1>4 DEF Snapshot

LEMMA SnapshotType ==
    ASSUME NEW f \in Log
    PROVE  /\ Snapshot(f) \in Nat
           /\ IsReadable(f) <=> Snapshot(f) # NoRecord
           /\ Scanned(f) \in Log
  <1>1. CASE IsReadable(f)
    <2>1. f.lines[Winner(f)] \in Nat \ {0}
      BY <1>1, WinnerIsLast DEF Log, Fragment
    <2>2. Snapshot(f) \in Nat \ {0}
      BY <1>1, <2>1 DEF Snapshot
    <2>3. <<Snapshot(f)>> \in Seq(Nat)
      BY <2>2
    <2> QED
      BY <1>1, <2>2, <2>3 DEF NoRecord, Scanned, Rewritten, Log
  <1>2. CASE ~IsReadable(f)
    BY <1>2 DEF Snapshot, NoRecord, Scanned, IsTorn
  <1> QED
    BY <1>1, <1>2

LEMMA RewrittenIsRead ==
    ASSUME NEW v \in Nat \ {0}
    PROVE  /\ Rewritten(v) \in Log
           /\ IsReadable(Rewritten(v))
           /\ Snapshot(Rewritten(v)) = v
           /\ Len(Rewritten(v).lines) = 1
           /\ Rewritten(v) # NoLog
  <1> DEFINE f == Rewritten(v)
  <1>1. <<v>> \in Seq(Nat) /\ Len(<<v>>) = 1 /\ <<v>>[1] = v
    OBVIOUS
  <1>2. f \in Log /\ f.lines = <<v>>
    BY <1>1 DEF Rewritten, Log
  <1>3. 1 \in ValidLines(f) /\ \A j \in ValidLines(f) : j <= 1
    BY <1>1, <1>2 DEF ValidLines, Fragment
  <1>4. f # NoLog
    BY <1>1 DEF Rewritten, NoLog
  <1> HIDE DEF f
  <1>5. IsReadable(f) /\ Snapshot(f) = f.lines[1]
    BY <1>2, <1>3, SnapshotIs
  <1> QED
    BY <1>1, <1>2, <1>4, <1>5 DEF f

LEMMA NoLogIsNot ==
    NoLog \in Log /\ ~IsReadable(NoLog) /\ Snapshot(NoLog) = NoRecord /\ Len(NoLog.lines) = 0
  <1>1. <<>> \in Seq(Nat) /\ Len(<<>>) = 0
    OBVIOUS
  <1> QED
    BY <1>1 DEF NoLog, Log, IsReadable, ValidLines, Snapshot

(* Appending: to a clean log a line is added, an unfinished line swallows   *)
(* what is appended to it.                                                  *)
LEMMA ExtendedType ==
    ASSUME NEW f \in Log, NEW v \in Nat, NEW open \in BOOLEAN
    PROVE  /\ Extended(f, v, open) \in Log
           /\ Len(Extended(f, v, open).lines) = Len(f.lines) + (IF f.open THEN 0 ELSE 1)
  <1>1. f.lines \in Seq(Nat) /\ Len(f.lines) \in Nat /\ f.open \in BOOLEAN
    BY DEF Log
  <1>2. CASE f.open
    <2> DEFINE kept == [f.lines EXCEPT ![Len(f.lines)] = Fragment]
    <2>1. kept \in Seq(Nat) /\ Len(kept) = Len(f.lines)
      <3> DEFINE n == Len(f.lines)
      <3>1. f.lines \in [1..n -> Nat]
        BY <1>1
      <3>2. kept \in [1..n -> Nat]
        BY <3>1 DEF Fragment
      <3> QED
        BY <1>1, <3>2
    <2>2. Extended(f, v, open) = [lines |-> kept, open |-> open]
      BY <1>2 DEF Extended
    <2> HIDE DEF kept
    <2> QED
      BY <1>1, <1>2, <2>1, <2>2 DEF Log
  <1>3. CASE ~f.open
    <2> DEFINE longer == Append(f.lines, v)
    <2>1. longer \in Seq(Nat) /\ Len(longer) = Len(f.lines) + 1
      BY <1>1
    <2>2. Extended(f, v, open) = [lines |-> longer, open |-> open]
      BY <1>3 DEF Extended
    <2> HIDE DEF longer
    <2> QED
      BY <1>1, <1>3, <2>1, <2>2 DEF Log
  <1> QED
    BY <1>1, <1>2, <1>3

(* A record appended to a clean log is the one that is read back. *)
LEMMA AppendedIsRead ==
    ASSUME NEW f \in Log, ~f.open, NEW v \in Nat \ {0}
    PROVE  /\ Appended(f, v) \in Log
           /\ IsReadable(Appended(f, v))
           /\ Snapshot(Appended(f, v)) = v
           /\ ~Appended(f, v).open
  <1> DEFINE n == Len(f.lines)
             g == Appended(f, v)
  <1>1. n \in Nat /\ f.lines \in Seq(Nat)
    BY DEF Log
  <1>2. g.lines = Append(f.lines, v) /\ g.open = FALSE
    BY DEF Appended, Extended
  <1>3. g \in Log
    BY ExtendedType DEF Appended
  <1>4. Len(g.lines) = n + 1 /\ g.lines[n + 1] = v
    BY <1>1, <1>2
  <1> HIDE DEF g
  <1>5. n + 1 \in ValidLines(g)
    BY <1>1, <1>4 DEF ValidLines, Fragment
  <1>6. \A j \in ValidLines(g) : j <= n + 1
    BY <1>4 DEF ValidLines
  <1>7. IsReadable(g) /\ Snapshot(g) = v
    BY <1>3, <1>4, <1>5, <1>6, SnapshotIs
  <1> QED
    BY <1>2, <1>3, <1>7 DEF g

(* An append that lost bytes of its record changes nothing that is read.    *)
LEMMA FragmentIsSkipped ==
    ASSUME NEW f \in Log, ~f.open, IsReadable(f)
    PROVE  LET g == Extended(f, Fragment, TRUE) IN
           /\ g \in Log
           /\ IsReadable(g)
           /\ Snapshot(g) = Snapshot(f)
           /\ Winner(g) # Len(g.lines)
  <1> DEFINE n == Len(f.lines)
             g == Extended(f, Fragment, TRUE)
  <1>1. n \in Nat /\ f.lines \in Seq(Nat)
    BY DEF Log
  <1>2. g.lines = Append(f.lines, Fragment)
    BY DEF Extended
  <1>3. g \in Log
    BY ExtendedType DEF Fragment
  <1>0. Fragment \in Nat
    BY DEF Fragment
  <1> HIDE DEF g
  <1>4. Len(g.lines) = n + 1 /\ g.lines[n + 1] = Fragment
    BY <1>0, <1>1, <1>2
  <1>5. \A i \in 1..n : g.lines[i] = f.lines[i]
    BY <1>0, <1>1, <1>2
  <1>6. ValidLines(g) = ValidLines(f)
    <2>1. \A i \in 1..n + 1 : i \in 1..n \/ i = n + 1
      BY <1>1
    <2>2. 1..n \subseteq 1..n + 1
      BY <1>1
    <2> QED
      BY <1>4, <1>5, <2>1, <2>2 DEF ValidLines
  <1>7. Winner(f) \in ValidLines(g) /\ \A j \in ValidLines(g) : j <= Winner(f)
    BY <1>6, WinnerIsLast DEF ValidLines
  <1>8. IsReadable(g) /\ Winner(g) = Winner(f) /\ Snapshot(g) = g.lines[Winner(f)]
    BY <1>3, <1>7, SnapshotIs
  <1>9. Winner(f) \in 1..n
    BY WinnerIsLast
  <1>10. Snapshot(g) = Snapshot(f)
    BY <1>5, <1>8, <1>9 DEF Snapshot
  <1>11. Winner(g) # Len(g.lines)
    BY <1>1, <1>4, <1>8, <1>9
  <1> QED
    BY <1>3, <1>8, <1>10, <1>11 DEF g

(* The scan of recover keeps what is read back. *)
LEMMA ScannedKeeps ==
    ASSUME NEW f \in Log
    PROVE  /\ Scanned(f) \in Log
           /\ Snapshot(Scanned(f)) = Snapshot(f)
           /\ IsReadable(Scanned(f)) <=> IsReadable(f)
           /\ Len(Scanned(f).lines) <= Len(f.lines)
           /\ IsReadable(f) => Len(Scanned(f).lines) > 0
  <1>1. Len(f.lines) \in Nat
    BY DEF Log
  <1>2. CASE IsTorn(f)
    <2>1. IsReadable(f) /\ Snapshot(f) \in Nat \ {0}
      BY <1>2, SnapshotType DEF IsTorn, NoRecord
    <2>2. Len(f.lines) >= 1
      BY <1>1, <2>1, WinnerIsLast
    <2>3. Scanned(f) = Rewritten(Snapshot(f))
      BY <1>2 DEF Scanned
    <2>4. Snapshot(Scanned(f)) = Snapshot(f) /\ IsReadable(Scanned(f)) /\ Scanned(f) \in Log
      BY <2>1, <2>3, RewrittenIsRead
    <2>5. Len(Scanned(f).lines) = 1
      BY <2>1, <2>3, RewrittenIsRead
    <2> QED
      BY <1>1, <2>1, <2>2, <2>4, <2>5
  <1>3. CASE ~IsTorn(f)
    <2>1. Scanned(f) = f
      BY <1>3 DEF Scanned
    <2>2. IsReadable(f) => Len(f.lines) > 0
      BY <1>1, WinnerIsLast
    <2> QED
      BY <1>1, <2>1, <2>2
  <1> QED
    BY <1>2, <1>3

-----------------------------------------------------------------------------
(* Types, and the bound of the logs.  While the daemon serves, the count it *)
(* keeps of a log is at most one line behind the file, and only when the    *)
(* last line is unfinished, so that the next append does not add one.       *)

LogFits(t) ==
    /\ Len(log[t].lines) <= CompactThreshold
    /\ counted[t] <= CompactThreshold
    /\ up /\ counted[t] > 0 =>
          \/ Len(log[t].lines) <= counted[t]
          \/ log[t].open /\ Len(log[t].lines) <= counted[t] + 1

FitInv == TypeOK /\ \A t \in Threads : LogFits(t)

LEMMA StoredType ==
    ASSUME TypeOK, NEW t \in Threads, NEW settled \in BOOLEAN
    PROVE  /\ Stored(t, settled) \in Log
           /\ Len(Stored(t, settled).lines) =
                 IF Rewrites(t, settled) THEN 1
                 ELSE Len(log[t].lines) + (IF log[t].open THEN 0 ELSE 1)
  <1>1. log[t] \in Log /\ puts[t] + 1 \in Nat \ {0}
    BY DEF TypeOK
  <1>2. CASE Rewrites(t, settled)
    <2>1. Stored(t, settled) = Rewritten(puts[t] + 1)
      BY <1>2 DEF Stored
    <2> QED
      BY <1>1, <1>2, <2>1, RewrittenIsRead
  <1>3. CASE ~Rewrites(t, settled)
    <2>1. Stored(t, settled) = Extended(log[t], puts[t] + 1, FALSE)
      BY <1>3 DEF Stored, Appended
    <2> QED
      BY <1>1, <1>3, <2>1, ExtendedType
  <1> QED
    BY <1>2, <1>3

LEMMA TornType ==
    ASSUME NEW f \in Log, NEW v \in Nat, NEW g \in Torn(f, v)
    PROVE  /\ g \in Log
           /\ g.open
           /\ Len(g.lines) = Len(f.lines) + (IF f.open THEN 0 ELSE 1)
  <1>1. PICK cut \in Tears : g = Extended(f, IF cut = "newline" THEN v ELSE Fragment, TRUE)
    BY DEF Torn
  <1>2. (IF cut = "newline" THEN v ELSE Fragment) \in Nat
    BY DEF Fragment
  <1>3. PICK w \in Nat : g = Extended(f, w, TRUE)
    BY <1>1, <1>2
  <1>4. g.open
    BY <1>3 DEF Extended
  <1> QED
    BY <1>3, <1>4, ExtendedType

LEMMA MigratedType ==
    ASSUME NEW t \in Threads, log[t] \in Log
    PROVE  /\ Migrated(t) \in Log
           /\ Len(Migrated(t).lines) <= IF Len(log[t].lines) = 0 THEN 1 ELSE Len(log[t].lines)
  <1>1. Rewritten(OldSnapshot) \in Log /\ Len(Rewritten(OldSnapshot).lines) = 1
    BY RewrittenIsRead DEF OldSnapshot
  <1>2. Len(log[t].lines) \in Nat
    BY DEF Log
  <1>3. CASE legacy[t] = "valid" /\ log[t] = NoLog
    <2>1. Migrated(t) = Rewritten(OldSnapshot)
      BY <1>3 DEF Migrated
    <2>2. Len(log[t].lines) = 0
      BY <1>3, NoLogIsNot
    <2>3. Migrated(t) \in Log /\ Len(Migrated(t).lines) = 1
      BY <1>1, <2>1
    <2> HIDE DEF Migrated
    <2> QED
      BY <2>2, <2>3
  <1>4. CASE ~(legacy[t] = "valid" /\ log[t] = NoLog)
    BY <1>2, <1>4 DEF Migrated
  <1> QED
    BY <1>3, <1>4

LEMMA InitFits == Init => FitInv
  <1> SUFFICES ASSUME Init PROVE FitInv
    OBVIOUS
  <1>1. Rewritten(2) \in Log /\ Len(Rewritten(2).lines) = 1
    BY RewrittenIsRead
  <1>2. NoLog \in Log /\ Len(NoLog.lines) = 0
    BY NoLogIsNot
  <1>3. \A t \in Threads : log[t] \in {NoLog, Rewritten(2)}
    BY DEF Init
  <1>4. log \in [Threads -> Log]
    BY <1>1, <1>2 DEF Init
  <1>5. TypeOK
    <2>1. puts \in [Threads -> Nat]
      BY DEF Init
    <2>2. acked \in [Threads -> SUBSET Nat]
      BY DEF Init
    <2>3. mem \in [Threads -> Nat] /\ counted \in [Threads -> Nat] /\ tears \in [Threads -> Nat]
      BY DEF Init, NoRecord
    <2>4. faults \in 0..MaxFaults
      BY StoreAssumption DEF Init
    <2> QED
      BY <1>4, <2>1, <2>2, <2>3, <2>4 DEF Init, TypeOK
  <1>6. ASSUME NEW t \in Threads PROVE LogFits(t)
    <2>1. counted[t] = 0 /\ Len(log[t].lines) \in {0, 1}
      <3>1. CASE log[t] = NoLog
        BY <1>2, <3>1 DEF Init
      <3>2. CASE log[t] = Rewritten(2)
        BY <1>1, <3>2 DEF Init
      <3> QED
        BY <1>3, <3>1, <3>2
    <2>2. Len(log[t].lines) \in Nat
      BY <1>4 DEF Log
    <2>3. Len(log[t].lines) <= CompactThreshold
      <3>1. CompactThreshold \in Nat \ {0}
        BY StoreAssumption
      <3>2. Len(log[t].lines) = 0 \/ Len(log[t].lines) = 1
        BY <2>1
      <3>3. 0 <= CompactThreshold /\ 1 <= CompactThreshold
        BY <3>1
      <3> QED
        BY <3>2, <3>3
    <2> QED
      BY <2>1, <2>3, StoreAssumption DEF LogFits
  <1> QED
    BY <1>5, <1>6 DEF FitInv

(* The file of a Thread after a step that wrote it in an upsert. *)
LEMMA UpsertFits ==
    ASSUME FitInv, NEW t \in Threads, NEW settled \in BOOLEAN, MayUpsert(t)
    PROVE  /\ Len(Stored(t, settled).lines) <= CompactThreshold
           /\ Rewrites(t, settled) => Len(Stored(t, settled).lines) <= 1
           /\ ~Rewrites(t, settled) =>
                 /\ counted[t] > 0 /\ counted[t] < CompactThreshold
                 /\ Len(Stored(t, settled).lines) <= counted[t] + 1
                 /\ \A g \in Torn(log[t], puts[t] + 1) :
                       /\ g \in Log
                       /\ Len(g.lines) <= counted[t] + 1
                       /\ Len(g.lines) <= CompactThreshold
                       /\ g.open
  <1>1. /\ log[t] \in Log /\ counted[t] \in Nat /\ puts[t] + 1 \in Nat
        /\ Len(log[t].lines) \in Nat /\ log[t].open \in BOOLEAN
    BY DEF FitInv, TypeOK, Log
  <1>2. up /\ LogFits(t)
    BY DEF MayUpsert, FitInv
  <1>3. Len(Stored(t, settled).lines) =
           IF Rewrites(t, settled) THEN 1
           ELSE Len(log[t].lines) + (IF log[t].open THEN 0 ELSE 1)
    BY StoredType DEF FitInv
  <1>4. CASE Rewrites(t, settled)
    BY <1>3, <1>4, StoreAssumption
  <1>5. CASE ~Rewrites(t, settled)
    <2>1. counted[t] > 0 /\ counted[t] < CompactThreshold
      BY <1>1, <1>5, StoreAssumption DEF Rewrites
    <2>2. Len(log[t].lines) + (IF log[t].open THEN 0 ELSE 1) <= counted[t] + 1
      <3>1. \/ Len(log[t].lines) <= counted[t]
            \/ log[t].open /\ Len(log[t].lines) <= counted[t] + 1
        BY <1>2, <2>1 DEF LogFits
      <3>2. CASE log[t].open
        BY <1>1, <3>1, <3>2
      <3>3. CASE ~log[t].open
        BY <1>1, <3>1, <3>3
      <3> QED
        BY <3>2, <3>3
    <2>3. counted[t] + 1 <= CompactThreshold
      BY <1>1, <2>1, StoreAssumption
    <2>4. ASSUME NEW g \in Torn(log[t], puts[t] + 1)
          PROVE  /\ g \in Log /\ g.open
                 /\ Len(g.lines) = Len(log[t].lines) + (IF log[t].open THEN 0 ELSE 1)
      BY <1>1, TornType
    <2> DEFINE len == Len(log[t].lines) + (IF log[t].open THEN 0 ELSE 1)
    <2>5. len \in Nat
      <3>1. Len(log[t].lines) + 0 \in Nat /\ Len(log[t].lines) + 1 \in Nat
        BY <1>1
      <3> QED
        BY <3>1
    <2>6. len <= counted[t] + 1 /\ len <= CompactThreshold
      <3>1. CompactThreshold \in Nat
        BY StoreAssumption
      <3>2. len <= counted[t] + 1
        BY <2>2
      <3> HIDE DEF len
      <3> QED
        BY <1>1, <2>3, <2>5, <3>1, <3>2
    <2>7. Len(Stored(t, settled).lines) = len
      BY <1>3, <1>5
    <2>8. \A g \in Torn(log[t], puts[t] + 1) : g \in Log /\ g.open /\ Len(g.lines) = len
      BY <2>4
    <2> HIDE DEF len
    <2> QED
      BY <1>5, <2>1, <2>6, <2>7, <2>8
  <1> QED
    BY <1>4, <1>5

LEMMA DiesType ==
    ASSUME TypeOK, Dies
    PROVE  /\ up' = FALSE
           /\ faults' \in 0..MaxFaults
           /\ mem' \in [Threads -> Nat]
           /\ counted' \in [Threads -> Nat]
           /\ \A u \in Threads : counted'[u] = 0
  BY StoreAssumption DEF TypeOK, Dies, NoRecord

LEMMA MayUpsertType ==
    ASSUME TypeOK, NEW t \in Threads, MayUpsert(t)
    PROVE  up /\ puts' \in [Threads -> Nat]
  BY DEF TypeOK, MayUpsert

LEMMA StepFits == FitInv /\ [Next]_vars => FitInv'
  <1> SUFFICES ASSUME FitInv, [Next]_vars PROVE FitInv'
    OBVIOUS
  <1> USE StoreAssumption
  <1>1. TypeOK /\ \A t \in Threads : LogFits(t)
    BY DEF FitInv
  <1>2. ASSUME NEW t \in Threads, NEW settled \in BOOLEAN, Upsert(t, settled)
        PROVE  FitInv'
    <2>1. Stored(t, settled) \in Log
      BY <1>1, StoredType
    <2>2. TypeOK'
      BY <1>1, <1>2, <2>1 DEF TypeOK, Upsert, MayUpsert
    <2>3. /\ log'[t] = Stored(t, settled)
          /\ counted'[t] = IF Rewrites(t, settled) THEN 1 ELSE counted[t] + 1
          /\ up' = up
      BY <1>1, <1>2 DEF Upsert, TypeOK
    <2>4. LogFits(t)'
      <3>1. MayUpsert(t)
        BY <1>2 DEF Upsert
      <3>2. counted[t] \in Nat
        BY <1>1 DEF TypeOK
      <3>3. Len(Stored(t, settled).lines) \in Nat /\ Stored(t, settled).open \in BOOLEAN
        BY <2>1 DEF Log
      <3> QED
        BY <2>3, <3>1, <3>2, <3>3, UpsertFits DEF LogFits, FitInv
    <2>5. ASSUME NEW u \in Threads, u # t PROVE LogFits(u)'
      <3>1. log'[u] = log[u] /\ counted'[u] = counted[u]
        BY <1>1, <1>2, <2>5 DEF Upsert, TypeOK
      <3> QED
        BY <1>1, <2>3, <3>1 DEF LogFits
    <2> QED
      BY <2>2, <2>4, <2>5 DEF FitInv
  <1>3. ASSUME NEW t \in Threads, NEW settled \in BOOLEAN, UpsertCut(t, settled)
        PROVE  FitInv'
    <2>1. MayUpsert(t) /\ up' = FALSE /\ counted' = [u \in Threads |-> 0]
      BY <1>3 DEF UpsertCut, Dies
    <2>2. /\ log' \in [Threads -> Log]
          /\ tears' \in [Threads -> Nat]
          /\ \A u \in Threads : Len(log'[u].lines) <= CompactThreshold
      <3>1. CASE UNCHANGED <<log, tears>>
        BY <1>1, <3>1 DEF TypeOK, LogFits
      <3>2. CASE log' = [log EXCEPT ![t] = Stored(t, settled)] /\ UNCHANGED tears
        BY <1>1, <2>1, <3>2, StoredType, UpsertFits DEF TypeOK, LogFits, FitInv
      <3>3. CASE TearsAppend(t, settled)
        <4>1. PICK f \in Torn(log[t], puts[t] + 1) : log' = [log EXCEPT ![t] = f]
          BY <3>3 DEF TearsAppend
        <4>2. f \in Log /\ Len(f.lines) <= CompactThreshold
          BY <2>1, <3>3, UpsertFits DEF TearsAppend, FitInv
        <4> QED
          BY <1>1, <3>3, <4>1, <4>2 DEF TypeOK, LogFits, TearsAppend
      <3> QED
        BY <1>3, <3>1, <3>2, <3>3 DEF UpsertCut
    <2>3. TypeOK'
      <3>1. Dies /\ UNCHANGED <<legacy, acked>>
        BY <1>3 DEF UpsertCut
      <3> QED
        BY <1>1, <2>1, <2>2, <3>1, DiesType, MayUpsertType DEF TypeOK
    <2> QED
      BY <2>1, <2>2, <2>3 DEF FitInv, LogFits
  <1>4. ASSUME NEW t \in Threads, NEW settled \in BOOLEAN, UpsertFails(t, settled)
        PROVE  FitInv'
    <2>1. MayUpsert(t) /\ up' = up /\ counted' = counted
      BY <1>4 DEF UpsertFails
    <2>2. CASE UNCHANGED <<log, tears>>
      <3>1. TypeOK'
        BY <1>1, <1>4, <2>2 DEF TypeOK, UpsertFails, MayUpsert
      <3> QED
        BY <1>1, <2>1, <2>2, <3>1 DEF FitInv, LogFits
    <2>3. CASE TearsAppend(t, settled)
      <3>1. PICK f \in Torn(log[t], puts[t] + 1) : log' = [log EXCEPT ![t] = f]
        BY <2>3 DEF TearsAppend
      <3>2. /\ f \in Log /\ f.open
            /\ Len(f.lines) <= CompactThreshold
            /\ Len(f.lines) <= counted[t] + 1
        BY <2>1, <2>3, UpsertFits DEF TearsAppend, FitInv
      <3>3. TypeOK'
        <4>1. log' \in [Threads -> Log]
          BY <1>1, <3>1, <3>2 DEF TypeOK
        <4>2. tears' \in [Threads -> Nat]
          BY <1>1, <2>3 DEF TypeOK, TearsAppend
        <4>3. mem' \in [Threads -> Nat]
          BY <1>1, <1>4 DEF TypeOK, UpsertFails
        <4>4. faults' \in 0..MaxFaults
          BY <1>1, <1>4 DEF TypeOK, UpsertFails
        <4>5. UNCHANGED <<up, legacy, counted, acked>>
          BY <1>4 DEF UpsertFails
        <4> QED
          BY <1>1, <2>1, <4>1, <4>2, <4>3, <4>4, <4>5, MayUpsertType DEF TypeOK
      <3>4. log'[t] = f /\ \A u \in Threads : u # t => log'[u] = log[u]
        BY <1>1, <3>1 DEF TypeOK
      <3>5. ASSUME NEW u \in Threads PROVE LogFits(u)'
        BY <1>1, <2>1, <3>2, <3>4 DEF LogFits
      <3> QED
        BY <3>3, <3>5 DEF FitInv
    <2> QED
      BY <1>4, <2>2, <2>3 DEF UpsertFails
  <1>5. ASSUME NEW t \in Threads, Delete(t) \/ DeleteCut(t)
        PROVE  FitInv'
    <2>1. TypeOK'
      <3>1. /\ log' \in [Threads -> Log]
            /\ acked' \in [Threads -> SUBSET Nat]
            /\ UNCHANGED <<legacy, puts, tears>>
        <4>1. log' = [log EXCEPT ![t] = NoLog] /\ acked' = [acked EXCEPT ![t] = {}]
          BY <1>5 DEF Delete, DeleteCut
        <4>2. UNCHANGED <<legacy, puts, tears>>
          BY <1>5 DEF Delete, DeleteCut
        <4>3. log' \in [Threads -> Log]
          BY <1>1, <4>1, NoLogIsNot DEF TypeOK
        <4>4. {} \in SUBSET Nat
          OBVIOUS
        <4>5. acked' \in [Threads -> SUBSET Nat]
          BY <1>1, <4>1, <4>4 DEF TypeOK
        <4> QED
          BY <4>2, <4>3, <4>5
      <3>2. CASE Delete(t)
        BY <1>1, <3>1, <3>2 DEF TypeOK, Delete, NoRecord
      <3>3. CASE DeleteCut(t)
        BY <1>1, <3>1, <3>3, DiesType DEF TypeOK, DeleteCut
      <3> QED
        BY <1>5, <3>2, <3>3
    <2>2. ASSUME NEW u \in Threads PROVE LogFits(u)'
      <3>1. Len(NoLog.lines) = 0
        BY NoLogIsNot
      <3>2. Len(log'[u].lines) <= CompactThreshold
        <4>1. log' = [log EXCEPT ![t] = NoLog]
          BY <1>5 DEF Delete, DeleteCut
        <4>2. log'[u] = IF u = t THEN NoLog ELSE log[u]
          BY <1>1, <4>1 DEF TypeOK
        <4>3. Len(log[u].lines) <= CompactThreshold
          BY <1>1 DEF LogFits
        <4> QED
          BY <3>1, <4>2, <4>3
      <3>3. counted'[u] = 0 \/ (up' = up /\ log'[u] = log[u] /\ counted'[u] = counted[u])
        BY <1>1, <1>5 DEF TypeOK, Delete, DeleteCut, Dies
      <3> QED
        BY <1>1, <3>2, <3>3 DEF LogFits
    <2> QED
      BY <2>1, <2>2 DEF FitInv
  <1>6. ASSUME NEW u \in Threads
        PROVE  /\ Migrated(u) \in Log /\ Scanned(Migrated(u)) \in Log
               /\ Len(Migrated(u).lines) \in Nat /\ Len(Scanned(Migrated(u)).lines) \in Nat
               /\ Len(Migrated(u).lines) <= CompactThreshold
               /\ Len(Scanned(Migrated(u)).lines) <= CompactThreshold
               /\ Parked(u) \in {"none", "valid", "invalid"}
               /\ Snapshot(Migrated(u)) \in Nat
    <2>1. log[u] \in Log /\ Len(log[u].lines) \in Nat /\ Len(log[u].lines) <= CompactThreshold
      BY <1>1 DEF TypeOK, Log, LogFits
    <2>2. /\ Migrated(u) \in Log
          /\ Len(Migrated(u).lines) <= IF Len(log[u].lines) = 0 THEN 1 ELSE Len(log[u].lines)
      BY <2>1, MigratedType
    <2>3. /\ Scanned(Migrated(u)) \in Log
          /\ Len(Scanned(Migrated(u)).lines) <= Len(Migrated(u).lines)
      BY <2>2, ScannedKeeps
    <2>4. Len(Migrated(u).lines) \in Nat /\ Len(Scanned(Migrated(u)).lines) \in Nat
      BY <2>2, <2>3 DEF Log
    <2>5. Snapshot(Migrated(u)) \in Nat
      BY <2>2, SnapshotType
    <2> QED
      BY <2>1, <2>2, <2>3, <2>4, <2>5 DEF Parked
  <1>7. CASE Recover
    <2>1. TypeOK'
      BY <1>1, <1>6, <1>7 DEF TypeOK, Recover
    <2>2. ASSUME NEW u \in Threads PROVE LogFits(u)'
      <3>1. /\ log'[u] = Scanned(Migrated(u))
            /\ counted'[u] = IF IsReadable(Migrated(u)) THEN Len(log'[u].lines) ELSE 0
        BY <1>7 DEF Recover
      <3>2. log'[u].open \in BOOLEAN
        BY <1>6, <3>1 DEF Log
      <3>3. /\ log'[u] \in Log /\ Len(log'[u].lines) \in Nat
            /\ Len(log'[u].lines) <= CompactThreshold
        BY <1>6, <3>1
      <3>4. counted'[u] \in {0, Len(log'[u].lines)}
        BY <3>1
      <3> QED
        BY <3>2, <3>3, <3>4 DEF LogFits
    <2> QED
      BY <2>1, <2>2 DEF FitInv
  <1>8. CASE RecoverCut
    <2>1. /\ up' = up /\ up = FALSE
          /\ \A u \in Threads : counted'[u] = counted[u]
          /\ \A u \in Threads : log'[u] \in {Scanned(Migrated(u)), Migrated(u), log[u]}
          /\ legacy' \in [Threads -> {"none", "valid", "invalid"}]
          /\ log' \in [Threads -> Log]
      BY <1>1, <1>6, <1>8 DEF RecoverCut, TypeOK
    <2>2. TypeOK'
      BY <1>1, <1>8, <2>1 DEF TypeOK, RecoverCut
    <2>3. ASSUME NEW u \in Threads PROVE LogFits(u)'
      BY <1>1, <1>6, <2>1 DEF LogFits
    <2> QED
      BY <2>2, <2>3 DEF FitInv
  <1>9. CASE UNCHANGED vars
    BY <1>1, <1>9 DEF FitInv, TypeOK, LogFits, vars
  <1>10. CASE Crash
    <2>1. TypeOK'
      BY <1>1, <1>10, DiesType DEF TypeOK, Crash
    <2> QED
      BY <1>1, <1>10, <2>1 DEF FitInv, LogFits, Crash, Dies
  <1> QED
    BY <1>2, <1>3, <1>4, <1>5, <1>7, <1>8, <1>9, <1>10 DEF Next

(* Every variable of the store keeps its type, whatever fails. *)
THEOREM StoreTypeCorrect == Spec => []TypeOK
  <1>1. FitInv => TypeOK
    BY DEF FitInv
  <1> QED
    BY <1>1, InitFits, StepFits, PTL DEF Spec

(* No log outgrows COMPACT_THRESHOLD, fragments of failed appends included. *)
THEOREM BoundedLogs == Spec => []LogIsBounded
  <1>1. FitInv => LogIsBounded
    BY DEF FitInv, LogFits, LogIsBounded
  <1> QED
    BY <1>1, InitFits, StepFits, PTL DEF Spec

-----------------------------------------------------------------------------
(* What is acknowledged is read back.  The invariant says what recover      *)
(* would make of the files, whether or not a daemon runs: a log that is     *)
(* there holds a record; an unfinished last line is a fragment, so that     *)
(* recover rewrites the log; and while the daemon runs no log is            *)
(* unfinished, none waits for migration, and memory shows what is read.     *)

OnlyBytesAreCut == Tears \subseteq {"bytes"} /\ ~WritesMayFail

FilesKept(t) ==
    /\ \A v \in acked[t] : v <= Readable(t)
    /\ Readable(t) <= puts[t]
    /\ log[t] # NoLog => IsReadable(log[t])
    /\ log[t].open => Winner(log[t]) # Len(log[t].lines)

ServingKept(t) ==
    /\ ~log[t].open
    /\ legacy[t] # "valid"
    /\ mem[t] = Readable(t)
    /\ counted[t] > 0 => log[t] # NoLog

KeptInv ==
    /\ TypeOK
    /\ \A t \in Threads : FilesKept(t) /\ (up => ServingKept(t))

LEMMA InitKept == Init => KeptInv
  <1> SUFFICES ASSUME Init PROVE KeptInv
    OBVIOUS
  <1>1. TypeOK /\ up = FALSE
    BY InitFits DEF FitInv, Init
  <1>2. ASSUME NEW t \in Threads PROVE FilesKept(t)
    <2>1. Leftover(t)
      BY DEF Init
    <2>2. NoLog.open = FALSE /\ Rewritten(2).open = FALSE /\ NoLog # Rewritten(2)
      BY RewrittenIsRead DEF NoLog, Rewritten
    <2>3. CASE log[t] = NoLog /\ legacy[t] = "valid"
      <3>1. puts[t] = 1 /\ acked[t] = {1}
        BY <2>1, <2>2, <2>3 DEF Leftover
      <3>2. Readable(t) = 1
        BY <2>3, RewrittenIsRead DEF Readable, Migrated, OldSnapshot
      <3> QED
        BY <2>2, <2>3, <3>1, <3>2 DEF FilesKept
    <2>4. CASE log[t] = NoLog /\ legacy[t] # "valid"
      <3>1. puts[t] \in {0, 1} /\ acked[t] = {}
        BY <2>1, <2>2, <2>4 DEF Leftover
      <3>2. Readable(t) = 0
        BY <2>4, NoLogIsNot DEF Readable, Migrated, NoRecord
      <3> QED
        BY <2>2, <2>4, <3>1, <3>2 DEF FilesKept
    <2>5. CASE log[t] = Rewritten(2)
      <3>1. puts[t] = 2 /\ acked[t] = {1, 2}
        BY <2>1, <2>2, <2>5 DEF Leftover
      <3>2. Readable(t) = 2 /\ IsReadable(log[t])
        BY <2>2, <2>5, RewrittenIsRead DEF Readable, Migrated
      <3> QED
        BY <2>2, <2>5, <3>1, <3>2 DEF FilesKept
    <2> QED
      BY <2>1, <2>3, <2>4, <2>5 DEF Leftover
  <1> QED
    BY <1>1, <1>2 DEF KeptInv

(* What an upsert writes is read back; what it tears is as if not written.  *)
LEMMA StoredIsRead ==
    ASSUME KeptInv, NEW t \in Threads, NEW settled \in BOOLEAN, MayUpsert(t)
    PROVE  /\ Stored(t, settled) \in Log
           /\ IsReadable(Stored(t, settled))
           /\ Snapshot(Stored(t, settled)) = puts[t] + 1
           /\ Stored(t, settled).open = FALSE
           /\ Stored(t, settled) # NoLog
  <1>1. log[t] \in Log /\ puts[t] + 1 \in Nat \ {0} /\ ~log[t].open
    BY DEF KeptInv, TypeOK, MayUpsert, ServingKept
  <1>2. CASE Rewrites(t, settled)
    <2>1. Stored(t, settled) = Rewritten(puts[t] + 1)
      BY <1>2 DEF Stored
    <2>2. Rewritten(puts[t] + 1).open = FALSE
      BY DEF Rewritten
    <2> QED
      BY <1>1, <2>1, <2>2, RewrittenIsRead
  <1>3. CASE ~Rewrites(t, settled)
    <2>1. Stored(t, settled) = Appended(log[t], puts[t] + 1)
      BY <1>3 DEF Stored
    <2>2. Appended(log[t], puts[t] + 1).open = FALSE
      BY DEF Appended, Extended
    <2>3. Appended(log[t], puts[t] + 1) # NoLog
      BY <1>1, AppendedIsRead, NoLogIsNot
    <2> QED
      BY <1>1, <2>1, <2>2, <2>3, AppendedIsRead
  <1> QED
    BY <1>2, <1>3

LEMMA TornIsSkipped ==
    ASSUME OnlyBytesAreCut, KeptInv, NEW t \in Threads, NEW settled \in BOOLEAN,
           MayUpsert(t), ~Rewrites(t, settled), NEW g \in Torn(log[t], puts[t] + 1)
    PROVE  /\ g \in Log
           /\ IsReadable(g)
           /\ Snapshot(g) = Snapshot(log[t])
           /\ Winner(g) # Len(g.lines)
  <1>1. log[t] \in Log /\ counted[t] \in Nat /\ ~log[t].open
    BY DEF KeptInv, TypeOK, MayUpsert, ServingKept
  <1>2. counted[t] > 0
    BY <1>1 DEF Rewrites
  <1>3. IsReadable(log[t])
    BY <1>2 DEF KeptInv, MayUpsert, ServingKept, FilesKept
  <1>4. g = Extended(log[t], Fragment, TRUE)
    BY DEF Torn, OnlyBytesAreCut
  <1> QED
    BY <1>1, <1>3, <1>4, FragmentIsSkipped

(* Steps of recover: what they make of one Thread's files. *)
LEMMA RecoveredIsRead ==
    ASSUME TypeOK, NEW t \in Threads, FilesKept(t)
    PROVE  /\ Migrated(t) \in Log
           /\ Migrated(t) # NoLog => IsReadable(Migrated(t))
           /\ Migrated(t).open => Winner(Migrated(t)) # Len(Migrated(t).lines)
           /\ Scanned(Migrated(t)) \in Log
           /\ Snapshot(Scanned(Migrated(t))) = Readable(t)
           /\ Scanned(Migrated(t)) # NoLog => IsReadable(Scanned(Migrated(t)))
           /\ Scanned(Migrated(t)).open = FALSE
           /\ IsReadable(Migrated(t)) => Scanned(Migrated(t)) # NoLog
           /\ legacy[t] = "valid" => Migrated(t) # NoLog
  <1> DEFINE f == Migrated(t)
  <1>1. log[t] \in Log
    BY DEF TypeOK
  <1>2. f \in Log
    BY <1>1, MigratedType
  <1>3. /\ f # NoLog => IsReadable(f)
        /\ f.open => Winner(f) # Len(f.lines)
        /\ legacy[t] = "valid" => f # NoLog
    <2>1. CASE legacy[t] = "valid" /\ log[t] = NoLog
      <3>1. f = Rewritten(OldSnapshot)
        BY <2>1 DEF Migrated
      <3>2. IsReadable(Rewritten(OldSnapshot)) /\ Rewritten(OldSnapshot) # NoLog
        BY RewrittenIsRead DEF OldSnapshot
      <3>3. Rewritten(OldSnapshot).open = FALSE
        BY DEF Rewritten
      <3> QED
        BY <3>1, <3>2, <3>3
    <2>2. CASE ~(legacy[t] = "valid" /\ log[t] = NoLog)
      <3>1. f = log[t]
        BY <2>2 DEF Migrated
      <3> QED
        BY <2>2, <3>1 DEF FilesKept
    <2> QED
      BY <2>1, <2>2
  <1>4. Readable(t) = Snapshot(f)
    BY DEF Readable
  <1> HIDE DEF f
  <1>5. Scanned(f).open = FALSE
    <2>1. CASE IsTorn(f)
      BY <2>1 DEF Scanned, Rewritten
    <2>2. CASE ~IsTorn(f)
      <3>1. ~f.open
        BY <1>3, <2>2, NoLogIsNot DEF IsTorn, NoLog
      <3>2. f.open \in BOOLEAN
        BY <1>2 DEF Log
      <3> QED
        BY <2>2, <3>1, <3>2 DEF Scanned
    <2> QED
      BY <2>1, <2>2
  <1>6. /\ Scanned(f) \in Log
        /\ Snapshot(Scanned(f)) = Snapshot(f)
        /\ IsReadable(Scanned(f)) <=> IsReadable(f)
    BY <1>2, ScannedKeeps
  <1>7. Scanned(f) # NoLog => IsReadable(Scanned(f))
    <2>1. ~IsReadable(f) => Scanned(f) = f
      BY DEF Scanned, IsTorn
    <2> QED
      BY <1>3, <1>6, <2>1
  <1>8. IsReadable(f) => Scanned(f) # NoLog
    BY <1>6, NoLogIsNot
  <1> QED
    BY <1>2, <1>3, <1>4, <1>5, <1>6, <1>7, <1>8 DEF f

(* A Thread whose log, legacy file and memory a step leaves alone. *)
LEMMA UntouchedKept ==
    ASSUME NEW t \in Threads, FilesKept(t), up => ServingKept(t),
           log'[t] = log[t], legacy'[t] = legacy[t],
           acked'[t] = acked[t], puts'[t] = puts[t],
           up' => up /\ mem'[t] = mem[t] /\ counted'[t] = counted[t]
    PROVE  FilesKept(t)' /\ (up' => ServingKept(t)')
  <1>1. Readable(t)' = Readable(t)
    BY DEF Readable, Migrated
  <1> QED
    BY <1>1 DEF FilesKept, ServingKept

(* The Thread an upsert writes. *)
LEMMA WrittenKept ==
    ASSUME KeptInv, NEW t \in Threads, MayUpsert(t),
           log'[t] \in Log, IsReadable(log'[t]), legacy'[t] = legacy[t],
           log'[t].open => Winner(log'[t]) # Len(log'[t].lines),
           \/ Snapshot(log'[t]) = puts[t] + 1 /\ acked'[t] \subseteq acked[t] \cup {puts[t] + 1}
           \/ Snapshot(log'[t]) = Snapshot(log[t]) /\ acked'[t] = acked[t]
    PROVE  FilesKept(t)' /\ Readable(t)' = Snapshot(log'[t])
  <1>1. /\ legacy[t] # "valid" /\ Readable(t) <= puts[t]
        /\ \A v \in acked[t] : v <= Readable(t)
    BY DEF KeptInv, MayUpsert, ServingKept, FilesKept
  <1>2. Readable(t) = Snapshot(log[t]) /\ Readable(t)' = Snapshot(log'[t])
    BY <1>1 DEF Readable, Migrated
  <1>3. /\ puts[t] \in Nat /\ puts'[t] = puts[t] + 1 /\ acked[t] \in SUBSET Nat
        /\ log[t] \in Log
    BY DEF KeptInv, TypeOK, MayUpsert
  <1>4. Readable(t) \in Nat
    BY <1>2, <1>3, SnapshotType
  <1>5. \A v \in acked'[t] : v <= Readable(t)'
    BY <1>1, <1>2, <1>3, <1>4
  <1>6. Readable(t)' <= puts'[t]
    BY <1>1, <1>2, <1>3, <1>4
  <1> QED
    BY <1>2, <1>5, <1>6 DEF FilesKept

LEMMA StepKept ==
    ASSUME OnlyBytesAreCut
    PROVE  KeptInv /\ TypeOK' /\ [Next]_vars => KeptInv'
  <1> SUFFICES ASSUME KeptInv, TypeOK', [Next]_vars
               PROVE  \A t \in Threads : FilesKept(t)' /\ (up' => ServingKept(t)')
    BY DEF KeptInv
  <1>1. TypeOK /\ \A t \in Threads : FilesKept(t) /\ (up => ServingKept(t))
    BY DEF KeptInv
  <1>2. ASSUME NEW t \in Threads, NEW settled \in BOOLEAN, Upsert(t, settled),
               NEW u \in Threads
        PROVE  FilesKept(u)' /\ (up' => ServingKept(u)')
    <2>1. MayUpsert(t)
      BY <1>2 DEF Upsert
    <2>2. CASE u = t
      <3>1. /\ log'[t] = Stored(t, settled) /\ mem'[t] = puts[t] + 1 /\ legacy' = legacy
            /\ acked'[t] = acked[t] \cup {puts[t] + 1}
        BY <1>1, <1>2 DEF Upsert, TypeOK
      <3>2. FilesKept(t)' /\ Readable(t)' = puts[t] + 1
        BY <2>1, <3>1, StoredIsRead, WrittenKept
      <3>3. legacy[t] # "valid"
        BY <1>1, <2>1 DEF MayUpsert, ServingKept
      <3> QED
        BY <2>1, <2>2, <3>1, <3>2, <3>3, StoredIsRead DEF ServingKept
    <2>3. CASE u # t
      <3>1. /\ log'[u] = log[u] /\ legacy'[u] = legacy[u] /\ acked'[u] = acked[u]
            /\ puts'[u] = puts[u] /\ mem'[u] = mem[u] /\ counted'[u] = counted[u] /\ up' = up
        BY <1>1, <1>2, <2>3 DEF Upsert, MayUpsert, TypeOK
      <3> QED
        BY <1>1, <3>1, UntouchedKept
    <2> QED
      BY <2>2, <2>3
  <1>3. ASSUME NEW t \in Threads, NEW settled \in BOOLEAN, UpsertCut(t, settled),
               NEW u \in Threads
        PROVE  FilesKept(u)' /\ (up' => ServingKept(u)')
    <2>1. MayUpsert(t) /\ up' = FALSE /\ legacy' = legacy /\ acked' = acked
      BY <1>3 DEF UpsertCut, Dies
    <2>2. CASE log' = log \/ u # t
      <3>1. log'[u] = log[u]
        BY <1>1, <1>3, <2>2 DEF UpsertCut, TearsAppend, TypeOK
      <3>2. FilesKept(u) /\ Readable(u)' = Readable(u)
        BY <1>1, <2>1, <3>1 DEF Readable, Migrated
      <3>3. puts[u] \in Nat /\ puts'[u] \in {puts[u], puts[u] + 1}
        BY <1>1, <2>1 DEF MayUpsert, TypeOK
      <3>4. Readable(u) \in Nat
        BY <1>1, RecoveredIsRead, SnapshotType DEF Readable
      <3>5. Readable(u)' <= puts'[u]
        BY <3>2, <3>3, <3>4 DEF FilesKept
      <3> QED
        BY <2>1, <3>1, <3>2, <3>5 DEF FilesKept
    <2>3. CASE u = t /\ log' = [log EXCEPT ![t] = Stored(t, settled)]
      <3>1. log'[t] = Stored(t, settled)
        BY <1>1, <2>3 DEF TypeOK
      <3> QED
        BY <2>1, <2>3, <3>1, StoredIsRead, WrittenKept
    <2>4. CASE u = t /\ TearsAppend(t, settled)
      <3>1. PICK g \in Torn(log[t], puts[t] + 1) : log' = [log EXCEPT ![t] = g]
        BY <2>4 DEF TearsAppend
      <3>2. log'[t] = g /\ ~Rewrites(t, settled)
        BY <1>1, <2>4, <3>1 DEF TypeOK, TearsAppend
      <3> QED
        BY <2>1, <2>4, <3>2, TornIsSkipped, WrittenKept
    <2> QED
      BY <1>3, <2>2, <2>3, <2>4 DEF UpsertCut
  <1>4. ASSUME NEW t \in Threads, Delete(t) \/ DeleteCut(t), NEW u \in Threads
        PROVE  FilesKept(u)' /\ (up' => ServingKept(u)')
    <2>1. up /\ legacy' = legacy /\ puts' = puts
      BY <1>4 DEF Delete, DeleteCut
    <2>2. CASE u = t
      <3>1. log'[t] = NoLog /\ acked'[t] = {} /\ legacy[t] # "valid" /\ puts[t] \in Nat
        BY <1>1, <1>4, <2>1 DEF Delete, DeleteCut, TypeOK, ServingKept
      <3>2. Readable(t)' = NoRecord /\ NoLog.open = FALSE
        BY <2>1, <3>1, NoLogIsNot DEF Readable, Migrated, NoLog
      <3>3. FilesKept(t)'
        BY <2>1, <3>1, <3>2 DEF FilesKept, NoRecord
      <3>4. up' => mem'[t] = NoRecord /\ counted'[t] = 0
        BY <1>1, <1>4 DEF Delete, DeleteCut, Dies, TypeOK
      <3> QED
        BY <2>1, <2>2, <3>1, <3>2, <3>3, <3>4 DEF ServingKept
    <2>3. CASE u # t
      <3>1. log'[u] = log[u] /\ acked'[u] = acked[u]
        BY <1>1, <1>4, <2>3 DEF Delete, DeleteCut, TypeOK
      <3>2. up' => mem'[u] = mem[u] /\ counted'[u] = counted[u]
        BY <1>1, <1>4, <2>3 DEF Delete, DeleteCut, Dies, TypeOK
      <3> QED
        BY <1>1, <2>1, <3>1, <3>2, UntouchedKept
    <2> QED
      BY <2>2, <2>3
  <1>5. ASSUME Crash \/ UNCHANGED vars, NEW u \in Threads
        PROVE  FilesKept(u)' /\ (up' => ServingKept(u)')
    <2>1. /\ UNCHANGED <<log, legacy, puts, acked>>
          /\ up' => up /\ mem' = mem /\ counted' = counted
      BY <1>5 DEF Crash, Dies, vars
    <2> QED
      BY <1>1, <2>1, UntouchedKept
  <1>6. ASSUME Recover, NEW u \in Threads
        PROVE  FilesKept(u)' /\ (up' => ServingKept(u)')
    <2>1. /\ log'[u] = Scanned(Migrated(u)) /\ legacy'[u] = Parked(u)
          /\ mem'[u] = Readable(u) /\ puts' = puts /\ acked' = acked
          /\ counted'[u] # 0 => IsReadable(Migrated(u))
      BY <1>6 DEF Recover, Readable
    <2>2. legacy'[u] # "valid"
      BY <2>1 DEF Parked
    <2>3. Readable(u)' = Readable(u)
      <3>1. Readable(u)' = Snapshot(log'[u])
        BY <2>2 DEF Readable, Migrated
      <3> QED
        BY <1>1, <2>1, <3>1, RecoveredIsRead
    <2>4. FilesKept(u)'
      BY <1>1, <2>1, <2>3, RecoveredIsRead DEF FilesKept
    <2>5. counted'[u] \in Nat
      BY DEF TypeOK
    <2>6. counted'[u] > 0 => log'[u] # NoLog
      <3>1. counted'[u] > 0 => IsReadable(Migrated(u))
        BY <2>1, <2>5
      <3>2. IsReadable(Migrated(u)) => Scanned(Migrated(u)) # NoLog
        BY <1>1, RecoveredIsRead
      <3> QED
        BY <2>1, <3>1, <3>2
    <2> QED
      BY <1>1, <2>1, <2>2, <2>3, <2>4, <2>6, RecoveredIsRead DEF ServingKept
  <1>7. ASSUME RecoverCut, NEW u \in Threads
        PROVE  FilesKept(u)' /\ (up' => ServingKept(u)')
    <2>1. up' = FALSE /\ puts' = puts /\ acked' = acked
      BY <1>7 DEF RecoverCut
    <2>2. \/ log'[u] = Scanned(Migrated(u)) /\ legacy'[u] = Parked(u)
          \/ log'[u] = Migrated(u) /\ legacy'[u] \in {Parked(u), legacy[u]}
          \/ log'[u] = log[u] /\ legacy'[u] = legacy[u]
      BY <1>7 DEF RecoverCut
    <2>3. FilesKept(u)
      BY <1>1
    <2>4. CASE log'[u] = Scanned(Migrated(u)) /\ legacy'[u] = Parked(u)
      <3>1. Readable(u)' = Snapshot(log'[u])
        BY <2>4 DEF Readable, Migrated, Parked
      <3>2. Readable(u)' = Readable(u)
        BY <1>1, <2>4, <3>1, RecoveredIsRead
      <3> QED
        BY <1>1, <2>1, <2>4, <3>2, RecoveredIsRead DEF FilesKept
    <2>5. CASE log'[u] = Migrated(u) /\ legacy'[u] \in {Parked(u), legacy[u]}
      <3>1. legacy'[u] = "valid" => log'[u] # NoLog
        BY <1>1, <2>3, <2>5, RecoveredIsRead DEF Parked
      <3>2. Readable(u)' = Snapshot(log'[u])
        BY <3>1 DEF Readable, Migrated
      <3>3. Readable(u)' = Readable(u)
        BY <2>5, <3>2 DEF Readable
      <3> QED
        BY <1>1, <2>1, <2>3, <2>5, <3>3, RecoveredIsRead DEF FilesKept
    <2>6. CASE log'[u] = log[u] /\ legacy'[u] = legacy[u]
      BY <1>1, <2>1, <2>6, UntouchedKept
    <2> QED
      BY <2>2, <2>4, <2>5, <2>6
  <1>8. ASSUME NEW t \in Threads, NEW settled \in BOOLEAN PROVE ~UpsertFails(t, settled)
    BY DEF UpsertFails, OnlyBytesAreCut
  <1> QED
    BY <1>2, <1>3, <1>4, <1>5, <1>6, <1>7, <1>8 DEF Next

LEMMA SpecKept ==
    ASSUME OnlyBytesAreCut
    PROVE  Spec => []KeptInv
  <1>1. Init => KeptInv
    BY InitKept
  <1>2. KeptInv /\ TypeOK' /\ [Next]_vars => KeptInv'
    BY StepKept
  <1>3. Spec => []TypeOK
    BY StoreTypeCorrect
  <1> QED
    BY <1>1, <1>2, <1>3, PTL DEF Spec

(* An update whose upsert returned is read back, or a later one is, whatever *)
(* the daemon died in meanwhile: torn tails are rewritten before they can    *)
(* swallow the next append.                                                  *)
THEOREM AcknowledgedUpdatesSurvive ==
    ASSUME OnlyBytesAreCut
    PROVE  Spec => []AckedIsReadable
  <1>1. KeptInv => AckedIsReadable
    BY DEF KeptInv, FilesKept, AckedIsReadable
  <1> QED
    BY <1>1, SpecKept, PTL

(* No append of a serving daemon goes to a log with an unfinished line. *)
THEOREM AppendsNeverFuse ==
    ASSUME OnlyBytesAreCut
    PROVE  Spec => []AppendsStartClean
  <1>1. KeptInv => AppendsStartClean
    BY DEF KeptInv, ServingKept, AppendsStartClean
  <1> QED
    BY <1>1, SpecKept, PTL

-----------------------------------------------------------------------------
(* The refinement: what a Thread's register holds is what would be read     *)
(* back from its files, while the daemon runs as well.                      *)

Registered == [t \in Threads |-> IF up THEN mem[t] ELSE Readable(t)]

ShowsFiles ==
    \A t \in Threads :
        /\ Registered[t] = Readable(t)
        /\ Readable(t) \in Nat
        /\ Readable(t) <= puts[t]
        /\ up => mem[t] = Readable(t)

LEMMA RegisteredIsReadable == KeptInv => ShowsFiles
  BY RecoveredIsRead, SnapshotType
     DEF KeptInv, FilesKept, ServingKept, Registered, Readable, ShowsFiles

LEMMA RegisteredStays == KeptInv' => ShowsFiles'
  BY RegisteredIsReadable, PTL

LEMMA RegisterStarts == Init => Register!Init
  <1> SUFFICES ASSUME Init PROVE Register!Init
    OBVIOUS
  <1>1. KeptInv
    BY InitKept
  <1>2. \A t \in Threads : Registered[t] \in Nat /\ Registered[t] <= puts[t]
    BY <1>1, RegisteredIsReadable DEF ShowsFiles
  <1>3. puts \in [Threads -> Nat] /\ up = FALSE
    BY <1>1 DEF KeptInv, TypeOK, Init
  <1>4. Registered \in [Threads -> Nat]
    BY <1>2 DEF Registered
  <1> QED
    BY <1>2, <1>3, <1>4 DEF Register!Init, Registered

(* An upsert that wrote, and one that did not, as steps of the register. *)
LEMMA WriteIsPut ==
    ASSUME KeptInv, KeptInv', NEW t \in Threads, MayUpsert(t),
           \A u \in Threads : u # t => Readable(u)' = Readable(u)
    PROVE  /\ Readable(t)' = puts[t] + 1 => Register!Put(t)
           /\ Readable(t)' = Readable(t) => Register!LostPut(t)
  <1>1. /\ \A u \in Threads : Registered[u] = Readable(u) /\ Registered'[u] = Readable(u)'
        /\ Readable(t) \in Nat /\ Readable(t) <= puts[t] /\ mem[t] = Readable(t)
    BY RegisteredIsReadable, RegisteredStays DEF MayUpsert, ShowsFiles
  <1>2. puts' = [puts EXCEPT ![t] = @ + 1] /\ puts[t] \in Nat
    BY DEF MayUpsert, KeptInv, TypeOK
  <1>3. (Registered[t] = 0 /\ puts[t] = 0) \/ Registered[t] # 0
    BY <1>1 DEF MayUpsert, NoRecord
  <1>4. ASSUME Readable(t)' = puts[t] + 1
        PROVE  Registered' = [Registered EXCEPT ![t] = puts[t] + 1]
    BY <1>1, <1>4 DEF Registered
  <1>5. ASSUME Readable(t)' = Readable(t)
        PROVE  Registered' = Registered
    BY <1>1, <1>5 DEF Registered
  <1> QED
    BY <1>2, <1>3, <1>4, <1>5
       DEF Register!Put, Register!LostPut, Register!Absent, Register!Present, Registered

LEMMA RemovalIsRemove ==
    ASSUME KeptInv, KeptInv', NEW t \in Threads, up, mem[t] # NoRecord,
           log'[t] = NoLog, UNCHANGED <<legacy, puts>>,
           \A u \in Threads : u # t => log'[u] = log[u]
    PROVE  Register!Remove(t)
  <1>1. /\ \A u \in Threads : Registered[u] = Readable(u) /\ Registered'[u] = Readable(u)'
        /\ mem[t] = Readable(t)
    BY RegisteredIsReadable, RegisteredStays DEF ShowsFiles
  <1>2. legacy'[t] # "valid"
    BY DEF KeptInv, ServingKept
  <1>3. Readable(t)' = 0
    BY <1>2, NoLogIsNot DEF Readable, Migrated, NoRecord
  <1>4. \A u \in Threads : u # t => Readable(u)' = Readable(u)
    BY DEF Readable, Migrated
  <1>5. Registered' = [Registered EXCEPT ![t] = 0]
    BY <1>1, <1>3, <1>4 DEF Registered
  <1> QED
    BY <1>1, <1>5 DEF Register!Remove, Register!Present, Registered, NoRecord

(* Steps that change no register. *)
LEMMA RegisteredSame ==
    ASSUME KeptInv, KeptInv', \A t \in Threads : Readable(t)' = Readable(t)
    PROVE  Registered' = Registered
  <1>1. \A t \in Threads : Registered[t] = Readable(t) /\ Registered'[t] = Readable(t)'
    BY RegisteredIsReadable, RegisteredStays DEF ShowsFiles
  <1> QED
    BY <1>1 DEF Registered

LEMMA RegisterSteps ==
    ASSUME OnlyBytesAreCut
    PROVE  KeptInv /\ KeptInv' /\ [Next]_vars => [Register!Next]_(Register!vars)
  <1> SUFFICES ASSUME KeptInv, KeptInv', [Next]_vars
               PROVE  [Register!Next]_(Register!vars)
    OBVIOUS
  <1>1. TypeOK /\ \A t \in Threads : FilesKept(t) /\ (up => ServingKept(t))
    BY DEF KeptInv
  <1>2. ASSUME NEW t \in Threads, NEW settled \in BOOLEAN, Upsert(t, settled)
        PROVE  Register!Serve
    <2>1. MayUpsert(t) /\ up /\ up' = up /\ legacy' = legacy
      BY <1>2 DEF Upsert, MayUpsert
    <2>2. log'[t] = Stored(t, settled) /\ \A u \in Threads : u # t => log'[u] = log[u]
      BY <1>1, <1>2 DEF Upsert, TypeOK
    <2>3. \A u \in Threads : u # t => Readable(u)' = Readable(u)
      BY <2>1, <2>2 DEF Readable, Migrated
    <2>4. legacy'[t] # "valid"
      BY <1>1, <2>1 DEF ServingKept
    <2>5. Readable(t)' = puts[t] + 1
      BY <2>1, <2>2, <2>4, StoredIsRead DEF Readable, Migrated
    <2>6. Register!Put(t)
      BY <2>1, <2>3, <2>5, WriteIsPut
    <2> QED
      BY <2>1, <2>6 DEF Register!Serve
  <1>3. ASSUME NEW t \in Threads, NEW settled \in BOOLEAN, UpsertCut(t, settled)
        PROVE  Register!Die
    <2>1. MayUpsert(t) /\ up /\ up' = FALSE /\ legacy' = legacy
      BY <1>3 DEF UpsertCut, MayUpsert, Dies
    <2>2. \A u \in Threads : u # t => log'[u] = log[u]
      BY <1>1, <1>3 DEF UpsertCut, TearsAppend, TypeOK
    <2>3. \A u \in Threads : u # t => Readable(u)' = Readable(u)
      BY <2>1, <2>2 DEF Readable, Migrated
    <2>4. legacy[t] # "valid" /\ legacy'[t] # "valid"
      BY <1>1, <2>1 DEF ServingKept
    <2>5. Readable(t) = Snapshot(log[t]) /\ Readable(t)' = Snapshot(log'[t])
      BY <2>4 DEF Readable, Migrated
    <2>6. Readable(t)' = puts[t] + 1 \/ Readable(t)' = Readable(t)
      <3>1. CASE log' = log
        BY <2>5, <3>1
      <3>2. CASE log' = [log EXCEPT ![t] = Stored(t, settled)]
        <4>1. log'[t] = Stored(t, settled)
          BY <1>1, <3>2 DEF TypeOK
        <4> QED
          BY <2>1, <2>5, <4>1, StoredIsRead
      <3>3. CASE TearsAppend(t, settled)
        <4>1. PICK g \in Torn(log[t], puts[t] + 1) : log' = [log EXCEPT ![t] = g]
          BY <3>3 DEF TearsAppend
        <4>2. log'[t] = g /\ ~Rewrites(t, settled)
          BY <1>1, <3>3, <4>1 DEF TypeOK, TearsAppend
        <4> QED
          BY <2>1, <2>5, <4>2, TornIsSkipped
      <3> QED
        BY <1>3, <3>1, <3>2, <3>3 DEF UpsertCut
    <2>7. Register!Put(t) \/ Register!LostPut(t)
      BY <2>1, <2>3, <2>6, WriteIsPut
    <2> QED
      BY <2>1, <2>7 DEF Register!Die
  <1>4. ASSUME NEW t \in Threads, Delete(t) \/ DeleteCut(t)
        PROVE  Register!Serve \/ Register!Die
    <2>1. /\ up /\ mem[t] # NoRecord /\ UNCHANGED <<legacy, puts>>
          /\ log' = [log EXCEPT ![t] = NoLog]
          /\ up' = up \/ up' = FALSE
      BY <1>4 DEF Delete, DeleteCut, Dies
    <2>2. log'[t] = NoLog /\ \A u \in Threads : u # t => log'[u] = log[u]
      BY <1>1, <2>1 DEF TypeOK
    <2>3. Register!Remove(t)
      BY <2>1, <2>2, RemovalIsRemove
    <2> QED
      BY <1>1, <2>1, <2>3 DEF Register!Serve, Register!Die
  <1>5. ASSUME Crash PROVE Register!Die
    <2>1. up /\ up' = FALSE /\ UNCHANGED <<log, legacy, puts>>
      BY <1>5 DEF Crash, Dies
    <2>2. Registered' = Registered
      BY <2>1, RegisteredSame DEF Readable, Migrated
    <2> QED
      BY <2>1, <2>2 DEF Register!Die, Registered
  <1>6. ASSUME Recover \/ RecoverCut PROVE Register!Start \/ UNCHANGED Register!vars
    <2>1. ~up /\ up' \in BOOLEAN /\ puts' = puts /\ (up' = TRUE \/ up' = up)
      BY <1>1, <1>6 DEF Recover, RecoverCut, TypeOK
    <2>2. ASSUME NEW u \in Threads PROVE Readable(u)' = Readable(u)
      <3>1. FilesKept(u)
        BY <1>1
      <3>2. \/ log'[u] = Scanned(Migrated(u)) /\ legacy'[u] = Parked(u)
            \/ log'[u] = Migrated(u) /\ legacy'[u] \in {Parked(u), legacy[u]}
            \/ log'[u] = log[u] /\ legacy'[u] = legacy[u]
        BY <1>6 DEF Recover, RecoverCut
      <3>3. CASE log'[u] = Scanned(Migrated(u)) /\ legacy'[u] = Parked(u)
        <4>1. Readable(u)' = Snapshot(log'[u])
          BY <3>3 DEF Readable, Migrated, Parked
        <4> QED
          BY <1>1, <3>3, <4>1, RecoveredIsRead
      <3>4. CASE log'[u] = Migrated(u) /\ legacy'[u] \in {Parked(u), legacy[u]}
        <4>1. legacy'[u] = "valid" => log'[u] # NoLog
          BY <1>1, <3>1, <3>4, RecoveredIsRead DEF Parked
        <4>2. Readable(u)' = Snapshot(log'[u])
          BY <4>1 DEF Readable, Migrated
        <4> QED
          BY <3>4, <4>2 DEF Readable
      <3>5. CASE log'[u] = log[u] /\ legacy'[u] = legacy[u]
        BY <3>5 DEF Readable, Migrated
      <3> QED
        BY <3>2, <3>3, <3>4, <3>5
    <2>3. Registered' = Registered
      BY <2>2, RegisteredSame
    <2> QED
      BY <2>1, <2>3 DEF Register!Start, Register!vars, Registered
  <1>7. ASSUME UNCHANGED vars PROVE UNCHANGED Register!vars
    BY <1>7 DEF vars, Register!vars, Readable, Migrated
  <1>8. ASSUME NEW t \in Threads, NEW settled \in BOOLEAN PROVE ~UpsertFails(t, settled)
    BY DEF UpsertFails, OnlyBytesAreCut
  <1> QED
    BY <1>2, <1>3, <1>4, <1>5, <1>6, <1>7, <1>8 DEF Next, Register!Next

(* The store implements one durable register per Thread: an update or a     *)
(* removal happens at once or, if the daemon dies in it, happens or not,    *)
(* and nothing else ever changes what a Thread shows.                       *)
THEOREM StoreImplementsRegister ==
    ASSUME OnlyBytesAreCut
    PROVE  Spec => IsARegister
  <1>1. Init => Register!Init
    BY RegisterStarts
  <1>2. KeptInv /\ KeptInv' /\ [Next]_vars => [Register!Next]_(Register!vars)
    BY RegisterSteps
  <1>3. Spec => []KeptInv
    BY SpecKept
  <1> QED
    BY <1>1, <1>2, <1>3, PTL DEF Spec, IsARegister, Register!Spec

-----------------------------------------------------------------------------
(* What torn appends may cost.  Sealed is the log after the next line has   *)
(* fused with an unfinished one; what is read from it is what is safe.      *)
(* Every append that was cut pays for one acknowledged update: the one that *)
(* fuses with what the cut append left behind, which an unfinished line     *)
(* still has to its credit.                                                 *)

Sealed(f) == Extended(f, Fragment, FALSE)
Safe(f)   == Snapshot(Sealed(f))
Credit(f) == IF f.open THEN 1 ELSE 0

Beyond(saved, n) == {v \in saved : v > n}

LossFits(f, saved, n) == Cardinality(Beyond(saved, Safe(f))) + Credit(f) <= n

\* An unfinished line that can be read is newer than all that was saved.
LastFits(f, saved) ==
    f.open /\ Len(f.lines) \in ValidLines(f) =>
        \A v \in saved : v <= f.lines[Len(f.lines)]

Loss(t) ==
    /\ IsFiniteSet(acked[t])
    /\ \A v \in acked[t] : v <= puts[t]
    /\ LossFits(Migrated(t), acked[t], tears[t])
    /\ LastFits(Migrated(t), acked[t])
    /\ up => legacy[t] # "valid"

LossInv == TypeOK /\ \A t \in Threads : Loss(t)

\* What is read depends on the valid lines only.
LEMMA SameSnapshot ==
    ASSUME NEW f, NEW g, ValidLines(g) = ValidLines(f),
           \A i \in ValidLines(f) : g.lines[i] = f.lines[i],
           f \in Log
    PROVE  Snapshot(g) = Snapshot(f)
  <1>1. IsReadable(g) = IsReadable(f) /\ Winner(g) = Winner(f)
    BY DEF IsReadable, Winner
  <1>2. IsReadable(f) => Winner(f) \in ValidLines(f)
    BY WinnerIsLast DEF ValidLines
  <1> QED
    BY <1>1, <1>2 DEF Snapshot

\* An append to a log with an unfinished line spoils that line.
LEMMA FusedLines ==
    ASSUME NEW f \in Log, NEW g \in Log,
           g.lines = [f.lines EXCEPT ![Len(f.lines)] = Fragment]
    PROVE  /\ ValidLines(g) = ValidLines(f) \ {Len(f.lines)}
           /\ Len(g.lines) = Len(f.lines)
           /\ \A i \in ValidLines(g) : g.lines[i] = f.lines[i]
  <1> DEFINE n == Len(f.lines)
  <1>1. n \in Nat /\ f.lines \in Seq(Nat)
    BY DEF Log
  <1>2. Len(g.lines) = n
    BY <1>1 DEF Log
  <1>4. \A i \in 1..n : g.lines[i] = IF i = n THEN Fragment ELSE f.lines[i]
    BY <1>1
  <1>5. ValidLines(g) = ValidLines(f) \ {n}
    BY <1>2, <1>4 DEF ValidLines
  <1>6. \A i \in ValidLines(g) : g.lines[i] = f.lines[i]
    BY <1>2, <1>4, <1>5 DEF ValidLines
  <1> QED
    BY <1>2, <1>5, <1>6

\* An append to a log with none adds a line.
LEMMA AddedLines ==
    ASSUME NEW f \in Log, NEW g \in Log,
           Len(g.lines) = Len(f.lines) + 1,
           \A i \in 1..Len(f.lines) : g.lines[i] = f.lines[i]
    PROVE  /\ ValidLines(f) = ValidLines(g) \ {Len(g.lines)}
           /\ \A i \in ValidLines(f) : g.lines[i] = f.lines[i]
  <1> DEFINE n == Len(f.lines)
  <1>1. n \in Nat
    BY DEF Log
  <1>2. 1..(n + 1) = (1..n) \cup {n + 1} /\ n + 1 \notin 1..n
    BY <1>1
  <1>3. ValidLines(f) = ValidLines(g) \ {n + 1}
    BY <1>2 DEF ValidLines
  <1> QED
    BY <1>3 DEF ValidLines

\* What is safe of a log, and what is read of it now.
LEMMA SafeIs ==
    ASSUME NEW f \in Log
    PROVE  /\ Safe(f) \in Nat
           /\ ~f.open => Safe(f) = Snapshot(f)
           /\ Len(f.lines) \notin ValidLines(f) => Safe(f) = Snapshot(f)
           /\ Len(f.lines) \in ValidLines(f) => Snapshot(f) = f.lines[Len(f.lines)]
  <1>1. PICK g : g = Extended(f, Fragment, FALSE)
    OBVIOUS
  <1>2. Safe(f) = Snapshot(g)
    BY <1>1 DEF Safe, Sealed
  <1>3. Fragment \in Nat
    BY DEF Fragment
  <1>4. g \in Log
    BY <1>1, <1>3, ExtendedType
  <1>5. ASSUME f.open PROVE Len(f.lines) \notin ValidLines(f) => Snapshot(g) = Snapshot(f)
    <2>1. /\ ValidLines(g) = ValidLines(f) \ {Len(f.lines)}
          /\ \A i \in ValidLines(g) : g.lines[i] = f.lines[i]
      <3>1. g.lines = [f.lines EXCEPT ![Len(f.lines)] = Fragment]
        BY <1>1, <1>5 DEF Extended
      <3> QED
        BY <1>4, <3>1, FusedLines
    <2> QED
      BY <2>1, SameSnapshot
  <1>6. ASSUME ~f.open PROVE Snapshot(g) = Snapshot(f)
    <2>1. ValidLines(g) = ValidLines(f) /\ \A i \in ValidLines(f) : g.lines[i] = f.lines[i]
      <3>1. g.lines = Append(f.lines, Fragment)
        BY <1>1, <1>6 DEF Extended
      <3>2. f.lines \in Seq(Nat) /\ Len(f.lines) \in Nat
        BY DEF Log
      <3>3. /\ Len(g.lines) = Len(f.lines) + 1
            /\ g.lines[Len(g.lines)] = Fragment
            /\ \A i \in 1..Len(f.lines) : g.lines[i] = f.lines[i]
        BY <1>3, <3>1, <3>2
      <3>4. /\ ValidLines(f) = ValidLines(g) \ {Len(g.lines)}
            /\ \A i \in ValidLines(f) : g.lines[i] = f.lines[i]
        BY <1>4, <3>3, AddedLines
      <3>5. Len(g.lines) \notin ValidLines(g)
        BY <3>3 DEF ValidLines
      <3> QED
        BY <3>4, <3>5
    <2> QED
      BY <2>1, SameSnapshot
  <1>7. Len(f.lines) \in ValidLines(f) => Snapshot(f) = f.lines[Len(f.lines)]
    BY SnapshotIs DEF ValidLines
  <1>8. Snapshot(g) \in Nat
    BY <1>4, SnapshotType
  <1> QED
    BY <1>2, <1>5, <1>6, <1>7, <1>8

\* After an append to a log with an unfinished line.
LEMMA FusedIs ==
    ASSUME NEW f \in Log, f.open, NEW v \in Nat, NEW open \in BOOLEAN,
           NEW g, g = Extended(f, v, open)
    PROVE  /\ g \in Log
           /\ Safe(g) = Safe(f)
           /\ Len(g.lines) \notin ValidLines(g)
  <1>1. PICK e : e = Extended(f, Fragment, FALSE)
    OBVIOUS
  <1>2. Safe(f) = Snapshot(e)
    BY <1>1 DEF Safe, Sealed
  <1>3. Fragment \in Nat
    BY DEF Fragment
  <1>4. /\ g \in Log
        /\ ValidLines(g) = ValidLines(f) \ {Len(f.lines)}
        /\ Len(g.lines) = Len(f.lines)
        /\ \A i \in ValidLines(g) : g.lines[i] = f.lines[i]
    <2>1. g \in Log
      BY ExtendedType
    <2>2. g.lines = [f.lines EXCEPT ![Len(f.lines)] = Fragment]
      BY DEF Extended
    <2> QED
      BY <2>1, <2>2, FusedLines
  <1>5. /\ e \in Log
        /\ ValidLines(e) = ValidLines(f) \ {Len(f.lines)}
        /\ \A i \in ValidLines(e) : e.lines[i] = f.lines[i]
    <2>1. e \in Log
      BY <1>1, <1>3, ExtendedType
    <2>2. e.lines = [f.lines EXCEPT ![Len(f.lines)] = Fragment]
      BY <1>1 DEF Extended
    <2> QED
      BY <2>1, <2>2, FusedLines
  <1>6. Snapshot(g) = Snapshot(e)
    BY <1>4, <1>5, SameSnapshot
  <1>7. Safe(g) = Snapshot(g)
    BY <1>4, SafeIs
  <1> QED
    BY <1>2, <1>4, <1>6, <1>7

\* After a cut append to a log with none.
LEMMA CutIs ==
    ASSUME NEW f \in Log, ~f.open, NEW v \in Nat, NEW g, g = Extended(f, v, TRUE)
    PROVE  /\ g \in Log
           /\ Safe(g) = Safe(f)
           /\ g.lines[Len(g.lines)] = v
  <1>1. PICK e : e = Extended(g, Fragment, FALSE)
    OBVIOUS
  <1>2. Safe(g) = Snapshot(e)
    BY <1>1 DEF Safe, Sealed
  <1>3. Fragment \in Nat
    BY DEF Fragment
  <1>4. /\ g \in Log
        /\ g.lines[Len(g.lines)] = v
        /\ ValidLines(f) = ValidLines(g) \ {Len(g.lines)}
        /\ \A i \in ValidLines(f) : g.lines[i] = f.lines[i]
    <2>1. g \in Log
      BY ExtendedType
    <2>2. g.lines = Append(f.lines, v)
      BY DEF Extended
    <2>3. f.lines \in Seq(Nat) /\ Len(f.lines) \in Nat
      BY DEF Log
    <2>4. /\ Len(g.lines) = Len(f.lines) + 1
          /\ g.lines[Len(g.lines)] = v
          /\ \A i \in 1..Len(f.lines) : g.lines[i] = f.lines[i]
      <3> DEFINE s == f.lines
      <3>1. s \in Seq(Nat) /\ Len(s) \in Nat
        BY <2>3
      <3> HIDE DEF s
      <3>2. /\ Len(Append(s, v)) = Len(s) + 1
            /\ Append(s, v)[Len(s) + 1] = v
            /\ \A i \in 1..Len(s) : Append(s, v)[i] = s[i]
        BY <3>1
      <3>3. g.lines = Append(s, v)
        BY <2>2 DEF s
      <3>4. /\ Len(g.lines) = Len(s) + 1
            /\ g.lines[Len(g.lines)] = v
            /\ \A i \in 1..Len(s) : g.lines[i] = s[i]
        BY <3>2, <3>3
      <3> QED
        BY <3>4 DEF s
    <2> QED
      BY <2>1, <2>4, AddedLines
  <1>5. g.open
    BY DEF Extended
  <1>6. /\ e \in Log
        /\ ValidLines(e) = ValidLines(g) \ {Len(g.lines)}
        /\ \A i \in ValidLines(e) : e.lines[i] = g.lines[i]
    <2>1. e \in Log
      BY <1>1, <1>3, <1>4, ExtendedType
    <2>2. e.lines = [g.lines EXCEPT ![Len(g.lines)] = Fragment]
      BY <1>1, <1>5 DEF Extended
    <2> QED
      BY <1>4, <2>1, <2>2, FusedLines
  <1>7. ValidLines(e) = ValidLines(f) /\ \A i \in ValidLines(f) : e.lines[i] = f.lines[i]
    BY <1>4, <1>6
  <1>8. Snapshot(e) = Snapshot(f)
    BY <1>7, SameSnapshot
  <1>9. Safe(f) = Snapshot(f)
    BY SafeIs
  <1> QED
    BY <1>2, <1>4, <1>8, <1>9

\* A log that shows all that was saved has lost nothing.
LEMMA NothingLost ==
    ASSUME NEW f \in Log, ~f.open, NEW saved \in SUBSET Nat, NEW n \in Nat,
           \A v \in saved : v <= Snapshot(f)
    PROVE  LossFits(f, saved, n) /\ LastFits(f, saved)
  <1>1. Safe(f) = Snapshot(f) /\ Snapshot(f) \in Nat
    BY SafeIs
  <1>2. Beyond(saved, Safe(f)) = {}
    <2>1. \A v \in saved : v \in Nat /\ v <= Safe(f)
      BY <1>1
    <2>2. \A v \in saved : ~(v > Safe(f))
      BY <1>1, <2>1
    <2> QED
      BY <2>2 DEF Beyond
  <1>3. Cardinality({}) = 0
    BY FS_EmptySet
  <1> QED
    BY <1>2, <1>3 DEF LossFits, LastFits, Credit

\* Saving one more update loses at most that one.
LEMMA OneMoreLost ==
    ASSUME NEW saved \in SUBSET Nat, IsFiniteSet(saved), NEW v \in Nat, NEW n \in Nat
    PROVE  /\ IsFiniteSet(saved \cup {v})
           /\ Cardinality(Beyond(saved, n)) \in Nat
           /\ Cardinality(Beyond(saved \cup {v}, n)) <= Cardinality(Beyond(saved, n)) + 1
  <1> DEFINE S == Beyond(saved, n)
             T == Beyond(saved \cup {v}, n)
  <1>1. IsFiniteSet(saved \cup {v})
    BY FS_AddElement
  <1>2. IsFiniteSet(S) /\ IsFiniteSet(S \cup {v})
    BY FS_Subset, FS_AddElement DEF Beyond
  <1>3. T \subseteq S \cup {v}
    BY DEF Beyond
  <1>4. Cardinality(T) <= Cardinality(S \cup {v})
    BY <1>2, <1>3, FS_Subset
  <1>5. IsFiniteSet(T)
    BY <1>2, <1>3, FS_Subset
  <1>6. Cardinality(S) \in Nat /\ Cardinality(T) \in Nat
    BY <1>2, <1>5, FS_CardinalityType
  <1>7. Cardinality(S \cup {v}) = IF v \in S THEN Cardinality(S) ELSE Cardinality(S) + 1
    BY <1>2, FS_AddElement
  <1> HIDE DEF S, T
  <1>8. Cardinality(T) <= Cardinality(S) + 1
    BY <1>4, <1>6, <1>7
  <1> QED
    BY <1>1, <1>6, <1>8 DEF S, T

LEMMA InitLoss == Init => LossInv
  <1> SUFFICES ASSUME Init PROVE LossInv
    OBVIOUS
  <1>1. TypeOK /\ up = FALSE
    BY InitFits DEF FitInv, Init
  <1>2. ASSUME NEW t \in Threads PROVE Loss(t)
    <2> DEFINE f == Migrated(t)
    <2>1. Leftover(t) /\ tears[t] = 0
      BY DEF Init
    <2>2. /\ NoLog.open = FALSE /\ Rewritten(2).open = FALSE /\ Rewritten(1).open = FALSE
          /\ NoLog # Rewritten(2)
      BY RewrittenIsRead DEF NoLog, Rewritten
    <2>3. /\ Rewritten(1) \in Log /\ Snapshot(Rewritten(1)) = 1
          /\ Rewritten(2) \in Log /\ Snapshot(Rewritten(2)) = 2
          /\ NoLog \in Log
      BY RewrittenIsRead, NoLogIsNot
    <2>4. /\ f \in Log /\ ~f.open
          /\ \A v \in acked[t] : v <= Snapshot(f)
          /\ \A v \in acked[t] : v <= puts[t]
          /\ acked[t] \in {{}, {1}, {1, 2}}
      <3>1. CASE log[t] = NoLog /\ legacy[t] = "valid" /\ puts[t] = 1 /\ acked[t] = {1}
        <4>1. f = Rewritten(1)
          BY <3>1 DEF Migrated, OldSnapshot
        <4> HIDE DEF f
        <4> QED
          BY <2>2, <2>3, <3>1, <4>1
      <3>2. CASE log[t] = NoLog /\ legacy[t] # "valid" /\ acked[t] = {}
        <4>1. f = NoLog
          BY <3>2 DEF Migrated
        <4> HIDE DEF f
        <4> QED
          BY <2>2, <2>3, <3>2, <4>1
      <3>3. CASE log[t] = Rewritten(2) /\ puts[t] = 2 /\ acked[t] = {1, 2}
        <4>1. f = Rewritten(2)
          BY <2>2, <3>3 DEF Migrated
        <4> HIDE DEF f
        <4> QED
          BY <2>2, <2>3, <3>3, <4>1
      <3> QED
        BY <2>1, <3>1, <3>2, <3>3 DEF Leftover
    <2>5. IsFiniteSet(acked[t]) /\ acked[t] \in SUBSET Nat
      <3>1. IsFiniteSet({}) /\ IsFiniteSet({} \cup {1}) /\ IsFiniteSet(({} \cup {1}) \cup {2})
        BY FS_EmptySet, FS_AddElement
      <3>2. {} \cup {1} = {1} /\ ({} \cup {1}) \cup {2} = {1, 2}
        OBVIOUS
      <3> QED
        BY <2>4, <3>1, <3>2
    <2> HIDE DEF f
    <2>6. LossFits(f, acked[t], tears[t]) /\ LastFits(f, acked[t])
      BY <2>1, <2>4, <2>5, NothingLost
    <2> QED
      BY <1>1, <2>4, <2>5, <2>6 DEF Loss, f
  <1> QED
    BY <1>1, <1>2 DEF LossInv

\* A Thread whose files and history a step leaves alone.
LEMMA UntouchedLoss ==
    ASSUME TypeOK, NEW t \in Threads, Loss(t),
           log'[t] = log[t], legacy'[t] = legacy[t], acked'[t] = acked[t],
           tears'[t] = tears[t], puts'[t] \in {puts[t], puts[t] + 1}, up' => up
    PROVE  Loss(t)'
  <1>1. Migrated(t)' = Migrated(t)
    BY DEF Migrated
  <1>2. \A v \in acked'[t] : v <= puts'[t]
    <2>1. acked[t] \in SUBSET Nat /\ puts[t] \in Nat /\ \A v \in acked[t] : v <= puts[t]
      BY DEF TypeOK, Loss
    <2> QED
      BY <2>1
  <1> QED
    BY <1>1, <1>2 DEF Loss

\* What the invariant says of a Thread that the serving daemon writes.
LEMMA ServedLoss ==
    ASSUME TypeOK, NEW t \in Threads, Loss(t), up
    PROVE  /\ log[t] \in Log /\ legacy[t] # "valid"
           /\ puts[t] \in Nat /\ tears[t] \in Nat
           /\ acked[t] \in SUBSET Nat /\ IsFiniteSet(acked[t])
           /\ \A v \in acked[t] : v \in Nat /\ v <= puts[t]
           /\ LossFits(log[t], acked[t], tears[t])
           /\ LastFits(log[t], acked[t])
  <1>1. legacy[t] # "valid"
    BY DEF Loss
  <1>2. Migrated(t) = log[t]
    BY <1>1 DEF Migrated
  <1> QED
    BY <1>1, <1>2 DEF TypeOK, Loss

\* The log that an upsert leaves, acknowledged or not.
LEMMA StoredLoss ==
    ASSUME TypeOK, NEW t \in Threads, NEW settled \in BOOLEAN, Loss(t), up,
           NEW saved, saved \in {acked[t], acked[t] \cup {puts[t] + 1}}
    PROVE  LossFits(Stored(t, settled), saved, tears[t]) /\ LastFits(Stored(t, settled), saved)
  <1> DEFINE f == log[t]
             v == puts[t] + 1
             g == Stored(t, settled)
  <1>1. /\ f \in Log
        /\ puts[t] \in Nat /\ tears[t] \in Nat
        /\ acked[t] \in SUBSET Nat /\ IsFiniteSet(acked[t])
        /\ \A w \in acked[t] : w \in Nat /\ w <= puts[t]
        /\ LossFits(f, acked[t], tears[t])
    BY ServedLoss
  <1>2. v \in Nat \ {0} /\ saved \in SUBSET Nat /\ \A w \in saved : w <= v
    BY <1>1
  <1>3. CASE Rewrites(t, settled) \/ ~f.open
    <2>1. g \in Log /\ Snapshot(g) = v /\ ~g.open
      <3>1. CASE Rewrites(t, settled)
        <4>1. g = Rewritten(v)
          BY <3>1 DEF Stored
        <4>2. ~Rewritten(v).open
          BY DEF Rewritten
        <4> QED
          BY <1>2, <4>1, <4>2, RewrittenIsRead
      <3>2. CASE ~Rewrites(t, settled)
        <4>1. g = Appended(f, v)
          BY <3>2 DEF Stored
        <4> QED
          BY <1>1, <1>2, <1>3, <3>2, <4>1, AppendedIsRead
      <3> QED
        BY <3>1, <3>2
    <2> HIDE DEF g, v
    <2> QED
      BY <1>1, <1>2, <2>1, NothingLost DEF g
  <1>4. CASE ~Rewrites(t, settled) /\ f.open
    <2>1. g = Extended(f, v, FALSE)
      BY <1>4 DEF Stored, Appended
    <2>2. ~g.open
      BY <2>1 DEF Extended
    <2>3. Safe(g) = Safe(f)
      BY <1>1, <1>2, <1>4, <2>1, FusedIs
    <2>4. Safe(f) \in Nat
      BY <1>1, SafeIs
    <2> HIDE DEF f, g, v
    <2> DEFINE c == Cardinality(Beyond(acked[t], Safe(f)))
    <2>5. /\ c \in Nat
          /\ Cardinality(Beyond(acked[t] \cup {v}, Safe(f))) <= c + 1
          /\ Cardinality(Beyond(acked[t] \cup {v}, Safe(f))) \in Nat
      <3>1. c \in Nat /\ Cardinality(Beyond(acked[t] \cup {v}, Safe(f))) <= c + 1
        BY <1>1, <1>2, <2>4, OneMoreLost
      <3>2. IsFiniteSet(acked[t] \cup {v})
        BY <1>1, FS_AddElement
      <3>3. IsFiniteSet(Beyond(acked[t] \cup {v}, Safe(f)))
        BY <3>2, FS_Subset DEF Beyond
      <3> QED
        BY <3>1, <3>3, FS_CardinalityType
    <2>6. c + 1 <= tears[t]
      BY <1>1, <1>4 DEF LossFits, Credit
    <2> HIDE DEF c
    <2>7. Cardinality(Beyond(acked[t] \cup {v}, Safe(f))) <= tears[t] /\ c <= tears[t]
      BY <1>1, <2>5, <2>6
    <2>8. Cardinality(Beyond(saved, Safe(f))) <= tears[t]
      BY <2>7 DEF c, v
    <2>9. Cardinality(Beyond(saved, Safe(f))) \in Nat
      BY <2>5 DEF c, v
    <2>10. LossFits(g, saved, tears[t])
      BY <2>2, <2>3, <2>8, <2>9 DEF LossFits, Credit
    <2>11. LastFits(g, saved)
      BY <2>2 DEF LastFits
    <2> QED
      BY <2>10, <2>11 DEF g
  <1> QED
    BY <1>3, <1>4

\* The log that a cut append leaves.
LEMMA TornLoss ==
    ASSUME TypeOK, NEW t \in Threads, Loss(t), up, NEW g \in Torn(log[t], puts[t] + 1)
    PROVE  LossFits(g, acked[t], tears[t] + 1) /\ LastFits(g, acked[t])
  <1> DEFINE f == log[t]
             c == Cardinality(Beyond(acked[t], Safe(f)))
  <1>1. /\ f \in Log
        /\ puts[t] \in Nat /\ tears[t] \in Nat
        /\ acked[t] \in SUBSET Nat /\ IsFiniteSet(acked[t])
        /\ \A w \in acked[t] : w \in Nat /\ w <= puts[t]
        /\ LossFits(f, acked[t], tears[t])
    BY ServedLoss
  <1>2. PICK w \in {puts[t] + 1, Fragment} : g = Extended(f, w, TRUE)
    BY DEF Torn
  <1>3. w \in Nat
    BY <1>1, <1>2 DEF Fragment
  <1>4. g.open
    BY <1>2 DEF Extended
  <1>5. g \in Log /\ Safe(g) = Safe(f)
    <2>1. CASE f.open
      BY <1>1, <1>2, <1>3, <2>1, FusedIs
    <2>2. CASE ~f.open
      BY <1>1, <1>2, <1>3, <2>2, CutIs
    <2> QED
      BY <2>1, <2>2
  <1>6. c \in Nat /\ c <= tears[t]
    <2>1. IsFiniteSet(Beyond(acked[t], Safe(f)))
      BY <1>1, FS_Subset DEF Beyond
    <2>2. c \in Nat
      BY <2>1, FS_CardinalityType
    <2>3. Credit(f) \in Nat /\ c + Credit(f) <= tears[t]
      BY <1>1 DEF LossFits, Credit
    <2> HIDE DEF c
    <2> QED
      BY <1>1, <2>2, <2>3
  <1>7. LossFits(g, acked[t], tears[t] + 1)
    <2>1. Credit(g) = 1
      BY <1>4 DEF Credit
    <2>2. Cardinality(Beyond(acked[t], Safe(g))) = c
      BY <1>5
    <2> HIDE DEF c
    <2>3. c + 1 <= tears[t] + 1
      BY <1>1, <1>6
    <2> QED
      BY <2>1, <2>2, <2>3 DEF LossFits
  <1>8. LastFits(g, acked[t])
    <2> SUFFICES ASSUME Len(g.lines) \in ValidLines(g)
                 PROVE  \A u \in acked[t] : u <= g.lines[Len(g.lines)]
      BY DEF LastFits
    <2>1. ~f.open
      BY <1>1, <1>2, <1>3, FusedIs
    <2>2. g.lines[Len(g.lines)] = w
      BY <1>1, <1>2, <1>3, <2>1, CutIs
    <2>3. w = puts[t] + 1
      BY <1>2, <2>2 DEF ValidLines
    <2> QED
      BY <1>1, <2>2, <2>3
  <1> QED
    BY <1>7, <1>8

\* What recover makes of a log.
LEMMA ScannedLoss ==
    ASSUME NEW f \in Log, NEW saved \in SUBSET Nat, IsFiniteSet(saved), NEW n \in Nat,
           LossFits(f, saved, n), LastFits(f, saved)
    PROVE  LossFits(Scanned(f), saved, n) /\ LastFits(Scanned(f), saved)
  <1>1. CASE ~IsTorn(f)
    BY <1>1 DEF Scanned
  <1>2. CASE IsTorn(f)
    <2> DEFINE g == Rewritten(Snapshot(f))
    <2>1. Scanned(f) = g
      BY <1>2 DEF Scanned
    <2>2. Snapshot(f) \in Nat \ {0}
      BY <1>2, SnapshotType DEF IsTorn, NoRecord
    <2>3. g \in Log /\ Snapshot(g) = Snapshot(f) /\ ~g.open
      <3>1. g \in Log /\ Snapshot(g) = Snapshot(f)
        BY <2>2, RewrittenIsRead
      <3>2. ~g.open
        BY DEF Rewritten
      <3> QED
        BY <3>1, <3>2
    <2> HIDE DEF g
    <2>4. Len(f.lines) \notin ValidLines(f)
      <3>1. IsReadable(f) /\ Winner(f) # Len(f.lines)
        BY <1>2 DEF IsTorn
      <3>2. \A j \in ValidLines(f) : j <= Winner(f)
        BY <3>1, WinnerIsLast
      <3>3. Winner(f) \in 1..Len(f.lines) /\ Len(f.lines) \in Nat
        BY <3>1, WinnerIsLast DEF Log
      <3> QED
        BY <3>1, <3>2, <3>3
    <2>5. Safe(g) = Safe(f)
      BY <2>3, <2>4, SafeIs
    <2> DEFINE c == Cardinality(Beyond(saved, Safe(f)))
    <2>6. c \in Nat
      <3>1. IsFiniteSet(Beyond(saved, Safe(f)))
        BY FS_Subset DEF Beyond
      <3> QED
        BY <3>1, FS_CardinalityType
    <2>7. c <= n
      <3>1. Credit(f) \in Nat /\ c + Credit(f) <= n
        BY DEF LossFits, Credit
      <3> HIDE DEF c
      <3> QED
        BY <2>6, <3>1
    <2>8. LossFits(g, saved, n)
      BY <2>3, <2>5, <2>6, <2>7 DEF LossFits, Credit
    <2>9. LastFits(g, saved)
      BY <2>3 DEF LastFits
    <2> QED
      BY <2>1, <2>8, <2>9
  <1> QED
    BY <1>1, <1>2

\* A Thread that recover has migrated, parked and scanned, or only a part of it.
LEMMA RecoveredLoss ==
    ASSUME TypeOK, NEW t \in Threads, Loss(t), UNCHANGED <<puts, acked, tears>>,
           \/ log'[t] = Scanned(Migrated(t)) /\ legacy'[t] = Parked(t)
           \/ ~up' /\ log'[t] = Migrated(t) /\ legacy'[t] \in {Parked(t), legacy[t]}
           \/ ~up' /\ log'[t] = log[t] /\ legacy'[t] = legacy[t]
    PROVE  Loss(t)'
  <1>1. log[t] \in Log /\ acked[t] \in SUBSET Nat /\ tears[t] \in Nat
    BY DEF TypeOK
  <1>2. Migrated(t) \in Log
    BY <1>1, MigratedType
  <1>3. Parked(t) # "valid"
    BY DEF Parked
  <1>4. Migrated(t)' = Migrated(t) \/ Migrated(t)' = Scanned(Migrated(t))
    <2>1. CASE log'[t] = Scanned(Migrated(t)) /\ legacy'[t] = Parked(t)
      BY <1>3, <2>1 DEF Migrated
    <2>2. CASE log'[t] = Migrated(t) /\ legacy'[t] \in {Parked(t), legacy[t]}
      <3>1. legacy'[t] = "valid" => legacy[t] = "valid"
        BY <1>3, <2>2
      <3>2. legacy[t] = "valid" => Migrated(t) # NoLog
        BY RewrittenIsRead DEF Migrated, OldSnapshot
      <3>3. Migrated(t)' = log'[t]
        BY <2>2, <3>1, <3>2 DEF Migrated
      <3> QED
        BY <2>2, <3>3
    <2>3. CASE log'[t] = log[t] /\ legacy'[t] = legacy[t]
      BY <2>3 DEF Migrated
    <2> QED
      BY <2>1, <2>2, <2>3
  <1>5. /\ IsFiniteSet(acked[t]) /\ \A v \in acked[t] : v <= puts[t]
        /\ LossFits(Migrated(t), acked[t], tears[t])
        /\ LastFits(Migrated(t), acked[t])
    BY DEF Loss
  <1>6. /\ LossFits(Scanned(Migrated(t)), acked[t], tears[t])
        /\ LastFits(Scanned(Migrated(t)), acked[t])
    BY <1>1, <1>2, <1>5, ScannedLoss
  <1>7. LossFits(Migrated(t)', acked[t], tears[t]) /\ LastFits(Migrated(t)', acked[t])
    BY <1>4, <1>5, <1>6
  <1>8. up' => legacy'[t] # "valid"
    BY <1>3
  <1> QED
    BY <1>5, <1>7, <1>8 DEF Loss

\* The Thread that an upsert or a removal writes.
LEMMA WrittenLoss ==
    ASSUME TypeOK, NEW t \in Threads, Loss(t), up, legacy'[t] = legacy[t],
           puts'[t] \in {puts[t], puts[t] + 1},
           \/ /\ acked'[t] = acked[t] /\ tears'[t] = tears[t] /\ log'[t] = log[t]
           \/ /\ puts'[t] = puts[t] + 1
              /\ acked'[t] \in {acked[t], acked[t] \cup {puts[t] + 1}}
              /\ tears'[t] = tears[t]
              /\ \E settled \in BOOLEAN : log'[t] = Stored(t, settled)
           \/ /\ acked'[t] = acked[t] /\ tears'[t] = tears[t] + 1
              /\ log'[t] \in Torn(log[t], puts[t] + 1)
           \/ /\ acked'[t] = {} /\ tears'[t] = tears[t] /\ log'[t] = NoLog
    PROVE  Loss(t)'
  <1>1. /\ legacy[t] # "valid"
        /\ puts[t] \in Nat /\ tears[t] \in Nat
        /\ acked[t] \in SUBSET Nat /\ IsFiniteSet(acked[t])
        /\ \A v \in acked[t] : v \in Nat /\ v <= puts[t]
        /\ LossFits(log[t], acked[t], tears[t])
        /\ LastFits(log[t], acked[t])
    BY ServedLoss
  <1>2. Migrated(t)' = log'[t] /\ legacy'[t] # "valid"
    BY <1>1 DEF Migrated
  <1>3. IsFiniteSet(acked[t] \cup {puts[t] + 1}) /\ IsFiniteSet({})
    BY <1>1, FS_AddElement, FS_EmptySet
  <1>4. IsFiniteSet(acked'[t]) /\ \A v \in acked'[t] : v <= puts'[t]
    <2>1. IsFiniteSet(acked'[t])
      BY <1>1, <1>3
    <2>2. CASE acked'[t] = acked[t] \/ acked'[t] = {}
      BY <1>1, <2>1, <2>2
    <2>3. CASE acked'[t] = acked[t] \cup {puts[t] + 1} /\ puts'[t] = puts[t] + 1
      BY <1>1, <2>1, <2>3
    <2> QED
      BY <2>1, <2>2, <2>3
  <1>5. LossFits(log'[t], acked'[t], tears'[t]) /\ LastFits(log'[t], acked'[t])
    <2>1. CASE acked'[t] = acked[t] /\ tears'[t] = tears[t] /\ log'[t] = log[t]
      BY <1>1, <2>1
    <2>2. CASE /\ acked'[t] \in {acked[t], acked[t] \cup {puts[t] + 1}}
               /\ tears'[t] = tears[t]
               /\ \E settled \in BOOLEAN : log'[t] = Stored(t, settled)
      BY <2>2, StoredLoss
    <2>3. CASE /\ acked'[t] = acked[t] /\ tears'[t] = tears[t] + 1
               /\ log'[t] \in Torn(log[t], puts[t] + 1)
      BY <2>3, TornLoss
    <2>4. CASE acked'[t] = {} /\ tears'[t] = tears[t] /\ log'[t] = NoLog
      <3>1. NoLog \in Log /\ ~NoLog.open
        BY NoLogIsNot DEF NoLog
      <3>2. LossFits(NoLog, {}, tears[t]) /\ LastFits(NoLog, {})
        BY <1>1, <3>1, NothingLost
      <3> QED
        BY <2>4, <3>2
    <2> QED
      BY <2>1, <2>2, <2>3, <2>4
  <1> QED
    BY <1>2, <1>4, <1>5 DEF Loss

LEMMA StepLoss == LossInv /\ TypeOK' /\ [Next]_vars => LossInv'
  <1> SUFFICES ASSUME LossInv, TypeOK', [Next]_vars, NEW u \in Threads
               PROVE  Loss(u)'
    BY DEF LossInv
  <1>1. TypeOK /\ Loss(u)
    BY DEF LossInv
  <1>2. ASSUME NEW t \in Threads, NEW settled \in BOOLEAN, Upsert(t, settled)
        PROVE  Loss(u)'
    <2>1. /\ up /\ up' = up /\ legacy' = legacy /\ tears' = tears
          /\ log' = [log EXCEPT ![t] = Stored(t, settled)]
          /\ puts' = [puts EXCEPT ![t] = @ + 1]
          /\ acked' = [acked EXCEPT ![t] = @ \cup {puts[t] + 1}]
      BY <1>2 DEF Upsert, MayUpsert
    <2>2. CASE u = t
      <3>1. /\ log'[u] = Stored(u, settled) /\ puts'[u] = puts[u] + 1
            /\ acked'[u] = acked[u] \cup {puts[u] + 1}
        BY <1>1, <2>1, <2>2 DEF TypeOK
      <3> QED
        BY <1>1, <2>1, <3>1, WrittenLoss
    <2>3. CASE u # t
      <3>1. log'[u] = log[u] /\ puts'[u] = puts[u] /\ acked'[u] = acked[u]
        BY <1>1, <2>1, <2>3 DEF TypeOK
      <3> QED
        BY <1>1, <2>1, <3>1, UntouchedLoss
    <2> QED
      BY <2>2, <2>3
  <1>3. ASSUME NEW t \in Threads, NEW settled \in BOOLEAN,
               UpsertCut(t, settled) \/ UpsertFails(t, settled)
        PROVE  Loss(u)'
    <2>1. /\ up /\ legacy' = legacy /\ acked' = acked
          /\ puts' = [puts EXCEPT ![t] = @ + 1]
          /\ \/ UNCHANGED <<log, tears>>
             \/ log' = [log EXCEPT ![t] = Stored(t, settled)] /\ UNCHANGED tears
             \/ TearsAppend(t, settled)
      BY <1>3 DEF UpsertCut, UpsertFails, MayUpsert
    <2>2. CASE u = t
      <3>1. puts'[u] = puts[u] + 1 /\ acked'[u] = acked[u] /\ legacy'[u] = legacy[u]
        BY <1>1, <2>1, <2>2 DEF TypeOK
      <3>2. CASE UNCHANGED <<log, tears>>
        BY <1>1, <2>1, <3>1, <3>2, WrittenLoss
      <3>3. CASE log' = [log EXCEPT ![t] = Stored(t, settled)] /\ UNCHANGED tears
        <4>1. log'[u] = Stored(u, settled) /\ tears'[u] = tears[u]
          BY <1>1, <2>2, <3>3 DEF TypeOK
        <4> QED
          BY <1>1, <2>1, <3>1, <4>1, WrittenLoss
      <3>4. CASE TearsAppend(t, settled)
        <4>1. PICK g \in Torn(log[t], puts[t] + 1) : log' = [log EXCEPT ![t] = g]
          BY <3>4 DEF TearsAppend
        <4>2. log'[u] \in Torn(log[u], puts[u] + 1) /\ tears'[u] = tears[u] + 1
          BY <1>1, <2>2, <3>4, <4>1 DEF TearsAppend, TypeOK
        <4> QED
          BY <1>1, <2>1, <3>1, <4>2, WrittenLoss
      <3> QED
        BY <2>1, <3>2, <3>3, <3>4
    <2>3. CASE u # t
      <3>1. /\ log'[u] = log[u] /\ tears'[u] = tears[u]
            /\ puts'[u] = puts[u] /\ acked'[u] = acked[u]
        BY <1>1, <2>1, <2>3 DEF TypeOK, TearsAppend
      <3> QED
        BY <1>1, <2>1, <3>1, UntouchedLoss
    <2> QED
      BY <2>2, <2>3
  <1>4. ASSUME NEW t \in Threads, Delete(t) \/ DeleteCut(t) PROVE Loss(u)'
    <2>1. /\ up /\ UNCHANGED <<legacy, puts, tears>>
          /\ log' = [log EXCEPT ![t] = NoLog]
          /\ acked' = [acked EXCEPT ![t] = {}]
      BY <1>4 DEF Delete, DeleteCut
    <2>2. CASE u = t
      <3>1. log'[u] = NoLog /\ acked'[u] = {}
        BY <1>1, <2>1, <2>2 DEF TypeOK
      <3> QED
        BY <1>1, <2>1, <3>1, WrittenLoss
    <2>3. CASE u # t
      <3>1. log'[u] = log[u] /\ acked'[u] = acked[u]
        BY <1>1, <2>1, <2>3 DEF TypeOK
      <3> QED
        BY <1>1, <2>1, <3>1, UntouchedLoss
    <2> QED
      BY <2>2, <2>3
  <1>5. ASSUME Crash \/ UNCHANGED vars PROVE Loss(u)'
    <2>1. UNCHANGED <<log, legacy, puts, acked, tears>> /\ (up' => up)
      BY <1>5 DEF Crash, Dies, vars
    <2> QED
      BY <1>1, <2>1, UntouchedLoss
  <1>6. ASSUME Recover PROVE Loss(u)'
    <2>1. /\ log'[u] = Scanned(Migrated(u)) /\ legacy'[u] = Parked(u)
          /\ UNCHANGED <<puts, acked, tears>>
      BY <1>6 DEF Recover
    <2> QED
      BY <1>1, <2>1, RecoveredLoss
  <1>7. ASSUME RecoverCut PROVE Loss(u)'
    <2>1. ~up' /\ UNCHANGED <<puts, acked, tears>>
      BY <1>7 DEF RecoverCut
    <2>2. \/ log'[u] = Scanned(Migrated(u)) /\ legacy'[u] = Parked(u)
          \/ log'[u] = Migrated(u) /\ legacy'[u] \in {Parked(u), legacy[u]}
          \/ log'[u] = log[u] /\ legacy'[u] = legacy[u]
      BY <1>7 DEF RecoverCut
    <2> QED
      BY <1>1, <2>1, <2>2, RecoveredLoss
  <1> QED
    BY <1>2, <1>3, <1>4, <1>5, <1>6, <1>7 DEF Next

(* With every kind of tear, and with failed writes that the daemon survives, *)
(* the acknowledged updates of a Thread that a restart would drop are never  *)
(* more than the appends that were cut (persist and readThread of store.ts). *)
THEOREM LossIsPaidFor == Spec => []LossIsBounded
  <1>1. LossInv => LossIsBounded
    <2> SUFFICES ASSUME LossInv, NEW t \in Threads
                 PROVE  Cardinality({v \in acked[t] : v > Readable(t)}) <= tears[t]
      BY DEF LossIsBounded
    <2> DEFINE f == Migrated(t)
    <2>1. /\ TypeOK /\ acked[t] \in SUBSET Nat /\ tears[t] \in Nat
          /\ IsFiniteSet(acked[t])
          /\ LossFits(f, acked[t], tears[t]) /\ LastFits(f, acked[t])
      BY DEF LossInv, Loss, TypeOK
    <2>2. f \in Log
      BY <2>1, MigratedType DEF TypeOK
    <2>3. {v \in acked[t] : v > Readable(t)} = Beyond(acked[t], Snapshot(f))
      BY DEF Readable, Beyond
    <2> HIDE DEF f
    <2>4. CASE f.open /\ Len(f.lines) \in ValidLines(f)
      <3>1. \A v \in acked[t] : v <= Snapshot(f)
        BY <2>1, <2>2, <2>4, SafeIs DEF LastFits
      <3>2. Snapshot(f) \in Nat
        BY <2>2, SnapshotType
      <3>3. \A v \in acked[t] : ~(v > Snapshot(f))
        BY <2>1, <3>1, <3>2
      <3>4. Beyond(acked[t], Snapshot(f)) = {}
        BY <3>3 DEF Beyond
      <3> QED
        BY <2>1, <2>3, <3>4, FS_EmptySet
    <2>5. CASE ~(f.open /\ Len(f.lines) \in ValidLines(f))
      <3>1. Safe(f) = Snapshot(f)
        BY <2>2, <2>5, SafeIs
      <3> DEFINE c == Cardinality(Beyond(acked[t], Snapshot(f)))
      <3>2. c \in Nat
        <4>1. IsFiniteSet(Beyond(acked[t], Snapshot(f)))
          BY <2>1, FS_Subset DEF Beyond
        <4> QED
          BY <4>1, FS_CardinalityType
      <3>3. Credit(f) \in Nat /\ c + Credit(f) <= tears[t]
        BY <2>1, <3>1 DEF LossFits, Credit
      <3> HIDE DEF c
      <3>4. c <= tears[t]
        BY <2>1, <3>2, <3>3
      <3> QED
        BY <2>3, <3>4 DEF c
    <2> QED
      BY <2>4, <2>5
  <1>2. Init => LossInv
    BY InitLoss
  <1>3. LossInv /\ TypeOK' /\ [Next]_vars => LossInv'
    BY StepLoss
  <1>4. Spec => []TypeOK
    BY StoreTypeCorrect
  <1> QED
    BY <1>1, <1>2, <1>3, <1>4, PTL DEF Spec
=============================================================================
