---------------------------- MODULE ThreadStore -----------------------------
(***************************************************************************)
(* ThreadStore (daemon/src/store.ts): one append-only JSONL log per        *)
(* Thread.  Every upsert appends a snapshot line, or rewrites the log to   *)
(* that one line; the last valid line wins when the log is read back.      *)
(*                                                                         *)
(* A snapshot is the number of the upsert that wrote it.  A log is the     *)
(* sequence of its non-empty physical lines together with whether the last *)
(* one still lacks its newline: an append to such a log fuses with that    *)
(* line, and neither record can be parsed any more.  Rewrites go through a *)
(* temporary file and rename, so they happen or do not; appends may be cut *)
(* short by a crash or by a failing write.                                 *)
(***************************************************************************)
EXTENDS Naturals, Sequences, FiniteSets

CONSTANTS
    Threads,          \* Thread ids
    CompactThreshold, \* COMPACT_THRESHOLD, 40 in the code
    Tears,            \* what a cut append may leave behind, see Torn
    WritesMayFail,    \* whether a write may fail while the daemon lives on
    MaxPuts,          \* bound: upserts tried per Thread
    MaxFaults         \* bound: crashes and failed writes together

ASSUME StoreAssumption ==
    /\ CompactThreshold \in Nat \ {0}
    /\ Tears \subseteq {"bytes", "newline"}
    /\ WritesMayFail \in BOOLEAN
    /\ MaxPuts \in Nat
    /\ MaxFaults \in Nat

VARIABLES
    up,      \* a daemon has recovered this store and runs
    log,     \* the .jsonl files
    legacy,  \* the whole-record .json files of older daemons
    mem,     \* sessions: the snapshot in memory, 0 when there is none
    counted, \* lineCounts: 0 when the log is not tracked in files
    puts,    \* how many upserts were tried: the number of the last one
    faults,  \* faults spent so far
    acked,   \* history: the snapshots whose upsert returned
    tears    \* history: appends cut short

vars == <<up, log, legacy, mem, counted, puts, faults, acked, tears>>

Fragment == 0         \* a line that does not parse
NoRecord == 0
OldSnapshot == 1     \* what a valid legacy file holds

Log   == [lines : Seq(Nat), open : BOOLEAN]
NoLog == [lines |-> <<>>, open |-> FALSE]

TypeOK ==
    /\ up \in BOOLEAN
    /\ log \in [Threads -> Log]
    /\ legacy \in [Threads -> {"none", "valid", "invalid"}]
    /\ mem \in [Threads -> Nat]
    /\ counted \in [Threads -> Nat]
    /\ puts \in [Threads -> Nat]
    /\ faults \in 0..MaxFaults
    /\ acked \in [Threads -> SUBSET Nat]
    /\ tears \in [Threads -> Nat]

-----------------------------------------------------------------------------
(* Files. *)

Rewritten(v) == [lines |-> <<v>>, open |-> FALSE]

Extended(f, v, open) ==
    [lines |-> IF f.open THEN [f.lines EXCEPT ![Len(f.lines)] = Fragment]
                         ELSE Append(f.lines, v),
     open |-> open]

Appended(f, v) == Extended(f, v, FALSE)

\* A cut append loses some bytes of the record, or its newline alone.
Torn(f, v) ==
    {Extended(f, IF cut = "newline" THEN v ELSE Fragment, TRUE) : cut \in Tears}

\* readThread: the last line that parses.
ValidLines(f) == {i \in 1..Len(f.lines) : f.lines[i] # Fragment}
Winner(f)     == CHOOSE i \in ValidLines(f) : \A j \in ValidLines(f) : j <= i
IsReadable(f) == ValidLines(f) # {}
Snapshot(f)   == IF IsReadable(f) THEN f.lines[Winner(f)] ELSE NoRecord
IsTorn(f)     == IsReadable(f) /\ Winner(f) # Len(f.lines)

-----------------------------------------------------------------------------
(* An older daemon may have left a legacy file, valid or not; after a      *)
(* rollback the log may already hold a newer snapshot than that file.      *)

Leftover(t) ==
    \/ /\ log[t] = NoLog /\ legacy[t] = "none"
       /\ puts[t] = 0 /\ acked[t] = {}
    \/ /\ log[t] = NoLog /\ legacy[t] = "invalid"
       /\ puts[t] = 1 /\ acked[t] = {}
    \/ /\ log[t] = NoLog /\ legacy[t] = "valid"
       /\ puts[t] = 1 /\ acked[t] = {1}
    \/ /\ log[t] = Rewritten(2) /\ legacy[t] = "valid"
       /\ puts[t] = 2 /\ acked[t] = {1, 2}

Init ==
    /\ up = FALSE
    /\ log \in [Threads -> {NoLog, Rewritten(2)}]
    /\ legacy \in [Threads -> {"none", "valid", "invalid"}]
    /\ puts \in [Threads -> 0..2]
    /\ acked \in [Threads -> {{}, {1}, {1, 2}}]
    /\ \A t \in Threads : Leftover(t)
    /\ mem = [t \in Threads |-> NoRecord]
    /\ counted = [t \in Threads |-> 0]
    /\ faults = 0
    /\ tears = [t \in Threads |-> 0]

Dies ==
    /\ faults < MaxFaults
    /\ faults' = faults + 1
    /\ up' = FALSE
    /\ mem' = [t \in Threads |-> NoRecord]
    /\ counted' = [t \in Threads |-> 0]

(* A new Thread gets a fresh id; a deleted one is never written again. *)
MayUpsert(t) ==
    /\ up
    /\ mem[t] # NoRecord \/ puts[t] = 0
    /\ puts[t] < MaxPuts
    /\ puts' = [puts EXCEPT ![t] = @ + 1]

\* Mutant: the threshold is compared one too late.
RewritesOneLate(t, settled) ==
    counted[t] = 0 \/ counted[t] > CompactThreshold \/ settled

\* settled: the Thread is resolved or carries operation receipts
Rewrites(t, settled) ==
    counted[t] = 0 \/ counted[t] >= CompactThreshold \/ settled

\* Mutant: the log gets the record the Map still holds.
StoredFromMap(t, settled) ==
    IF Rewrites(t, settled) THEN Rewritten(mem[t]) ELSE Appended(log[t], mem[t])

Stored(t, settled) ==
    LET v == puts[t] + 1 IN
    IF Rewrites(t, settled) THEN Rewritten(v) ELSE Appended(log[t], v)

Upsert(t, settled) ==
    /\ MayUpsert(t)
    /\ log' = [log EXCEPT ![t] = Stored(t, settled)]
    /\ counted' = [counted EXCEPT ![t] = IF Rewrites(t, settled) THEN 1 ELSE @ + 1]
    /\ mem' = [mem EXCEPT ![t] = puts[t] + 1]
    /\ acked' = [acked EXCEPT ![t] = @ \cup {puts[t] + 1}]
    /\ UNCHANGED <<up, legacy, faults, tears>>

\* The append of an upsert is cut short.
TearsAppend(t, settled) ==
    /\ ~Rewrites(t, settled)
    /\ \E f \in Torn(log[t], puts[t] + 1) : log' = [log EXCEPT ![t] = f]
    /\ tears' = [tears EXCEPT ![t] = @ + 1]

\* The daemon dies within an upsert: before, amid or after its write.
UpsertCut(t, settled) ==
    /\ MayUpsert(t)
    /\ Dies
    /\ \/ UNCHANGED <<log, tears>>
       \/ log' = [log EXCEPT ![t] = Stored(t, settled)] /\ UNCHANGED tears
       \/ TearsAppend(t, settled)
    /\ UNCHANGED <<legacy, acked>>

\* The write throws (no space left) and the daemon lives on.  Most callers
\* changed the record in place, so memory may already show the update.
UpsertFails(t, settled) ==
    /\ WritesMayFail
    /\ MayUpsert(t)
    /\ faults < MaxFaults
    /\ faults' = faults + 1
    /\ (UNCHANGED <<log, tears>>) \/ TearsAppend(t, settled)
    /\ \/ UNCHANGED mem
       \/ mem[t] # NoRecord /\ mem' = [mem EXCEPT ![t] = puts[t] + 1]
    /\ UNCHANGED <<up, legacy, counted, acked>>

\* Mutant: the record leaves memory and its log stays.
DeleteFromMemory(t) ==
    /\ up
    /\ mem[t] # NoRecord
    /\ mem' = [mem EXCEPT ![t] = NoRecord]
    /\ counted' = [counted EXCEPT ![t] = 0]
    /\ acked' = [acked EXCEPT ![t] = {}]
    /\ UNCHANGED <<up, log, legacy, puts, faults, tears>>

Delete(t) ==
    /\ up
    /\ mem[t] # NoRecord
    /\ mem' = [mem EXCEPT ![t] = NoRecord]
    /\ log' = [log EXCEPT ![t] = NoLog]
    /\ counted' = [counted EXCEPT ![t] = 0]
    /\ acked' = [acked EXCEPT ![t] = {}]
    /\ UNCHANGED <<up, legacy, puts, faults, tears>>

\* The daemon dies while deleting; only the removal of the file matters.
DeleteCut(t) ==
    /\ up
    /\ mem[t] # NoRecord
    /\ Dies
    /\ log' = [log EXCEPT ![t] = NoLog]
    /\ acked' = [acked EXCEPT ![t] = {}]
    /\ UNCHANGED <<legacy, puts, tears>>

Crash ==
    /\ up
    /\ Dies
    /\ UNCHANGED <<log, legacy, puts, acked, tears>>

-----------------------------------------------------------------------------
(* recover: migrateLegacy for every legacy file, then the scan of the logs.*)

\* Mutant: a legacy snapshot overwrites the log it finds.
MigratedOverLog(t) ==
    IF legacy[t] = "valid" THEN Rewritten(OldSnapshot) ELSE log[t]

Migrated(t) ==
    IF legacy[t] = "valid" /\ log[t] = NoLog
    THEN Rewritten(OldSnapshot)
    ELSE log[t]

Parked(t) == IF legacy[t] = "invalid" THEN "invalid" ELSE "none"

Scanned(f) == IF IsTorn(f) THEN Rewritten(Snapshot(f)) ELSE f

Recover ==
    /\ ~up
    /\ up' = TRUE
    /\ log' = [t \in Threads |-> Scanned(Migrated(t))]
    /\ legacy' = [t \in Threads |-> Parked(t)]
    /\ mem' = [t \in Threads |-> Snapshot(Migrated(t))]
    /\ counted' = [t \in Threads |-> IF IsReadable(Migrated(t))
                                     THEN Len(Scanned(Migrated(t)).lines)
                                     ELSE 0]
    /\ UNCHANGED <<puts, faults, acked, tears>>

\* The daemon dies within recover: some legacy files are migrated and parked,
\* one may be migrated only; the scan starts once all of them are parked.
RecoverCut ==
    /\ ~up
    /\ faults < MaxFaults
    /\ faults' = faults + 1
    /\ \E parked \in SUBSET Threads, scanned \in SUBSET Threads :
       \E migrated \in {parked} \cup {parked \cup {t} : t \in Threads} :
          /\ scanned # {} => parked = Threads
          /\ log' = [t \in Threads |->
                        IF t \in scanned THEN Scanned(Migrated(t))
                        ELSE IF t \in migrated THEN Migrated(t)
                        ELSE log[t]]
          /\ legacy' = [t \in Threads |->
                            IF t \in parked THEN Parked(t) ELSE legacy[t]]
    /\ UNCHANGED <<up, mem, counted, puts, acked, tears>>

Next ==
    \/ \E t \in Threads, settled \in BOOLEAN :
          Upsert(t, settled) \/ UpsertCut(t, settled) \/ UpsertFails(t, settled)
    \/ \E t \in Threads : Delete(t) \/ DeleteCut(t)
    \/ Crash \/ Recover \/ RecoverCut

Spec == Init /\ [][Next]_vars

-----------------------------------------------------------------------------
(* What recover would make of the files as they are. *)
Readable(t) == Snapshot(Migrated(t))

(* While the daemon serves, no log it will append to ends in a line without *)
(* its newline: recover's rewrite is what makes the next append safe.       *)
AppendsStartClean ==
    up => \A t \in Threads : counted[t] > 0 => ~log[t].open

(* "An update after a torn recovery must not fuse onto the torn fragment    *)
(* and vanish on restart": a snapshot whose upsert returned is read back,   *)
(* or a later one is, whatever the daemon died in meanwhile.                *)
AckedIsReadable ==
    \A t \in Threads : \A v \in acked[t] : v <= Readable(t)

(* With every kind of tear, and with failed writes the daemon survives, the *)
(* acknowledged updates a restart would drop are at most the torn appends.  *)
LossIsBounded ==
    \A t \in Threads :
        Cardinality({v \in acked[t] : v > Readable(t)}) <= tears[t]

(* No log outgrows the threshold, fragments included, so an active Thread's *)
(* file stays bounded between compactions.                                  *)
LogIsBounded == \A t \in Threads : Len(log[t].lines) <= CompactThreshold

(* The store implements a durable register per Thread.                      *)
Register == INSTANCE ThreadRegister WITH
    value <- [t \in Threads |-> IF up THEN mem[t] ELSE Readable(t)]

IsARegister == Register!Spec
=============================================================================
