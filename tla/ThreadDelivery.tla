--------------------------- MODULE ThreadDelivery ---------------------------
(***************************************************************************)
(* How a reviewer's Message travels from the daemon to the coding agent    *)
(* that submitted the Thread.                                              *)
(*                                                                         *)
(*  - DaemonCore (daemon/src/api.ts) keeps the Threads: each one has a     *)
(*    status, an artifact, the current Message and, in its history, every  *)
(*    Message ever sent.                                                   *)
(*  - HarnessStateStore (daemon/src/harness-state-store.ts) keeps, in      *)
(*    memory and in one file, which harness sessions are bound to a Thread *)
(*    and one delivery record per Message owed to the first of them.       *)
(*  - A harness adapter (adapters/src) fetches the pending deliveries of a *)
(*    binding, injects each Message into the native agent session, records *)
(*    it in its own journal and only then acknowledges it.                 *)
(*  - A waiter is a client parked in session.wait.                         *)
(*                                                                         *)
(* One event-loop turn of the daemon is one action.  The daemon may die    *)
(* after any of a turn's durable writes, and a write of the harness-state  *)
(* file may fail; both are part of the action whose turn it is.            *)
(***************************************************************************)
EXTENDS Naturals, Sequences, FiniteSets

CONSTANTS
    Threads,       \* Thread ids (fresh ids: a deleted Thread never returns)
    Sessions,      \* native harness sessions an adapter delivers into
    Waiters,       \* clients that call session.wait
    Contents,      \* artifact contents an agent may submit
    Operations,    \* operation ids an SDK client may attach to a send
    NoOperation,   \* a send without an operation id (the TUI and the CLI)
    MaxMessages,   \* bound: Messages per Thread
    MaxFaults,     \* bound: crashes, failed writes and adapter stops together
    WriteFaults    \* whether a write of the harness-state file may fail

ASSUME ConstantsAssumption ==
    /\ Contents # {}
    /\ NoOperation \notin Operations
    /\ MaxMessages \in Nat
    /\ MaxFaults \in Nat
    /\ WriteFaults \in BOOLEAN

VARIABLES
    up,        \* the daemon process is running
    thread,    \* the Thread records; upsert writes the log before memory
    mem,       \* HarnessStateStore in memory
    disk,      \* the harness-state file
    parked,    \* per Thread, the waiters parked in session.wait
    job,       \* per session, the adapter's delivery pass
    journal,   \* per session, the persisted set of injected Messages
    faults,    \* faults spent so far
    owed,      \* history: the <<session, message>> pairs each Thread promised
    injected,  \* history: per session and Thread, the injections in order
    cut,       \* history: per session, passes cut between send and record
    collected, \* history: per waiter, the <<thread, message>> pairs it got
    granted    \* history: the approved retries the daemon granted

daemonVars  == <<up, thread, mem, disk, parked>>
adapterVars == <<job, journal, injected, cut>>
vars == <<up, thread, mem, disk, parked, job, journal, faults,
          owed, injected, cut, collected, granted>>

-----------------------------------------------------------------------------
(* Messages of a Thread are numbered in the order they were sent, which is *)
(* their position among the history's message entries; 0 is "no message".  *)

Outcomes   == {"comment", "approved", "changes_requested"}
MessageIds == 1..MaxMessages

SentMessage == [outcome : Outcomes, content : Contents,
                operation : Operations \cup {NoOperation}]

ThreadRecord == [status : {"unborn", "pending", "resolved", "deleted"},
                 content : Contents,
                 message : Nat,
                 log : Seq(SentMessage)]

Binding  == [session : Sessions, retry : Nat]
Delivery == [session : Sessions, message : Nat, acked : BOOLEAN]

HarnessState == [bindings : [Threads -> Seq(Binding)],
                 deliveries : [Threads -> Seq(Delivery)]]

\* A pass holds the deliveries it fetched and has not finished; a delivery
\* is named by its place in the Thread's list, and carries its Message.
Job  == [thread : Threads,
         todo : (SUBSET [place : Nat, message : Nat]) \ {{}},
         step : {"send", "record", "ack"}]
Idle == [step |-> "idle"]

Grant == [thread : Threads, session : Sessions, message : Nat,
          content : Contents]

Exists(t) == thread[t].status \in {"pending", "resolved"}

NoHarnessState == [bindings |-> [t \in Threads |-> <<>>],
                   deliveries |-> [t \in Threads |-> <<>>]]

Unborn == [status |-> "unborn", content |-> CHOOSE c \in Contents : TRUE,
           message |-> 0, log |-> <<>>]

Init ==
    /\ up = TRUE
    /\ thread = [t \in Threads |-> Unborn]
    /\ mem = NoHarnessState
    /\ disk = NoHarnessState
    /\ parked = [t \in Threads |-> {}]
    /\ job = [s \in Sessions |-> Idle]
    /\ journal = [s \in Sessions |-> {}]
    /\ faults = 0
    /\ owed = [t \in Threads |-> {}]
    /\ injected = [s \in Sessions |-> [t \in Threads |-> <<>>]]
    /\ cut = [s \in Sessions |-> 0]
    /\ collected = [w \in Waiters |-> {}]
    /\ granted = <<>>

-----------------------------------------------------------------------------
(* HarnessStateStore *)

\* Mutant of Submitter: the newest binding takes the deliveries over.
NewestBinding(h, t) == h.bindings[t][Len(h.bindings[t])].session

\* The first binding is the submitter; later ones receive nothing.
HasSubmitter(h, t) == h.bindings[t] # <<>>
Submitter(h, t)    == h.bindings[t][1].session

Bound(h, t, s) == \E i \in DOMAIN h.bindings[t] : h.bindings[t][i].session = s

AddBinding(h, t, s) ==
    IF Bound(h, t, s)
    THEN h
    ELSE [h EXCEPT !.bindings[t] = Append(@, [session |-> s, retry |-> 0])]

Enqueued(h, t, s, n) ==
    \E i \in DOMAIN h.deliveries[t] :
        /\ h.deliveries[t][i].session = s
        /\ h.deliveries[t][i].message = n

\* reconcileDeliveries: one delivery of the current Message to the submitter
Reconcile(h, t, n) ==
    IF \/ n = 0
       \/ ~HasSubmitter(h, t)
       \/ Enqueued(h, t, Submitter(h, t), n)
    THEN h
    ELSE [h EXCEPT !.deliveries[t] =
             Append(@, [session |-> Submitter(h, t), message |-> n,
                        acked |-> FALSE])]

DropThread(h, t) ==
    [h EXCEPT !.bindings[t] = <<>>, !.deliveries[t] = <<>>]

\* A mutation changes memory first and then rewrites the file; a mutation
\* that finds nothing to do returns before it writes.
Persist(h) ==
    /\ mem' = h
    /\ disk' = IF h = mem THEN disk ELSE h

\* The write of a turn that fails leaves memory ahead of the file, which
\* holds what the turn's earlier writes saved.
PersistFails(h, saved) ==
    /\ WriteFaults
    /\ faults < MaxFaults
    /\ mem' = h
    /\ disk' = saved
    /\ faults' = faults + 1

\* The process dies with `h` in the file: connections drop, memory is gone.
DieWith(h) ==
    /\ faults < MaxFaults
    /\ faults' = faults + 1
    /\ up' = FALSE
    /\ mem' = h
    /\ disk' = h
    /\ parked' = [t \in Threads |-> {}]

PendingPlaces(h, t, s) ==
    {i \in DOMAIN h.deliveries[t] :
        /\ h.deliveries[t][i].session = s
        /\ ~h.deliveries[t][i].acked}

\* Mutant of Acknowledged: a delivery counts before it is acknowledged.
EnqueuedAtAll(h, t, s, n) == Enqueued(h, t, s, n)

Acknowledged(h, t, s, n) ==
    \E i \in DOMAIN h.deliveries[t] :
        /\ h.deliveries[t][i].session = s
        /\ h.deliveries[t][i].message = n
        /\ h.deliveries[t][i].acked

\* deliveryPending finds the body as the current Message or in the history
Readable(t, n) == n \in DOMAIN thread[t].log

-----------------------------------------------------------------------------
(* The daemon's handlers *)

CreateThread(t, c) ==
    /\ up
    /\ thread[t].status = "unborn"
    /\ thread' = [thread EXCEPT ![t].status = "pending", ![t].content = c]
    /\ UNCHANGED <<up, mem, disk, parked, faults, owed, collected, granted>>
    /\ UNCHANGED adapterVars

\* harness.bind: persist the binding, then reconcile the current Message.
Bind(t, s) ==
    /\ up
    /\ Exists(t)
    /\ LET n     == thread[t].message
           bound == AddBinding(mem, t, s)
           full  == Reconcile(bound, t, n)
           owes  == IF n = 0 THEN owed
                    ELSE [owed EXCEPT ![t] = @ \cup {<<Submitter(bound, t), n>>}]
       IN  \/ /\ Persist(full)
              /\ owed' = owes
              /\ UNCHANGED <<up, parked, faults>>
           \/ /\ bound # mem
              /\ PersistFails(bound, disk)
              /\ UNCHANGED <<up, parked, owed>>
           \/ /\ full # bound
              /\ PersistFails(full, IF bound = mem THEN disk ELSE bound)
              /\ owed' = owes
              /\ UNCHANGED <<up, parked>>
           \/ /\ bound # mem
              /\ DieWith(bound)
              /\ owed' = owes
    /\ UNCHANGED <<thread, collected, granted>>
    /\ UNCHANGED adapterVars

\* The Thread as sessionSendMessage stores it.
Sent(t, o, op) ==
    [thread[t] EXCEPT
        !.status = IF o = "comment" THEN "pending" ELSE "resolved",
        !.message = Len(thread[t].log) + 1,
        !.log = Append(@, [outcome |-> o, content |-> thread[t].content,
                           operation |-> op])]

\* Mutant of HasReceipt: only the current Message is looked at.
HasCurrentReceipt(t, op) ==
    /\ op # NoOperation
    /\ thread[t].message # 0
    /\ thread[t].log[thread[t].message].operation = op

\* An operation id that was accepted before returns its receipt instead.
HasReceipt(t, op) ==
    /\ op # NoOperation
    /\ \E n \in DOMAIN thread[t].log : thread[t].log[n].operation = op

\* Mutant of Release: the parked callers are forgotten.
ReleaseNobody(t, n) == UNCHANGED <<parked, collected>>

\* A resolving Message releases everybody parked on the Thread.
Release(t, n) ==
    /\ parked' = [parked EXCEPT ![t] = {}]
    /\ collected' = [w \in Waiters |->
                        IF w \in parked[t] THEN collected[w] \cup {<<t, n>>}
                        ELSE collected[w]]

(* session.sendMessage: one durable upsert of the Thread (status, Message, *)
(* history entry and receipt together), then the delivery, then the wake.  *)
SendMessage(t, o, op) ==
    /\ up
    /\ thread[t].status = "pending"
    /\ ~HasReceipt(t, op)
    /\ Len(thread[t].log) < MaxMessages
    /\ thread' = [thread EXCEPT ![t] = Sent(t, o, op)]
    /\ LET n    == Len(thread[t].log) + 1
           full == Reconcile(mem, t, n)
       IN  /\ owed' = IF HasSubmitter(mem, t)
                      THEN [owed EXCEPT ![t] = @ \cup {<<Submitter(mem, t), n>>}]
                      ELSE owed
           /\ \/ /\ Persist(full)
                 /\ IF o = "comment" THEN UNCHANGED <<parked, collected>>
                                     ELSE Release(t, n)
                 /\ UNCHANGED <<up, faults>>
              \/ /\ full # mem
                 /\ PersistFails(full, disk)
                 /\ UNCHANGED <<up, parked, collected>>
              \/ /\ DieWith(disk)
                 /\ UNCHANGED collected
    /\ UNCHANGED <<granted>>
    /\ UNCHANGED adapterVars

\* session.submitRevision reopens the Thread whatever its status.
SubmitRevision(t, c) ==
    /\ up
    /\ Exists(t)
    /\ thread' = [thread EXCEPT ![t].status = "pending", ![t].content = c,
                                ![t].message = 0]
    /\ UNCHANGED <<up, mem, disk, parked, faults, owed, collected, granted>>
    /\ UNCHANGED adapterVars

\* session.delete: the log file, then the harness state, then the waiters.
DeleteThread(t) ==
    /\ up
    /\ Exists(t)
    /\ thread' = [thread EXCEPT ![t] = [Unborn EXCEPT !.status = "deleted"]]
    /\ \/ /\ Persist(DropThread(mem, t))
          /\ parked' = [parked EXCEPT ![t] = {}]
          /\ UNCHANGED <<up, faults>>
       \/ /\ HasSubmitter(mem, t)
          /\ PersistFails(DropThread(mem, t), disk)
          /\ UNCHANGED <<up, parked>>
       \/ DieWith(disk)
    /\ UNCHANGED <<owed, collected, granted>>
    /\ UNCHANGED adapterVars

(* harness.consumeApprovedRetry: the agent submits, once more and without  *)
(* a change, the plan the reviewer has just approved.                      *)
ConsumeApprovedRetry(t, s, n, c) ==
    /\ up
    /\ thread[t].status = "resolved"
    /\ thread[t].message = n
    /\ thread[t].log[n].outcome = "approved"
    /\ thread[t].content = c
    /\ HasSubmitter(mem, t)
    /\ Submitter(mem, t) = s
    /\ Acknowledged(mem, t, s, n)
    /\ mem.bindings[t][1].retry # n
    /\ LET used == [mem EXCEPT !.bindings[t][1].retry = n]
       IN  \/ /\ Persist(used)
              /\ granted' = Append(granted, [thread |-> t, session |-> s,
                                             message |-> n, content |-> c])
              /\ UNCHANGED faults
           \/ /\ PersistFails(used, disk)
              /\ UNCHANGED granted
    /\ UNCHANGED <<up, thread, parked, owed, collected>>
    /\ UNCHANGED adapterVars

-----------------------------------------------------------------------------
(* session.wait *)

\* Mutant of Wait: parks without looking at the status first.
WaitAlways(w, t) ==
    /\ up
    /\ Exists(t)
    /\ w \notin parked[t]
    /\ parked' = [parked EXCEPT ![t] = @ \cup {w}]
    /\ UNCHANGED <<up, thread, mem, disk, faults, owed, collected, granted>>
    /\ UNCHANGED adapterVars

Wait(w, t) ==
    /\ up
    /\ Exists(t)
    /\ w \notin parked[t]
    /\ IF thread[t].status = "resolved"
       THEN /\ collected' = [collected EXCEPT ![w] = @ \cup {<<t, thread[t].message>>}]
            /\ UNCHANGED parked
       ELSE /\ parked' = [parked EXCEPT ![t] = @ \cup {w}]
            /\ UNCHANGED collected
    /\ UNCHANGED <<up, thread, mem, disk, faults, owed, granted>>
    /\ UNCHANGED adapterVars

\* The chunk's timer: the caller gets null and asks again later.
WaitTimesOut(w, t) ==
    /\ w \in parked[t]
    /\ parked' = [parked EXCEPT ![t] = @ \ {w}]
    /\ UNCHANGED <<up, thread, mem, disk, faults, owed, collected, granted>>
    /\ UNCHANGED adapterVars

-----------------------------------------------------------------------------
(* The daemon process *)

Crash ==
    /\ up
    /\ DieWith(disk)
    /\ UNCHANGED <<thread, owed, collected, granted>>
    /\ UNCHANGED adapterVars

\* Mutant of Reconciled: start-up trusts the file.
NotReconciled == disk

\* Every Thread that the new process finds is reconciled first ...
Reconciled ==
    [bindings |-> disk.bindings,
     deliveries |-> [t \in Threads |->
         IF Exists(t) THEN Reconcile(disk, t, thread[t].message).deliveries[t]
                      ELSE disk.deliveries[t]]]

HasPending(h, t) == \E i \in DOMAIN h.deliveries[t] : ~h.deliveries[t][i].acked

\* Mutant of Prunable: retention runs before the reconciliation.
PrunableEarly == {t \in Threads : thread[t].status = "resolved" /\ ~HasPending(disk, t)}

\* ... then retention may prune old resolved Threads that owe nothing ...
Prunable == {t \in Threads : /\ thread[t].status = "resolved"
                             /\ ~HasPending(Reconciled, t)}

\* Mutant of WithoutOrphans: the routing of a lost Thread stays.
WithOrphans(h, kept) == h

\* ... and the routing of every Thread that is gone is dropped.
WithoutOrphans(h, kept) ==
    [bindings |-> [t \in Threads |-> IF t \in kept THEN h.bindings[t] ELSE <<>>],
     deliveries |-> [t \in Threads |-> IF t \in kept THEN h.deliveries[t] ELSE <<>>]]

Start ==
    /\ ~up
    /\ up' = TRUE
    /\ \E expired \in SUBSET Prunable :
         LET kept  == {t \in Threads : Exists(t)} \ expired
             state == WithoutOrphans(Reconciled, kept)
         IN  /\ thread' = [t \in Threads |->
                             IF t \in expired THEN [Unborn EXCEPT !.status = "deleted"]
                             ELSE thread[t]]
             /\ mem' = state
             /\ disk' = state
    /\ UNCHANGED <<parked, faults, owed, collected, granted>>
    /\ UNCHANGED adapterVars

-----------------------------------------------------------------------------
(* A harness adapter: HarnessThreadController.deliverPending with a         *)
(* DeliveredMessageStore behind sendMessage.                                *)

Busy(s) == job[s].step # "idle"

\* Pending deliveries go out in the order they were enqueued.
Foremost(s) == CHOOSE d \in job[s].todo : \A e \in job[s].todo : d.place <= e.place

Fetch(s, t) ==
    /\ up
    /\ ~Busy(s)
    /\ Exists(t)
    /\ Bound(mem, t, s)
    /\ PendingPlaces(mem, t, s) # {}
    /\ \A i \in PendingPlaces(mem, t, s) : Readable(t, mem.deliveries[t][i].message)
    /\ job' = [job EXCEPT ![s] =
          [thread |-> t, step |-> "send",
           todo |-> {[place |-> i, message |-> mem.deliveries[t][i].message] :
                        i \in PendingPlaces(mem, t, s)}]]
    /\ UNCHANGED <<daemonVars, journal, injected, cut, faults, owed, collected, granted>>

\* sendOnce: a Message the journal has is not injected again.
Inject(s) ==
    /\ job[s].step = "send"
    /\ LET t == job[s].thread
           n == Foremost(s).message
       IN  IF <<t, n>> \in journal[s]
           THEN /\ job' = [job EXCEPT ![s].step = "ack"]
                /\ UNCHANGED injected
           ELSE /\ job' = [job EXCEPT ![s].step = "record"]
                /\ injected' = [injected EXCEPT ![s][t] = Append(@, n)]
    /\ UNCHANGED <<daemonVars, journal, cut, faults, owed, collected, granted>>

\* Mutant of Record: the injection is remembered by the process only.
RecordNothing(s) ==
    /\ job[s].step = "record"
    /\ job' = [job EXCEPT ![s].step = "ack"]
    /\ UNCHANGED <<daemonVars, journal, injected, cut, faults, owed, collected, granted>>

Record(s) ==
    /\ job[s].step = "record"
    /\ journal' = [journal EXCEPT ![s] = @ \cup {<<job[s].thread, Foremost(s).message>>}]
    /\ job' = [job EXCEPT ![s].step = "ack"]
    /\ UNCHANGED <<daemonVars, injected, cut, faults, owed, collected, granted>>

\* Mutant of Advance: the rest of the batch is acknowledged unsent.
AdvanceToAck(s) ==
    LET left == job[s].todo \ {Foremost(s)}
    IN  job' = [job EXCEPT ![s] =
                   IF left = {} THEN Idle ELSE [@ EXCEPT !.todo = left, !.step = "ack"]]

\* The pass goes on with the next delivery, or ends.
Advance(s) ==
    LET left == job[s].todo \ {Foremost(s)}
    IN  job' = [job EXCEPT ![s] =
                   IF left = {} THEN Idle
                   ELSE [@ EXCEPT !.todo = left, !.step = "send"]]

\* delivery.acknowledge: unknown ids are refused and end the pass.
Acknowledge(s) ==
    /\ up
    /\ job[s].step = "ack"
    /\ LET t == job[s].thread
           d == Foremost(s)
           known == /\ d.place \in DOMAIN mem.deliveries[t]
                    /\ mem.deliveries[t][d.place].session = s
                    /\ mem.deliveries[t][d.place].message = d.message
           done == [mem EXCEPT !.deliveries[t][d.place].acked = TRUE]
       IN  \/ /\ known
              /\ Persist(done)
              /\ Advance(s)
              /\ UNCHANGED faults
           \/ /\ known
              /\ done # mem
              /\ PersistFails(done, disk)
              /\ job' = [job EXCEPT ![s] = Idle]
           \/ /\ ~known
              /\ job' = [job EXCEPT ![s] = Idle]
              /\ UNCHANGED <<mem, disk, faults>>
    /\ UNCHANGED <<up, thread, parked, journal, injected, cut, owed, collected, granted>>

\* The adapter dies, or a call of its fails, or a reply is lost: the pass
\* is abandoned where it stands and the journal file is all that survives.
AdapterStops(s) ==
    /\ Busy(s)
    /\ faults < MaxFaults
    /\ faults' = faults + 1
    /\ job' = [job EXCEPT ![s] = Idle]
    /\ cut' = IF job[s].step = "record" THEN [cut EXCEPT ![s] = @ + 1] ELSE cut
    /\ UNCHANGED <<daemonVars, journal, injected, owed, collected, granted>>

-----------------------------------------------------------------------------
Next ==
    \/ \E t \in Threads :
         \/ \E c \in Contents : CreateThread(t, c) \/ SubmitRevision(t, c)
         \/ \E s \in Sessions : Bind(t, s) \/ Fetch(s, t)
         \/ \E o \in Outcomes, op \in Operations \cup {NoOperation} : SendMessage(t, o, op)
         \/ DeleteThread(t)
         \/ \E s \in Sessions, n \in MessageIds, c \in Contents :
               ConsumeApprovedRetry(t, s, n, c)
         \/ \E w \in Waiters : Wait(w, t) \/ WaitTimesOut(w, t)
    \/ Crash
    \/ Start
    \/ \E s \in Sessions : Inject(s) \/ Record(s) \/ Acknowledge(s) \/ AdapterStops(s)

Spec == Init /\ [][Next]_vars

-----------------------------------------------------------------------------
(* Type invariant: every variable stays within the shapes declared above.  *)
TypeOK ==
    /\ up \in BOOLEAN
    /\ thread \in [Threads -> ThreadRecord]
    /\ mem \in HarnessState
    /\ disk \in HarnessState
    /\ parked \in [Threads -> SUBSET Waiters]
    /\ job \in [Sessions -> Job \cup {Idle}]
    /\ journal \in [Sessions -> SUBSET (Threads \X Nat)]
    /\ faults \in 0..MaxFaults
    /\ owed \in [Threads -> SUBSET (Sessions \X Nat)]
    /\ injected \in [Sessions -> [Threads -> Seq(Nat)]]
    /\ cut \in [Sessions -> Nat]
    /\ collected \in [Waiters -> SUBSET (Threads \X Nat)]
    /\ granted \in Seq(Grant)

(* No promised Message is lost.  While the daemon runs, every Message that *)
(* was sent on a bound Thread, or was current when the Thread was bound,   *)
(* has its delivery record; while it is down the record is in the file or  *)
(* the restart's reconciliation will recreate it.  It relates the Thread   *)
(* log to the harness-state file across a death between the two writes of  *)
(* sessionSendMessage and harnessBind (api.ts).                            *)
PromisesAreRouted ==
    \A t \in Threads : Exists(t) =>
        \A p \in owed[t] :
            \/ Enqueued(IF up THEN mem ELSE disk, t, p[1], p[2])
            \/ /\ ~up
               /\ thread[t].message = p[2]
               /\ HasSubmitter(disk, t)
               /\ Submitter(disk, t) = p[1]

(* deliveryPending never fails with not_found: routing state never         *)
(* outlives its Thread, and every delivery's Message is in the history,    *)
(* whatever revisions, deletions, pruning and restarts came in between.    *)
RoutingIsReadable ==
    up => \A t \in Threads :
        /\ mem.bindings[t] # <<>> => Exists(t)
        /\ \A i \in DOMAIN mem.deliveries[t] :
              /\ Bound(mem, t, mem.deliveries[t][i].session)
              /\ Readable(t, mem.deliveries[t][i].message)

(* An acknowledged delivery was injected and journalled by that session's  *)
(* adapter: acknowledgement never runs ahead of the native send, in memory *)
(* or in the file (deliverPending, sendOnce, acknowledge).                 *)
AcknowledgedWasInjected ==
    \A h \in {mem, disk}, t \in Threads :
        \A i \in DOMAIN h.deliveries[t] : h.deliveries[t][i].acked =>
            LET s == h.deliveries[t][i].session
                n == h.deliveries[t][i].message
            IN  /\ <<t, n>> \in journal[s]
                /\ \E k \in DOMAIN injected[s][t] : injected[s][t][k] = n

(* A Message enters a session exactly once, except that a pass cut between *)
(* the native send and the journal write repeats that one Message: a lost  *)
(* acknowledgement, a daemon restart or a stale pending list repeat none.  *)
RepeatsNeedACut ==
    \A s \in Sessions, t \in Threads :
        LET runs == injected[s][t]
        IN  Len(runs) <= Cardinality({runs[i] : i \in DOMAIN runs}) + cut[s]

(* An approved retry is granted once per Message, across restarts, only    *)
(* for the content the reviewer approved, and only after the approval      *)
(* reached the session that submitted it (harnessConsumeApprovedRetry).    *)
RetryIsEarned ==
    \A i \in DOMAIN granted :
        LET g == granted[i]
        IN  /\ \A j \in DOMAIN granted :
                  /\ granted[j].thread = g.thread
                  /\ granted[j].message = g.message
                  => i = j
            /\ <<g.thread, g.message>> \in journal[g.session]
            /\ Exists(g.thread) =>
                  /\ thread[g.thread].log[g.message].outcome = "approved"
                  /\ thread[g.thread].log[g.message].content = g.content

(* No lost wakeup: nobody stays parked in session.wait on a Thread that is *)
(* resolved or gone.                                                       *)
NobodyParkedOnAClosedThread ==
    \A t \in Threads : parked[t] # {} => thread[t].status = "pending"

(* The SDK's promise to a client that retries a send after a lost reply:   *)
(* one operation id is at most one Message, also across a restart.         *)
OneMessagePerOperation ==
    \A t \in Threads :
        \A i, j \in DOMAIN thread[t].log :
            /\ thread[t].log[i].operation # NoOperation
            /\ thread[t].log[i].operation = thread[t].log[j].operation
            => i = j

(* Retention at start-up never discards a Thread that still owes its       *)
(* submitter a Message, counting the delivery that the crashed process had *)
(* no time to write.                                                       *)
PruneOnlySettled ==
    [][~up => \A t \in Threads :
          Exists(t) /\ ~Exists(t)' =>
              \A p \in owed[t] : Acknowledged(disk, t, p[1], p[2])]_vars

(* The whole machinery implements the contract of DeliveryContract: what   *)
(* counts as settled is what the file says.                                *)
Contract == INSTANCE DeliveryContract
                WITH promised <- owed,
                     handed   <- injected,
                     settled  <- [t \in Threads |->
                         {<<disk.deliveries[t][i].session, disk.deliveries[t][i].message>> :
                             i \in {j \in DOMAIN disk.deliveries[t] :
                                       disk.deliveries[t][j].acked}}]

HonoursContract == Contract!ContractSpec

-----------------------------------------------------------------------------
(* Fairness: a client or an adapter that needs the daemon starts it        *)
(* (autostart); an adapter polls (codex/delivery-service.ts) or is nudged  *)
(* by events; a waiter calls session.wait again after each null.           *)
Fairness ==
    /\ WF_vars(Start)
    /\ \A s \in Sessions :
          /\ WF_vars(Inject(s))
          /\ WF_vars(Record(s))
          /\ WF_vars(Acknowledge(s))
          /\ \A t \in Threads : SF_vars(Fetch(s, t))
    /\ \A w \in Waiters, t \in Threads :
          /\ WF_vars(Wait(w, t))
          /\ WF_vars(WaitTimesOut(w, t))

FairSpec == Spec /\ Fairness

(* Every promised Message is eventually acknowledged by its session, or    *)
(* the Thread is deleted, unless a write of the harness-state file fails:  *)
(* a daemon whose memory is ahead of its file forgets a delivery when it   *)
(* dies, and reconciliation restores it for the current Message only.      *)
PromisesAreKept ==
    [](up => mem = disk) =>
        \A t \in Threads, s \in Sessions, n \in MessageIds :
            <<s, n>> \in owed[t] ~> (~Exists(t) \/ Acknowledged(disk, t, s, n))

(* A client that keeps calling session.wait collects the resolving Message *)
(* unless the Thread is reopened or deleted first.                         *)
WaitersAreServed ==
    \A w \in Waiters, t \in Threads, n \in MessageIds :
        (thread[t].status = "resolved" /\ thread[t].message = n)
            ~> (<<t, n>> \in collected[w] \/ thread[t].message # n)
=============================================================================
