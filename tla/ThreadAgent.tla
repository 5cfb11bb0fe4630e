---------------------------- MODULE ThreadAgent -----------------------------
(***************************************************************************)
(* ThreadAgentManager (daemon/src/thread-agent.ts) for one Thread: it      *)
(* queues the reviewer's inputs, answers them one at a time through a      *)
(* harness connection it opens when it needs one, and keeps inputs, phase  *)
(* and operation receipts in one file.  Threads that never switch harness  *)
(* (no handoff) are modelled.                                              *)
(*                                                                         *)
(* An action is one turn of the event loop: a client's request, or an      *)
(* answer, exit or event of a harness, with the promise continuations it   *)
(* releases.  The manager is one record, so that a handler which saves,    *)
(* drains and connects in turn is one composition of operators on it.      *)
(***************************************************************************)
EXTENDS Naturals, Sequences, FiniteSets

CONSTANTS
    Connections,  \* identities of harness connections; a closed one is reused
    NoConnection,
    Operations,   \* operation ids of prompts
    Durable,      \* the adapter's recovery is "durable"
    MaxInputs,    \* bound: submissions of the Thread
    MaxAttempts,  \* bound: attempts of one submission
    MaxFaults     \* bound: crashes, exits and failed starts and requests

ASSUME AgentAssumption ==
    /\ NoConnection \notin Connections
    /\ Connections # {}
    /\ Durable \in BOOLEAN
    /\ MaxInputs \in Nat
    /\ MaxAttempts \in Nat \ {0}
    /\ MaxFaults \in Nat

VARIABLES
    up,       \* the daemon runs
    m,        \* the manager's memory of this Thread
    file,     \* thread-agents/<id>.json
    removal,  \* remove(): "no", "asked", "closing", "done"
    faults,   \* faults spent so far
    stalled   \* history: a connection to resume the queue failed to start

vars == <<up, m, file, removal, faults, stalled>>

Phases    == {"idle", "running", "permission", "failed"}
Statuses  == {"queued", "running", "completed", "failed"}
Outcomes  == {"open", "completed", "failed", "cancelled"}
Turns     == {"idle", "starting", "unwanted", "running", "stopping"}
              \* "unwanted": starting and already cancelled
Stages    == {"none", "starting", "ready", "prompting", "failing"}
Inputs    == 1..MaxInputs
SomeConnection == Connections \cup {NoConnection}

Submission == [status : Statuses, cancelled : BOOLEAN, attempt : 1..MaxAttempts]
Receipt    == [batch : SUBSET Inputs, outcome : Outcomes]

Record == [phase : Phases, subs : Seq(Submission),
           receipts : [Operations -> Receipt]]

Manager ==
    [phase : Phases,
     subs : Seq(Submission),
     receipts : [Operations -> Receipt],
     active : SomeConnection,                       \* active.get(id)
     turn : [Connections -> Turns],                 \* ActiveAgent.turn
     state : [Connections -> {"starting", "open", "broken", "closed"}],
     retiring : BOOLEAN,                            \* retiring.has(id)
     closing : SomeConnection,                      \* what retire() closes
     run : [Inputs -> [at : Stages, conn : SomeConnection]],
     configuring : {"none", "parked", "starting"},  \* configure()
     choice : BOOLEAN]                              \* ... with a value to set

TypeOK ==
    /\ up \in BOOLEAN
    /\ m \in Manager
    /\ Len(m.subs) <= MaxInputs
    /\ file \in Record
    /\ removal \in {"no", "asked", "closing", "done"}
    /\ faults \in 0..MaxFaults
    /\ stalled \in BOOLEAN

-----------------------------------------------------------------------------
NoReceipts == [o \in Operations |-> [batch |-> {}, outcome |-> "open"]]
NoFile == [phase |-> "idle", subs |-> <<>>, receipts |-> NoReceipts]
AtRest == [at |-> "none", conn |-> NoConnection]

Loaded(r) ==
    [phase |-> r.phase, subs |-> r.subs, receipts |-> r.receipts,
     active |-> NoConnection,
     turn |-> [c \in Connections |-> "idle"],
     state |-> [c \in Connections |-> "closed"],
     retiring |-> FALSE, closing |-> NoConnection,
     run |-> [s \in Inputs |-> AtRest],
     configuring |-> "none", choice |-> FALSE]

Busy(x)      == x.phase \in {"running", "permission"}
Queued(x)    == {s \in DOMAIN x.subs : x.subs[s].status = "queued"}
Running(x)   == {s \in DOMAIN x.subs : x.subs[s].status = "running"}
Unsettled(x) == Queued(x) \cup Running(x)
\* Mutant of First: the input that came last.
LastOf(S)    == CHOOSE s \in S : \A r \in S : r <= s
First(S)     == CHOOSE s \in S : \A r \in S : s <= r
Starting(x)  == {c \in Connections : x.state[c] = "starting"}  \* initializing
Waiting(x, c, stages) == {s \in Inputs : x.run[s].conn = c /\ x.run[s].at \in stages}
Unused(x)    == {c \in Connections : x.state[c] = "closed" /\ x.closing # c
                                     /\ x.active # c /\ Waiting(x, c, Stages) = {}}

-----------------------------------------------------------------------------
(* Receipts: the outcome of an operation is fixed when all of its          *)
(* submissions have settled, on the next save or load.                     *)

Outcome(x, batch) ==
    IF \E s \in batch : x.subs[s].cancelled THEN "cancelled"
    ELSE IF \E s \in batch : x.subs[s].status = "failed" THEN "failed"
    ELSE "completed"

\* Mutant: a receipt that has its outcome is settled again.
SettlesAgain(x, r) == r.batch # {} /\ r.batch \cap Unsettled(x) = {}

Settles(x, r) ==
    r.outcome = "open" /\ r.batch # {} /\ r.batch \cap Unsettled(x) = {}

Settled(x) ==
    [x EXCEPT !.receipts =
        [o \in Operations |->
            IF Settles(x, x.receipts[o])
            THEN [x.receipts[o] EXCEPT !.outcome = Outcome(x, x.receipts[o].batch)]
            ELSE x.receipts[o]]]

SavedRecord(x) == [phase |-> x.phase, subs |-> x.subs, receipts |-> x.receipts]

(* A handler that ends in save(); a removed Thread is not written again. *)
Save(x) ==
    \E y \in {Settled(x)} :
        /\ m' = y
        /\ file' = IF removal = "no" THEN SavedRecord(y) ELSE file

Forget(x) == m' \in {x} /\ UNCHANGED file

-----------------------------------------------------------------------------
(* Connections. *)

(* startConnection without an active agent: a process is started. *)
Opened(x, c) ==
    [x EXCEPT !.active = c, !.state[c] = "starting", !.turn[c] = "starting"]

(* stepAgentTurn: "ready" consumes a cancellation, "start" needs an idle    *)
(* turn, and the active connection gets both when it is used again.        *)
Ready(t)    == CASE t = "starting" -> "running" [] t = "unwanted" -> "idle" [] OTHER -> t
Started(t)  == IF t = "idle" THEN "starting" ELSE t
Stopped(t)  == CASE t \in {"starting", "unwanted"} -> "unwanted"
                 [] t = "running" -> "stopping" [] OTHER -> t
NextTurn(x, c) == [x EXCEPT !.turn[c] = Ready(Started(@))]

Finished(x, c) == [x EXCEPT !.turn[c] = "idle"]

(* connect() by the run of submission s: wait for the connection that is   *)
(* starting, use the active one, or start one.                             *)
Connected(x, s) ==
    IF Starting(x) # {} THEN
        [x EXCEPT !.run[s] = [at |-> "starting", conn |-> CHOOSE c \in Starting(x) : TRUE]]
    ELSE IF x.active # NoConnection THEN
        [NextTurn(x, x.active) EXCEPT !.run[s] = [at |-> "ready", conn |-> x.active]]
    ELSE LET c == CHOOSE d \in Unused(x) : TRUE IN
        [Opened(x, c) EXCEPT !.run[s] = [at |-> "starting", conn |-> c]]

\* Mutant: a turn that is under way does not keep the queue waiting.
DrainedAlways(x) ==
    IF x.retiring \/ removal # "no" \/ Queued(x) = {} THEN x
    ELSE LET s == First(Queued(x)) IN
         Connected([x EXCEPT !.phase = "running", !.subs[s].status = "running"], s)

(* drain(): start the first queued submission unless a turn is under way.  *)
Drained(x) ==
    IF Busy(x) \/ x.retiring \/ removal # "no" \/ Queued(x) = {} THEN x
    ELSE LET s == First(Queued(x)) IN
         Connected([x EXCEPT !.phase = "running", !.subs[s].status = "running"], s)

\* Mutant: the input after a cancelled one is not drained.
RequestedAlone(x, s) ==
    IF removal # "no" THEN [x EXCEPT !.run[s] = AtRest]
    ELSE IF x.turn[x.run[s].conn] = "idle" THEN
        [x EXCEPT !.run[s] = AtRest, !.subs[s].status = "failed", !.phase = "idle"]
    ELSE [x EXCEPT !.run[s].at = "prompting"]

(* The run of s has its connection.  It makes its request unless the turn  *)
(* was cancelled while the connection started.                             *)
Requested(x, s) ==
    IF removal # "no" THEN [x EXCEPT !.run[s] = AtRest]
    ELSE IF x.turn[x.run[s].conn] = "idle" THEN
        Drained([x EXCEPT !.run[s] = AtRest, !.subs[s].status = "failed",
                          !.phase = "idle"])
    ELSE [x EXCEPT !.run[s].at = "prompting"]

\* Mutant: the connection of a failed run is forgotten and not closed.
FailedOpen(x, s) ==
    LET y == [x EXCEPT !.subs[s].status = "failed", !.phase = "failed",
                       !.run[s].at = "failing"]
    IN IF x.retiring THEN y ELSE [y EXCEPT !.active = NoConnection, !.retiring = TRUE]

(* The catch of run(): the submission fails and its connection is retired; *)
(* what it changed is saved when the connection is closed.                 *)
Failed(x, s) ==
    LET y == [x EXCEPT !.subs[s].status = "failed", !.phase = "failed",
                       !.run[s].at = "failing"]
    IN IF x.retiring THEN y
       ELSE [y EXCEPT !.active = NoConnection, !.retiring = TRUE,
                      !.closing = x.run[s].conn]

FailedOn(x, c) ==
    LET hit == Waiting(x, c, {"starting", "prompting"}) IN
    IF hit = {} THEN x ELSE Failed(x, First(hit))

(* configure() has its connection: it ends its turn, or sets a choice and  *)
(* leaves the turn as it is.                                               *)
Configured(x, c) ==
    LET y == [x EXCEPT !.configuring = "none"] IN
    IF removal # "no" \/ x.choice THEN y
    ELSE IF Busy(x) THEN y ELSE Drained(Finished(y, c))

Connecting(x) ==
    IF Starting(x) # {} THEN [x EXCEPT !.configuring = "starting"]
    ELSE IF x.active # NoConnection THEN Configured(NextTurn(x, x.active), x.active)
    ELSE LET c == CHOOSE d \in Unused(x) : TRUE IN
        [Opened(x, c) EXCEPT !.configuring = "starting"]

-----------------------------------------------------------------------------
(* Requests of clients. *)

Init ==
    /\ up = TRUE
    /\ m = Loaded(NoFile)
    /\ file = NoFile
    /\ removal = "no"
    /\ faults = 0
    /\ stalled = FALSE

Serving == up /\ removal = "no"

Accepted(x, op, batch) ==
    IF op = {} THEN x
    ELSE [x EXCEPT !.receipts = [o \in Operations |->
             IF o \in op THEN [batch |-> batch, outcome |-> "open"] ELSE @[o]]]

(* An operation id that has its receipt is not accepted again. *)
Fresh(op) == \A o \in op : m.receipts[o].batch = {}

(* prompt(): one input, or the pending comments and a text at once. *)
Prompt(n, op) ==
    /\ Serving
    /\ Fresh(op)
    /\ Len(m.subs) + n <= MaxInputs
    /\ LET batch == Len(m.subs) + 1 .. Len(m.subs) + n
           new == [i \in 1..n |-> [status |-> "queued", cancelled |-> FALSE, attempt |-> 1]]
       IN Save(Drained(Accepted([m EXCEPT !.subs = @ \o new], op, batch)))
    /\ UNCHANGED <<up, removal, faults, stalled>>

Retry(s, op) ==
    /\ Serving
    /\ Fresh(op)
    /\ s \in DOMAIN m.subs
    /\ m.subs[s].status = "failed"
    /\ m.subs[s].attempt < MaxAttempts
    /\ LET again == [status |-> "queued", cancelled |-> FALSE,
                     attempt |-> m.subs[s].attempt + 1]
       IN Save(Drained(Accepted([m EXCEPT !.subs[s] = again], op, {s})))
    /\ UNCHANGED <<up, removal, faults, stalled>>

(* A prompt with a known operation id only drains the queue. *)
Written(x) ==
    IF x.subs = m.subs /\ x.phase = m.phase THEN Forget(x) ELSE Save(x)

Repeat(o) ==
    /\ Serving
    /\ m.receipts[o].batch # {}
    /\ Written(Drained(m))
    /\ stalled' = (stalled /\ Queued(Drained(m)) = Queued(m))
    /\ UNCHANGED <<up, removal, faults>>

Cancel ==
    /\ Serving
    /\ m.active # NoConnection
    /\ Busy(m)
    /\ Save([m EXCEPT !.turn[m.active] = Stopped(@),
                      !.phase = "running",
                      !.subs = [s \in DOMAIN m.subs |->
                                  IF s \in Running(m) THEN [@[s] EXCEPT !.cancelled = TRUE]
                                                      ELSE @[s]]])
    /\ UNCHANGED <<up, removal, faults, stalled>>

Permit ==
    /\ Serving
    /\ m.phase = "permission"
    /\ m.active # NoConnection
    /\ Save([m EXCEPT !.phase = "running"])
    /\ UNCHANGED <<up, removal, faults, stalled>>

Configure(choice) ==
    /\ Serving
    /\ m.configuring = "none"
    /\ ~Busy(m)
    /\ LET x == [m EXCEPT !.choice = choice]
       IN IF m.retiring THEN Forget([x EXCEPT !.configuring = "parked"])
          ELSE Written(Connecting(x))
    /\ stalled' = (stalled /\ choice)
    /\ UNCHANGED <<up, removal, faults>>

-----------------------------------------------------------------------------
(* The run of a submission continues on a connection that was active when  *)
(* it was drained.  Requests in the same chunk of the client's socket may  *)
(* come first; events of the harness may not.                              *)
Continue(s) ==
    /\ up
    /\ m.run[s].at = "ready"
    /\ Written(Requested(m, s))
    /\ UNCHANGED <<up, removal, faults, stalled>>

Undisturbed == up /\ \A s \in Inputs : m.run[s].at # "ready"

(* Answers and events of harness connections. *)

\* The connection is open: the run, then the configure(), that waited go on.
Begun(x, c) ==
    LET opened == [x EXCEPT !.state[c] = "open", !.turn[c] = Ready(@)]
        runs   == Waiting(x, c, {"starting"})
        begun  == IF runs = {} THEN opened ELSE Requested(opened, First(runs))
    IN IF x.configuring = "starting" THEN Configured(begun, c) ELSE begun

\* "Thread agent was removed": start() resolved too late.
Unwanted(x, c) ==
    [FailedOn([x EXCEPT !.state[c] = "open"], c) EXCEPT !.configuring = "none"]

StartResolves(c) ==
    /\ Undisturbed
    /\ m.state[c] = "starting"
    /\ IF removal = "no" THEN Save(Begun(m, c)) ELSE Forget(Unwanted(m, c))
    /\ UNCHANGED <<up, removal, faults, stalled>>

(* start() rejects: a run retires the connection; configure() throws, and  *)
(* leaves it where it is.                                                  *)
StartRejects(c) ==
    /\ Undisturbed
    /\ m.state[c] = "starting"
    /\ faults < MaxFaults
    /\ faults' = faults + 1
    /\ Forget([FailedOn([m EXCEPT !.state[c] = "broken"], c)
                 EXCEPT !.configuring = IF @ = "starting" THEN "none" ELSE @])
    /\ stalled' = (stalled \/ (Waiting(m, c, {"starting"}) = {} /\ Queued(m) # {}))
    /\ UNCHANGED <<up, removal>>

Ended(x, s) == [x EXCEPT !.run[s] = AtRest]

Answered(x, s, outcome) ==
    [Finished(Ended(x, s), x.run[s].conn) EXCEPT
        !.subs[s].status = IF outcome = "completed" THEN "completed" ELSE "failed",
        !.subs[s].cancelled = @ \/ outcome = "cancelled",
        !.phase = "idle"]

Answer(s, outcome) ==
    /\ Undisturbed
    /\ m.run[s].at = "prompting"
    /\ m.state[m.run[s].conn] = "open"
    /\ IF removal = "no" THEN Save(Drained(Answered(m, s, outcome))) ELSE Forget(Ended(m, s))
    /\ UNCHANGED <<up, removal, faults, stalled>>

(* The harness answers with an error, or a request went to a connection    *)
(* that did not start or exited.                                           *)
Reject(s) ==
    /\ Undisturbed
    /\ m.run[s].at = "prompting"
    /\ IF m.state[m.run[s].conn] = "open"
       THEN faults < MaxFaults /\ faults' = faults + 1
       ELSE UNCHANGED faults
    /\ Forget(Failed(m, s))
    /\ UNCHANGED <<up, removal, stalled>>

Ask ==
    /\ Undisturbed
    /\ removal = "no"
    /\ \E s \in Inputs : m.run[s].at = "prompting" /\ m.state[m.run[s].conn] = "open"
    /\ m.active # NoConnection
    /\ m.turn[m.active] \in {"running", "idle"}
    /\ Save([m EXCEPT !.phase = "permission"])
    /\ UNCHANGED <<up, removal, faults, stalled>>

(* The harness process exits: onExit saves the failure, then everything    *)
(* that waits on the connection is rejected.                               *)
Exit(c) ==
    /\ Undisturbed
    /\ m.state[c] # "closed"
    /\ faults < MaxFaults
    /\ faults' = faults + 1
    /\ LET known == m.active = c
           gone  == Settled([m EXCEPT !.state[c] = "closed",
                                      !.active = IF known THEN NoConnection ELSE @,
                                      !.phase = IF known THEN "failed" ELSE @])
       IN /\ m' = [FailedOn(gone, c) EXCEPT !.configuring =
                      IF @ = "starting" /\ m.state[c] = "starting" THEN "none" ELSE @]
          /\ file' = IF known /\ removal = "no" THEN SavedRecord(gone) ELSE file
          /\ stalled' = (stalled \/ (Queued(m) # {} /\ Waiting(m, c, {"starting", "prompting"}) = {}))
    /\ UNCHANGED <<up, removal>>

(* retire() is done: the failed run saves and drains, a configure() that   *)
(* was parked goes on.                                                     *)
Retired(x) ==
    [x EXCEPT !.retiring = FALSE,
              !.closing = NoConnection,
              !.state = [c \in Connections |-> IF c = x.closing THEN "closed" ELSE @[c]],
              !.run = [s \in Inputs |-> IF @[s].at = "failing" THEN AtRest ELSE @[s]]]

\* Mutant: a failed run leaves the inputs behind it in the queue.
ClosedOnly ==
    /\ Undisturbed
    /\ m.retiring
    /\ Save(Retired(m))
    /\ UNCHANGED <<up, removal, faults, stalled>>

Closed ==
    /\ Undisturbed
    /\ m.retiring
    /\ IF m.configuring = "parked"
       THEN Save(Connecting(Drained(Retired(m))))
       ELSE Save(Drained(Retired(m)))
    /\ UNCHANGED <<up, removal, faults, stalled>>

-----------------------------------------------------------------------------
(* remove(): the connection is closed, then the file deleted. *)

Remove ==
    /\ Serving
    /\ removal' = "asked"
    /\ UNCHANGED <<up, m, file, faults, stalled>>

RemoveCloses ==
    /\ Undisturbed
    /\ removal = "asked"
    /\ ~m.retiring
    /\ removal' = "closing"
    /\ LET c == m.active IN
       IF c = NoConnection THEN Forget(m)
       ELSE Forget([FailedOn([m EXCEPT !.active = NoConnection, !.state[c] = "closed"], c)
                      EXCEPT !.configuring = "none"])
    /\ UNCHANGED <<up, faults, stalled>>

RemoveDone ==
    /\ up
    /\ removal = "closing"
    /\ removal' = "done"
    /\ file' = NoFile
    /\ UNCHANGED <<up, m, faults, stalled>>

Crash ==
    /\ up
    /\ faults < MaxFaults
    /\ faults' = faults + 1
    /\ up' = FALSE
    /\ m' = Loaded(NoFile)
    /\ removal' = IF removal = "done" THEN removal ELSE "no"
    /\ stalled' = FALSE
    /\ UNCHANGED file

(* get() on a record an earlier daemon left. *)
Recovered(r) ==
    IF Busy(r) \/ Unsettled(r) # {}
    THEN [r EXCEPT !.phase = IF Durable THEN "idle" ELSE "failed",
                   !.subs = [s \in DOMAIN r.subs |->
                               IF s \in Unsettled(r)
                               THEN [@[s] EXCEPT !.status = IF Durable THEN "queued" ELSE "failed"]
                               ELSE @[s]]]
    ELSE r

(* resumeAgents() configures every Thread with queued inputs. *)
Resumed(x) == IF Queued(x) = {} THEN x ELSE Connecting(x)

Restart ==
    /\ ~up
    /\ removal = "no"
    /\ up' = TRUE
    /\ m' \in {Resumed(Settled(Loaded(Recovered(file))))}
    /\ UNCHANGED <<file, removal, faults, stalled>>

Batches == {{}} \cup {{o} : o \in Operations}

Next ==
    \/ \E op \in Batches : (\E n \in 1..2 : Prompt(n, op)) \/ \E s \in Inputs : Retry(s, op)
    \/ \E o \in Operations : Repeat(o)
    \/ Cancel \/ Permit \/ Ask \/ Closed
    \/ \E choice \in BOOLEAN : Configure(choice)
    \/ \E c \in Connections : StartResolves(c) \/ StartRejects(c) \/ Exit(c)
    \/ \E s \in Inputs :
          \/ Continue(s) \/ Reject(s)
          \/ \E outcome \in {"completed", "cancelled", "incomplete"} : Answer(s, outcome)
    \/ Remove \/ RemoveCloses \/ RemoveDone
    \/ Crash \/ Restart

Spec == Init /\ [][Next]_vars

(* The event loop runs what is ready; harness connections start or fail,   *)
(* answer or fail, and close: the adapters put deadlines on all three.     *)
Progress ==
    \/ Closed \/ RemoveCloses \/ RemoveDone \/ Restart
    \/ \E c \in Connections : StartResolves(c)
    \/ \E s \in Inputs : Continue(s) \/ Reject(s) \/ Answer(s, "completed")

(* ENABLED <<Progress>>_vars, written out: TLC is slow to find it.         *)
Due ==
    \/ ~up /\ removal = "no"
    \/ up /\ \/ m.retiring \/ removal \in {"asked", "closing"} \/ Starting(m) # {}
             \/ \E s \in Inputs : m.run[s].at \in {"ready", "prompting"}

FairSpec == Spec /\ ([]<>(~Due) \/ []<><<Progress>>_vars)

-----------------------------------------------------------------------------
Turning(s) == m.run[s].at \in {"starting", "ready", "prompting"}

(* Inputs are answered individually: two of them are never under way at     *)
(* once, whatever drains the queue, and the one under way is the one the    *)
(* record calls running.                                                    *)
OneTurnAtATime ==
    up /\ removal = "no" =>
        /\ \A r, s \in Inputs : Turning(r) /\ Turning(s) => r = s
        /\ \A s \in Inputs : Turning(s) <=> s \in Running(m)

(* A queue that nobody works on is one whose connection failed to start     *)
(* when a restarted daemon, or a client, resumed it.                        *)
QueueIsWatched ==
    up /\ removal = "no" /\ ~Busy(m) /\ Queued(m) # {} =>
        m.retiring \/ m.configuring # "none" \/ stalled

(* Every harness process the manager started and did not close is the one   *)
(* it would use next, or is being closed.                                   *)
NoConnectionLeaks ==
    up => \A c \in Connections :
              m.state[c] # "closed" => c \in {m.active, m.closing}

(* Inputs are started in the order they were sent, retries included; a      *)
(* restart does not reorder them.                                           *)
StartsInOrder ==
    [][\A s \in Inputs :
          s \in Running(m') /\ (s \in DOMAIN m.subs => s \notin Running(m))
              => \A r \in Queued(m') : s < r]_m

(* "Completion is an immutable fact": the outcome of a receipt in the file  *)
(* never changes, and one that says completed is about answered inputs.     *)
ReceiptsAreFinal ==
    [][\A o \in Operations :
          LET was == file.receipts[o] IN
          was.outcome # "open" /\ file' # NoFile =>
              /\ file'.receipts[o] = was
              /\ was.outcome = "completed" =>
                    \A s \in was.batch : file'.subs[s].status = "completed"]_file

(* "Cancellation during initialization must not submit a new model          *)
(* request": no request is made for a cancelled submission, unless its      *)
(* connection was already up, so that the harness is told to stop it.       *)
NoRequestOnceCancelled ==
    [][\A s \in Inputs :
          /\ m.run[s].at # "prompting"
          /\ m'.run[s].at = "prompting"
          /\ m'.subs[s].cancelled
              => m'.turn[m'.run[s].conn] = "stopping"]_m

(* Every accepted input is answered or fails, unless the queue stalls or    *)
(* the Thread is removed.                                                   *)
InputsSettle ==
    \A s \in Inputs :
        (up /\ s \in Unsettled(m))
            ~> (s \notin Unsettled(m) /\ up) \/ stalled \/ removal # "no"
=============================================================================
