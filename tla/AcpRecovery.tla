----------------------------- MODULE AcpRecovery -----------------------------
(***************************************************************************)
(* A prompt of one Thread's conversation as a durable task                 *)
(* (adapters/src/durable-acp-task.ts) whose ACP process runs behind a      *)
(* relay that outlives the daemon (adapters/src/herdr-acp).                *)
(*                                                                         *)
(* The relay numbers every line the process reads and writes and keeps     *)
(* them until they are acknowledged.  The daemon commits each event of the *)
(* process with the cursor of its line and, when that is written,          *)
(* acknowledges the cursor; it may die in between.  A daemon that died     *)
(* takes up a dispatched prompt at the committed cursor.                   *)
(*                                                                         *)
(* The task runtime is a library: it runs the handler of the phase that is *)
(* stored, once per process, until the task is terminal.  A line to the    *)
(* relay is taken when it is written.  The process ends a turn with its    *)
(* stop reason and says nothing more until it is prompted again.           *)
(***************************************************************************)
EXTENDS Naturals, Sequences, FiniteSets

CONSTANTS
    MaxPrompts, \* bound: prompts of the conversation
    MaxLines,   \* bound: events and requests of one turn
    MaxCrashes, \* bound: crashes of the daemon
    MaxRelays   \* bound: relays started

ASSUME RecoveryAssumption ==
    /\ MaxPrompts \in Nat
    /\ MaxLines \in Nat
    /\ MaxCrashes \in Nat
    /\ MaxRelays \in Nat \ {0}

VARIABLES
    task,    \* the durable task: prompt, phase, checkpoint, progress, outcome
    relay,   \* the relay: epoch, transcript, acknowledged cursor, client
    daemon,  \* the process: what its handler does, session.cursor
    crashes,
    ended,   \* history variable: the prompt whose stop reason ended the task
    skipped, \* history variable: a resume began past an open request
    unacked  \* history variable: committed places a crash left unacknowledged

ghosts == <<ended, skipped, unacked>>

acpVars == <<task, relay, daemon, crashes, ghosts>>

Line(kind, of) == [kind |-> kind, of |-> of]

FreshRelay(e) ==
    [epoch |-> e, lines |-> <<>>, acked |-> 0, following |-> TRUE, sent |-> <<>>]

\* toAck: the cursor that is committed and not yet acknowledged, or 0.
Resting == [stage |-> "idle", cursor |-> 0, commits |-> <<>>, toAck |-> 0,
            serving |-> {}, stop |-> 0]

AcpInit ==
    /\ task = [prompt |-> 0, phase |-> "done", cursor |-> 0, epoch |-> 0,
               progress |-> <<>>, outcome |-> "none"]
    /\ relay = FreshRelay(1)
    /\ daemon = Resting
    /\ crashes = 0
    /\ ended = 0
    /\ skipped = FALSE
    /\ unacked = {}

-----------------------------------------------------------------------------
(* The transcript *)

\* A permission request is an event too: it is shown, so it is committed.
Events == {"event", "permission"}
Requests == {"tool", "permission"}
Output == Events \cup Requests \cup {"stop"}

Places(kind, of) == {i \in DOMAIN relay.lines : relay.lines[i] = Line(kind, of)}

Answered == {relay.lines[i].of : i \in {i \in DOMAIN relay.lines : relay.lines[i].kind = "reply"}}

OpenRequests ==
    {i \in DOMAIN relay.lines : relay.lines[i].kind \in Requests /\ i \notin Answered}

Latest(places) == CHOOSE i \in places : \A j \in places : j <= i

Prompts == {i \in DOMAIN relay.lines : relay.lines[i].kind = "prompt"}

\* scan.prompt: the last prompt the process was given, 0 if there is none.
LastPrompt == IF Prompts = {} THEN 0 ELSE relay.lines[Latest(Prompts)].of

InFlight == LastPrompt # 0 /\ Places("stop", LastPrompt) = {}

\* record(): a line gets the next number; a follower is sent the output.
Recorded(line) ==
    LET place == Len(relay.lines) + 1
    IN  [relay EXCEPT !.lines = Append(@, line),
                      !.sent = IF relay.following /\ line.kind \in Output
                               THEN Append(@, place) ELSE @]

\* Mutant of PromptStillOpen: an answered prompt is never the task's.
StillRunning(cursor) == InFlight

\* promptStillOpen: its stop reason is not at or before the checkpoint.
PromptStillOpen(cursor) ==
    LastPrompt # 0 /\ \A i \in Places("stop", LastPrompt) : i > cursor

\* replay: stored output past the cursor, without the answered requests.
Replayed(cursor) ==
    {i \in DOMAIN relay.lines : /\ i > cursor
                               /\ i > relay.acked
                               /\ relay.lines[i].kind \in Output
                               /\ i \notin Answered}

Ascends(q) == \A i, j \in DOMAIN q : i < j => q[i] < q[j]

\* The places in the order of the transcript, as the relay sends them.
Ascending(places) == CHOOSE q \in [1..Cardinality(places) -> places] : Ascends(q)

-----------------------------------------------------------------------------
(* The ACP process *)

Says(kind) ==
    /\ InFlight
    /\ Cardinality(UNION {Places(k, LastPrompt) : k \in Events \cup Requests}) < MaxLines
    /\ relay' = Recorded(Line(kind, LastPrompt))
    /\ UNCHANGED <<task, daemon, crashes, ghosts>>

Stops ==
    /\ InFlight
    /\ OpenRequests = {}
    /\ relay' = Recorded(Line("stop", LastPrompt))
    /\ UNCHANGED <<task, daemon, crashes, ghosts>>

-----------------------------------------------------------------------------
(* The task *)

\* prompt(): the operation and its task are created in one commit.
Submit ==
    /\ daemon.stage = "idle"
    /\ task.phase = "done"
    /\ task.prompt < MaxPrompts
    /\ task' = [prompt |-> task.prompt + 1, phase |-> "queued", cursor |-> 0, epoch |-> 0,
                progress |-> <<>>, outcome |-> "none"]
    /\ UNCHANGED <<relay, daemon, crashes, ghosts>>

Acked(r, cursor) == [r EXCEPT !.acked = IF cursor > @ THEN cursor ELSE @]

\* The queued phase: the checkpoint is committed, then acknowledged, before
\* the prompt goes out.
Dispatch ==
    /\ daemon.stage = "idle"
    /\ task.phase = "queued"
    /\ task' = [task EXCEPT !.phase = "dispatched", !.cursor = daemon.cursor,
                            !.epoch = relay.epoch]
    /\ daemon' = [daemon EXCEPT !.stage = "dispatching", !.toAck = daemon.cursor]
    /\ UNCHANGED <<relay, crashes, ghosts>>

\* recovery.ack, once the write it follows is done.
Acknowledge ==
    /\ daemon.toAck # 0
    /\ relay' = Acked(relay, daemon.toAck)
    /\ daemon' = [daemon EXCEPT !.toAck = 0]
    /\ UNCHANGED <<task, crashes, ghosts>>

Prompted(r) == [r EXCEPT !.lines = Append(@, Line("prompt", task.prompt))]

SendPrompt ==
    /\ daemon.stage = "dispatching"
    /\ daemon.toAck = 0
    /\ relay' = Prompted(relay)
    /\ daemon' = [daemon EXCEPT !.stage = "prompting"]
    /\ UNCHANGED <<task, crashes, ghosts>>

Working == daemon.stage \in {"prompting", "waiting"}

\* What a handler does with a line that is delivered to it.  A stop reason
\* answers the request that waits for it, and no other.
Took(d, place) ==
    LET kind == relay.lines[place].kind
    IN  [d EXCEPT !.cursor  = place,
                  !.commits = IF kind \in Events /\ d.stage # "idle" THEN Append(@, place) ELSE @,
                  !.serving = IF kind \in Requests THEN @ \cup {place} ELSE @,
                  !.stop    = IF Working /\ relay.lines[place] = Line("stop", LastPrompt)
                              THEN LastPrompt ELSE @]

\* Mutant of DeliverLine: a line is acknowledged when it is read.
DeliverLineAcked ==
    /\ daemon.stage # "down"
    /\ relay.sent # <<>>
    /\ daemon' = Took(daemon, Head(relay.sent))
    /\ relay' = Acked([relay EXCEPT !.sent = Tail(@)], Head(relay.sent))
    /\ UNCHANGED <<task, crashes, ghosts>>

DeliverLine ==
    /\ daemon.stage # "down"
    /\ relay.sent # <<>>
    /\ daemon' = Took(daemon, Head(relay.sent))
    /\ relay' = [relay EXCEPT !.sent = Tail(@)]
    /\ UNCHANGED <<task, crashes, ghosts>>

\* A tool's result, or the reviewer's answer to a permission request.
Reply(r) ==
    /\ r \in daemon.serving
    /\ daemon' = [daemon EXCEPT !.serving = @ \ {r}]
    /\ relay' = Recorded(Line("reply", r))
    /\ UNCHANGED <<task, crashes, ghosts>>

\* An event is committed with its line's cursor, after the event before it
\* is committed and acknowledged.
CommitProgress ==
    /\ Working
    /\ daemon.commits # <<>>
    /\ daemon.toAck = 0
    /\ LET place == Head(daemon.commits)
       IN  /\ task' = [task EXCEPT !.progress = Append(@, place), !.cursor = place]
           /\ daemon' = [daemon EXCEPT !.commits = Tail(@), !.toAck = place]
    /\ UNCHANGED <<relay, crashes, ghosts>>

\* Back to no handler; what is still to be replied to stays.
AtRest(d) == [d EXCEPT !.stage = "idle", !.commits = <<>>, !.stop = 0]

\* The stop reason is there; every event before it is committed and
\* acknowledged (`await progress`).
Complete ==
    /\ Working
    /\ daemon.stop # 0
    /\ daemon.commits = <<>>
    /\ daemon.toAck = 0
    /\ task' = [task EXCEPT !.phase = "done", !.outcome = "completed"]
    /\ ended' = daemon.stop
    /\ daemon' = AtRest(daemon)
    /\ UNCHANGED <<relay, crashes, skipped, unacked>>

-----------------------------------------------------------------------------
(* Crashes, and the dispatched phase *)

CrashDaemon ==
    /\ daemon.stage # "down"
    /\ crashes < MaxCrashes
    /\ crashes' = crashes + 1
    /\ daemon' = [Resting EXCEPT !.stage = "down"]
    /\ relay' = [relay EXCEPT !.following = FALSE, !.sent = <<>>]
    /\ unacked' = unacked \cup ({daemon.toAck} \ {0})
    /\ UNCHANGED <<task, ended, skipped>>

\* Mutant of StartDaemon: output is held also where there is nothing to recover.
StartDaemonHeld ==
    /\ daemon.stage = "down"
    /\ daemon' = Resting
    /\ UNCHANGED <<task, relay, crashes, ghosts>>

\* prepareSession: an unfinished prompt's output is held for its recovery.
StartDaemon ==
    /\ daemon.stage = "down"
    /\ daemon' = Resting
    /\ relay' = [relay EXCEPT !.following = ~InFlight]
    /\ UNCHANGED <<task, crashes, ghosts>>

\* The handler of the dispatched phase, in a process that did not dispatch.
Resuming ==
    /\ daemon.stage = "idle"
    /\ task.phase = "dispatched"

\* resumePrompt: another relay has the conversation now.
ResumeElsewhere ==
    /\ Resuming
    /\ task.epoch # relay.epoch
    /\ task' = [task EXCEPT !.phase = "done", !.outcome = "failed"]
    /\ UNCHANGED <<relay, daemon, crashes, ghosts>>

\* recover: no open prompt, so this one never reached the process.
ResumeMissing ==
    /\ Resuming
    /\ task.epoch = relay.epoch
    /\ ~PromptStillOpen(task.cursor)
    /\ relay' = [Prompted(relay) EXCEPT !.following = TRUE]
    /\ daemon' = [daemon EXCEPT !.stage = "prompting", !.cursor = task.cursor]
    /\ UNCHANGED <<task, crashes, ghosts>>

\* deliver, of every line of the replay, by a handler without a commit yet.
CaughtUp(places) ==
    [daemon EXCEPT
        !.stage   = "waiting",
        !.cursor  = IF places = {} THEN task.cursor ELSE Latest(places),
        !.commits = Ascending({i \in places : relay.lines[i].kind \in Events}),
        !.serving = @ \cup {i \in places : relay.lines[i].kind \in Requests},
        !.stop    = IF InFlight THEN 0 ELSE LastPrompt]

(* recover: catch up from the checkpoint and wait for the stop reason, or  *)
(* take the one that is there.  What arrives during the catch-up follows.  *)
ResumeOpen ==
    /\ Resuming
    /\ task.epoch = relay.epoch
    /\ PromptStillOpen(task.cursor)
    /\ relay' = [relay EXCEPT !.following = TRUE, !.sent = <<>>]
    /\ daemon' = CaughtUp(Replayed(task.cursor))
    /\ skipped' = (skipped \/ \E r \in OpenRequests : r <= task.cursor)
    /\ UNCHANGED <<task, crashes, ended, unacked>>

(* The relay or its process ends: a handler under way fails, and the next  *)
(* connection starts another relay.                                        *)
RelayEnds ==
    /\ relay.epoch < MaxRelays
    /\ relay' = FreshRelay(relay.epoch + 1)
    /\ IF Working \/ daemon.stage = "dispatching"
       THEN task' = [task EXCEPT !.phase = "done", !.outcome = "failed"]
       ELSE UNCHANGED task
    /\ daemon' = IF daemon.stage = "down" THEN daemon ELSE Resting
    /\ unacked' = {}
    /\ UNCHANGED <<crashes, ended, skipped>>

-----------------------------------------------------------------------------
Resume == ResumeElsewhere \/ ResumeMissing \/ ResumeOpen

AcpNext ==
    \/ \E kind \in Events \cup Requests : Says(kind)
    \/ Stops
    \/ Submit
    \/ Dispatch
    \/ Acknowledge
    \/ SendPrompt
    \/ DeliverLine
    \/ \E r \in daemon.serving : Reply(r)
    \/ CommitProgress
    \/ Complete
    \/ CrashDaemon
    \/ StartDaemon
    \/ Resume
    \/ RelayEnds

AcpSpec == AcpInit /\ [][AcpNext]_acpVars

\* A tool's call returns by itself; a permission waits for a reviewer, who
\* may never answer: a resumed prompt has no deadline.
ToolReturns == \E r \in daemon.serving : relay.lines[r].kind = "tool" /\ Reply(r)

\* A daemon that is down is started; one that runs has no step it puts off
\* for good; and the process stops a turn that asks for nothing more.
DaemonProceeds ==
    \/ StartDaemon
    \/ Dispatch
    \/ Acknowledge
    \/ SendPrompt
    \/ DeliverLine
    \/ ToolReturns
    \/ CommitProgress
    \/ Complete
    \/ Resume

AcpFairSpec ==
    /\ AcpSpec
    /\ WF_acpVars(Stops)
    /\ WF_acpVars(DaemonProceeds)

-----------------------------------------------------------------------------
\* What the process said in the task's own turn, as far as the checkpoint.
OwnEvents == {i \in Places("event", task.prompt) : i <= task.cursor}

\* An answered permission request is not replayed, so it need not be stored.
StoredEvents ==
    {task.progress[k] : k \in {k \in DOMAIN task.progress :
                                    relay.lines[task.progress[k]].kind = "event"}}

(* Across crashes, reattachments and acknowledgements, the stored progress *)
(* of a prompt is in order and holds all that its process said up to the   *)
(* checkpoint, once.  The only other events that it may hold are committed *)
(* ones, of an older turn, whose acknowledgement died with a daemon: the   *)
(* relay keeps them, and replays them to a prompt that was checkpointed at *)
(* cursor 0 by a daemon restarted between the turns.                       *)
ProgressIsTheOutput ==
    task.phase # "queued" /\ task.epoch = relay.epoch
        => /\ Ascends(task.progress)
           /\ OwnEvents \subseteq StoredEvents
           /\ StoredEvents \subseteq OwnEvents \cup unacked

(* No crash between the checkpoint, the write to the relay, the stop       *)
(* reason and the last commit has the process run one prompt twice.        *)
PromptedOnce == \A n \in 1..MaxPrompts : Cardinality(Places("prompt", n)) <= 1

(* scan.ts: "A finished prompt at or before the checkpoint belongs to an   *)
(* older turn. The current turn is missing until its own prompt is on the  *)
(* transcript."  So a completed task ends with its own prompt's reason.    *)
(* Violated: a daemon restarted between two turns starts at cursor 0, and  *)
(* with that checkpoint the older turn is taken for the current one.       *)
AnswersItsOwnPrompt == task.outcome = "completed" => ended = task.prompt

\* The reviewer is shown a permission request and has not answered it.
AwaitsReviewer == \E r \in daemon.serving : relay.lines[r].kind = "permission"

(* A dispatched prompt never hangs, whatever crashes: it ends by its stop  *)
(* reason or as failed, or it comes to wait for a reviewer; again after    *)
(* each answer.  Except where a resume began past a request still open.    *)
PromptsEnd ==
    (task.phase = "dispatched") ~> (task.phase = "done" \/ AwaitsReviewer \/ skipped)
=============================================================================
