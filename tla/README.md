# cueloop: a verification development

cueloop puts agent-authored work (plans, diffs, replies, prototypes) in front of
a reviewer. A **Thread** is one such piece of work with its comments; the
reviewer answers it with a **Message**, and the coding agent that submitted the
Thread must receive that Message, once, in order, whatever restarts in between.

This directory holds TLA+ modules translated from the source, TLC runs that
check them on small instances, and proofs that TLAPS checks for every value of
the constants. `PROJECT.json` maps each definition to the lines it models, lists
the runs, the mutants that show each property can fail, the findings and the
hazards. Paths below are relative to `src/packages/`.

Contents: 1 inventory, 2 plan, 3 modules, 4 runs, 5 bounds, 6 fairness,
7 proofs, 8 findings and observations, 9 what is not modelled.

## 1. Inventory

One long-lived **daemon** per home directory serves local clients over a Unix
socket. It is single threaded: a handler runs to its first `await` without
interruption, and interleaving happens only there. Everything else is another
process: harness adapters, the terminal client, the command line, the gateway.

| Component | State | Operations | Interacts with | Hard behaviour | Correct when | Module |
|---|---|---|---|---|---|---|
| Thread delivery: `daemon/api.ts`, `harness-state-store.ts`, `retention.ts` | Thread records; bindings and deliveries in memory and in one file; parked waiters | create, bind, sendMessage, submitRevision, delete, acknowledge, consumeApprovedRetry, wait; reconcile and prune at start-up | store (upsert), adapters (pending, acknowledge), waiters | a death between two files' writes; failed writes; retention racing what is owed | no promised Message is lost, none is settled before it was injected, nobody waits on a closed Thread | ThreadDelivery |
| Delivery loop: `adapters/harness-thread-controller.ts`, `delivered-message-store.ts` | a pass in memory, a journal file | fetch, inject, record, acknowledge | daemon; the native agent session | stale pending lists, lost replies, deaths between injection and journal | at-least-once, in order, repeats only after a cut pass | ThreadDelivery |
| Thread store: `daemon/store.ts` | one JSONL log per Thread, a Map and line counts | upsert (append or compact), delete, recover, migrate | the file system | torn appends, failed appends, compaction thresholds, migration cut half-way | one durable register per Thread | ThreadStore |
| Daemon process: `daemon/server.ts`, `main.ts` | lock, socket, pid and token files | construct, lock, reclaim, bind, stop | other daemon processes on the home | starters racing over a stale lock | one owner, current memory, reachable socket | SingleInstance |
| Thread agent: `daemon/thread-agent.ts`, `agent-turn.ts`, `operation-receipts.ts` | queue of inputs, phase, turn, receipts; harness connections | prompt, retry, cancel, permit, configure, handoff, remove; harness events | harness connections; store of agent records | many handlers drain one queue across awaits; exits, restarts, cancellation while starting | one turn at a time, nothing lost, receipts final | ThreadAgent |
| Durable ACP task: `adapters/durable-acp-task.ts`, `fx/harness.ts`, `herdr-acp/*` | the durable task and its checkpoint; the relay's transcript, cursors | prompt, dispatch, commit, acknowledge, resume, replay | task runtime, the relay, the ACP process | deaths around the dispatch and between commit and acknowledgement | no prompt is run twice, no event lost or repeated, every prompt ends | AcpRecovery |
| History and editing: `schema/history.ts`, `path-view.ts`, `daemon/api.ts` | entry tree, tips, branch; the record folded from it | annotate, remove, merge, edit text, send, revise, recapture, navigate, branch, switch, fork | handlers either fold the record from the tree or change both by hand | long sequences of legal calls; removals against shelved comments | the record is the fold of the current path; comments are never lost | ThreadHistory, ThreadRecord |
| Diff refresh: `daemon/api.ts`, `diff-watcher.ts`, `pr-poller.ts` | generation per Thread, watches, polls | refresh, recapture, track, untrack | VCS and `gh` subprocesses | captures and answers that come back late | a review never goes back in time and ends up showing what it follows | DiffRefresh |
| Shared agent relay: `gateway/shared-agent.ts`, `server.ts`, `blob-thread-client.ts`, `adapters/owner-agent-relay.ts` | the share's blob; queued requests and receipts; the owner's connection | edit, push, prompt, attach, deliver, accept, publish | collaborators, the gateway, the owner's daemon over SSH | dropped connections, repeated requests, two writers of one blob | each request enters the owner's daemon once; no edit is lost; accepted input stays | SharedAgentRelay |
| Subscription: `daemon/thread-subscription.ts` | generation and version counters | connect, subscribe, read, dispose | the daemon's events and reads | reads overtaken by events, reconnections and disposal | the observer's last value is the newest read | ThreadSubscription |
| Terminal client's window: `client/thread/thread-controller.ts` | the viewed id, the shown record, the sidebar, uploads and pulls under way | open, create, annotate, reject, submit, fork, share, unshare, delete, pull | the daemon (requests, answers, events), the gateway (shares) | guesses shown before they are answered; answers after a switch; lists written whole | the window shows what the daemon has; comments stay with their Thread; what is shared can be unshared | ThreadController |
| Message journal lock: `adapters/delivered-message-store.ts` | a lock file | take, reap | other adapters of the session | two reapers of one stale lock | one writer | - |
| Review SDK: `daemon/thread-review.ts` | none | openReview, awaitMessage, awaitResolve | daemon client | chunked waits, aborts, find-then-create | no Message is missed between chunks | - |
| Daemon client: `daemon/client.ts`, wire protocol: `protocol.ts` | pending requests; line fragments, unwritten tail | request, push, write, drain | daemon socket | partial writes | frames arrive whole and in order | - |
| Thread surfaces: `daemon/ghostty-thread-surface*.ts`, `herdr-thread-surface*.ts` | launch reservations | claim, set, release | terminal programs | reservation left by a death | one window per Thread | - |
| Review algorithms: `schema/*`; rendering, command line, extensions, site | none that calls share | anchors, diff, markdown, feedback; drawing; one-shot commands | all | text edge cases | pure functions | - |

`PROJECT.json` lists each of them under `components` with its status, and under
`hazards` what is hard to test, at its line. A hazard with no property has a
note.

## 2. Plan

Ordered by how much of the system's promise rests on each part; each step
names what it stands on.

1. **ThreadDelivery** with the abstract **DeliveryContract**.
2. **ThreadStore** with the abstract **ThreadRegister**. ThreadDelivery takes a
   Thread's upsert to be atomic; this module is the reason it may.
3. **SingleInstance**. All other modules of the daemon assume one per home.
4. **ThreadAgent**: one Thread's queue, turns, connections and receipts.
5. **ThreadHistory** and **ThreadRecord**: the tree as pure operators, the
   record and its handlers over them.
6. **DiffRefresh**: captures and polls that come back late.
7. **SharedAgentRelay**: the gateway's side, the owner's side and the store.
8. **AcpRecovery**: what a durable harness does with a prompt that an earlier
   daemon dispatched; it is the recovery that ThreadAgent takes for granted of a
   durable adapter.
9. **ThreadSubscription** and **ThreadController**: what a client shows.

All nine are done, with the theorems of section 7. What is left, in the order
in which it would be taken up: the handoff of a conversation to another harness
(`thread-agent.ts` 319 and on), a second submission path of ThreadAgent over two
harness identities; the journal's lock between several adapter processes; the
find-then-create of `thread-review.ts`; the launch reservations of the surfaces.
Every safety invariant that a passing run checks is also stated by a theorem.

## 3. Modules

**ThreadDelivery** (`daemon/api.ts`, `harness-state-store.ts`, `retention.ts`,
the delivery loop of the adapters). One action is one event-loop turn of the
daemon, with every write it makes: `SendMessage` is the upsert, the delivery
record and the release of waiters; `DeleteThread` the log, the routing and the
waiters. A turn may stop after each durable write (`DieWith`) or have its
routing write fail (`PersistFails`), which leaves `mem` ahead of `disk`. `Start`
is recovery, reconciliation, retention and the removal of orphans in the order
of the constructor. The adapter's pass is `Fetch`, `Inject`, `Record`,
`Acknowledge`, one action per await, with the list it fetched held in `job`
while the daemon moves on; `AdapterStops` is a death, a failed call or a lost
reply. `owed`, `injected`, `cut`, `collected`, `granted` are history.
Messages are numbers (their position in the log); contents are model values.

**DeliveryContract** says the same with no process, file or crash: promise,
hand over (repeating at most the last one), settle, forget.

**ThreadStore** (`daemon/store.ts`). A log is the sequence of its non-empty
physical lines and whether the last lacks its newline; an append to such a log
fuses two records into a `Fragment`. `Upsert` appends or rewrites as
`Rewrites` says; `UpsertCut` and `UpsertFails` are the same call ending in a
death or an exception. `Recover` migrates legacy files, scans and repairs;
`RecoverCut` stops anywhere within it. A rename is atomic and durable. Initial
states include leftovers of older daemons and of a rollback.

**ThreadRegister** is the abstract store: a value per Thread; a death leaves the
value before or after the write under way.

**SingleInstance** (`daemon/server.ts`). Processes share only files, so each
system call is an action: link, read, the liveness probe, removal, bind,
unlink. The home's files are one number, the write that produced them. `stolen`
is history: a lock was removed that was not the one whose owner was found dead.

**ThreadAgent** (`daemon/thread-agent.ts`, `agent-turn.ts`,
`operation-receipts.ts`). The manager's memory of one Thread is one record `m`,
and a handler a composition of operators on it (`Failed`, `Drained`,
`Connected`, `Requested`), because one turn of the event loop may fail a run,
drain the queue and open a connection before it yields. `run` says at which
await each submission's `run()` stands, `turn` is the state of
`agent-turn.ts`, `state` and `closing` follow the harness processes the manager
owns, `configuring` the await of `configure()`. `file` is what was last saved.
Environment: a connection asks for permission only during a request; it rejects
what it holds when it exits; file writes succeed; one `configure()` at a time.

**ThreadHistory** (`schema/history.ts`, `path-view.ts`). No variables. A history
is the append-only entries, the tip of every branch and the current branch; an
entry is named by its place, a parent before its child, so that a path is the
set of its places, by a recursive *function*, and the newest of some kind on it
the largest. `AppendEntry`, `AppendAll` (of the entries of a merge in turn), `NavigateTo`, `CreateBranch`, `SwitchBranch`,
`RecaptureMainHead` and `ForkHistory` are the code's functions of those names;
`ViewOfPath` is the fold that says what a path shows and what it shelves.

**ThreadRecord** (`daemon/api.ts`) is one Thread's record under the editing
requests. `history` is the tree, and `content`, `workingCopy`, `shown` and
`shelved` what is kept beside it. `Navigate`, `StartBranch`, `Switch` and
`MergeShared` end in `RefreshView`, which folds the record from the tree again;
`AddComment`, `EditComment`, `RemoveComment`, `EditText`, `SubmitText`,
`RecaptureTree` and `ReviseByCapture` change both by hand, and that the two
agree is what the module is about. Each handler is synchronous and ends in one
upsert: one action. A fork is a record of its own, so after `Fork` the model
goes on with the copy or, in the behaviours without it, with the source.
`latest`, `shadowed` and `beside` are history.

**DiffRefresh** (`daemon/api.ts`, `diff-watcher.ts`, `pr-poller.ts`). A capture
is three steps: it starts (a generation), reads what is outside, and lands in a
later turn, or fails, which the watcher swallows although the generation has
moved on; `captures` holds those under way. `WatcherRefresh` is the debounce
firing, `PollReads`/`PollLands` the poll of a pull request around its await.
A revision carries a text the agent captured earlier (`Draft`, then `Revise` with
`draft`): `session.submitRevision` compares it with nothing, and its source is the
client's (`SourcesOf`), who has none when the text is no longer what is there.
`Restart` forgets what the daemon only had in memory. `asOf` is history: when
the text shown was read; so is `behind`: the last capture failed, or a revision
brought an old text, and no capture has started since.

**SharedAgentRelay** (`gateway/shared-agent.ts`, `server.ts`,
`blob-thread-client.ts`, `adapters/owner-agent-relay.ts`,
`latest-state-publisher.ts`). The blob and the relay's record are stored; a
change reads them in one step (`BeginEdit`, `BeginPush`, `BeginPrompt`) and
writes in another, since the store answers asynchronously. `Idle` is the relay's
chain of changes per share, which pushes of the owner do not join. Frames travel
in order in `toOwner` and `toGateway` and are dropped with their connection; the
two ends learn of a cut one after the other. `written` and `clobbered` are
history: what was acknowledged last, and that a push and another write crossed.

**AcpRecovery** (`adapters/durable-acp-task.ts`, `fx/harness.ts`,
`herdr-acp/relay.ts`, `binding.ts`, `scan.ts`). `relay` is the process that
outlives the daemon: its transcript numbers each line; `task` is what is
committed, `daemon` what dies. `Dispatch` commits the checkpoint, `Acknowledge`
then tells the relay (it is a step of its own after every commit, `toAck` holding
what is due, since the daemon may die in between), `SendPrompt` writes the prompt;
`DeliverLine` and `CommitProgress` are the two halves of an event. `unacked` is
history: what was committed and not acknowledged when a daemon died. `ResumeElsewhere`, `ResumeMissing` and `ResumeOpen` are the three ways
`resumePrompt` and `recover` end. A stop reason ends the request that waits for
it and no other: `Took` takes it only for the prompt that waits, as the
connection matches answers by the request's id, so one of an older turn moves the
cursor and nothing else. The task runtime is
a library: it runs the handler of the stored phase once per process until the
task is terminal.

**ThreadSubscription** (`daemon/thread-subscription.ts`). `Change` is the
daemon's side; the client subscribes, reads on every hint, and any step may cut
the connection. Reads overlap and are answered in any order. `Current` is the
code's test before it hands a value on.

**ThreadController** (`client/thread/thread-controller.ts`, with the order that
`daemon/client.ts` and `server.ts` give). `asked` and `back` are the two
directions of the one connection: requests are served in order, answers and
events arrive in order. `Serve` is a request at the daemon, `Receive` the
callback of an answer or event, the rest the reviewer's actions, each up to its
first await: what it shows at once (`Guess`) and what it asks. Uploads and pulls
of shares take their time (`uploads`, `pulls`), and what they find when they
return is what the code reads then: the Thread shown *by now*. What is uploaded
for a new link is folded from the history the window holds
(`sharePublicationView`, `viewFollowing` in `schema/path-view.ts`), which a comment
enters with its answer; `guessed` are the comments that are shown before that.
Collaborators write to the blob through `gateway/blob-thread-client.ts`
(`Collaborate`). `kin`, `home`, `accepted` and `strayed` are history.

**MC modules.** `MCThreadDelivery`, `MCThreadStore`, `MCSingleInstance`,
`MCThreadAgent` and `MCThreadController` declare the model values their
configurations use. `MCDaemon`, `MCRemote` and `MCReviewer` put several
modules into one run: the parts share no state, `part`, chosen initially, says
which of them moves, and the others stay as they begin. The reachable states are
the union of the parts', not their product, and a temporal property of one part
holds trivially where another moves. Symmetry is used in `reviewer_parts` alone,
over notes, prompts and comments, which no action or invariant tells apart; that
run checks invariants only.

ThreadStore stands below ThreadDelivery and ThreadRecord, which see it as the
atomic register it is shown to implement; SingleInstance stands below all of the
daemon. ThreadAgent and AcpRecovery meet at the adapter's `prompt`: what the
first assumes of a durable adapter (a prompt once dispatched ends, and is not
run twice) is what the second checks. ThreadController meets ThreadRecord at the
daemon's record, of which it keeps less. They share the Thread's id and nothing
else that changes, so they are checked apart.

## 4. Runs

| Run | What it asks | Answer |
|---|---|---|
| `delivery_safety` | Two sessions compete for a Thread of two Messages, two faults: are Messages routed, waiters released, retries earned, retention safe; does it implement the contract (first session, in order, repeats only the last)? | holds |
| `delivery_write_faults` | What still holds when writes of the routing file fail, and is every promised Message settled and every waiting client served in the end? | the listed properties hold |
| `agent_turns` | Two inputs, two faults, every request of a client and event of a harness: one turn at a time, no lost turn, input or process, receipts final, inputs settle? | holds |
| `daemon_parts` | *log*: two logs, torn appends, deaths within recovery, legacy files: a durable register? *record*: do the record and the tree agree, is every comment kept? *diff*: does a review go back in time, does it follow? *prompts*: is a prompt run once, its progress the process's output, does it end? | holds |
| `remote_parts` | *home*: three processes, one killed: two owners without a steal, is the server reachable, does a stale lock stay in the way? *share*: does each request leave the queue? *client*: does the shown value ever get older, does it catch up? | holds |
| `reviewer_parts` | *window*: does it end up showing what is, do comments stay with their Thread? *share*: does each request enter once, is any edit lost, any accepted text changed? *log*: with failing writes and every tear, how much is lost, how long does a log get? | holds; at most the torn appends; at most the threshold |
| `store_newline` | Does an acknowledged update survive a cut that takes only the newline? | **no** (finding) |
| `lock_steal` | Two owners at all? | **yes** (finding) |
| `lock_divergence` | Is the owner's memory current? | **no** (finding) |
| `agent_cancel` | Is a cancelled input never submitted? | **it is** (finding) |
| `acp_reattach` | Does a completed prompt end with its own answer? | **no** (finding) |
| `window_unshare` | Does unsharing the Thread on screen stop all its shares? | **no** (finding) |

Some properties name the case they leave out, and the case is real each time:

- `PromisesAreRouted` and `NobodyParkedOnAClosedThread` are asked only where
  routing writes succeed: a failed write makes `sendMessage` throw after the
  Thread was stored and before the waiters were released, and a forgotten
  delivery of a Message that is no longer current is never recreated
  (reconciliation looks at the current Message). `PromisesAreKept` is for
  behaviours without a failed write too; `WaitersAreServed` holds with them.
- `QueueIsWatched`, `InputsSettle`: `stalled`, a connection that failed to start
  when a restarted daemon, or a client's configure, resumed the queue, or that
  exited while only a queue was there. The queue then waits for the next request.
- `ShowsItsPathUnlessBeside`: a revision landed on main while the reviewer was
  on another branch, or a capture replaced the text beneath the reviewer's own.
- `CommentsSurvive`: an edit from a stale client brought a removed comment back.
- `NeverBackInTime`: the agent's revision was of an older text, which the code
  accepts, or was submitted during a capture. `FollowsTheTree`: a capture failed,
  or such a revision came, and nothing has moved since to start another capture.
  `MovesAreOffered`: a refresh that had read an older head landed after the
  poll's answer.
- `AskedIsShown`, `EditsAreKept`: a push of the owner crossed another write.
- `ProgressIsTheOutput`: events of an older turn that were committed and whose
  acknowledgement died with a daemon; the relay replays them to the next prompt
  when that was checkpointed at cursor 0. `PromptsEnd`: a resume began past a
  request that was still open; and a prompt may wait for the reviewer for ever.
- `CatchesUp`: the last read of a connection failed, which nothing repeats.
- `ShowsWhatIs`: the Thread shown is not the one being viewed.
  `NotesKeepTheirPlace`: a Thread was given another's links. It speaks of
  comments, and not of the text of one that is being edited. Section 8 says what
  happens in each.

## 5. Bounds

Every bound is a constant that appears in a guard.

- ThreadDelivery: `MaxMessages = 2`, since order, supersession and a grant for
  an older approval need two Messages, and nothing in the code compares more;
  two sessions (first binding against a later one) where the contract is
  checked, one where writes fail; two contents, because a grant is bound to what
  was approved. `MaxFaults = 2`: a death and one further fault at any points; the
  file is rewritten whole, so after a restart only one content matters.
- ThreadStore: `CompactThreshold = 3` (40 in the code), one compaction by count
  with room for a tear before it. `MaxPuts` 5 and 8 let a log be compacted twice;
  3 and 5 faults, since what a tear leaves behind meets later tears and deaths in
  recovery. The bound of the logs is also proved for every threshold.
- SingleInstance: three processes: a lock is stolen by one from the second,
  owned by the third; `Attempts = 2` (3 in the code) lets a starter spend all.
- ThreadAgent: two submissions with two attempts each, two faults, three
  connection identities: one answered, one queued, one of them retried, and a
  third connection after two have failed. A closed identity is used again.
- ThreadRecord: three entries beyond nothing but the first revision's, one of
  them a Message or summary, two comments, two texts, one branch besides main:
  enough for a comment on a side branch against a removal or revision on main, a
  navigation past it and a fork. Both properties are also proved for all bounds;
  the invariant of that proof was checked with four entries first.
- DiffRefresh: two moves outside, so that three versions can be read in any
  order, one refresh, one revision, one restart. The revision's text may be of any
  version so far, and any capture may fail. `NeverBackInTime` is also proved for
  any numbers.
- SharedAgentRelay: two notes and two prompts with two edits and one trouble (a
  push, a lost connection, a refusal or a restart) for safety; one note for
  liveness. Two edits of one note are a version lost between them; what is sent
  again after any number of troubles is covered by the proofs.
- AcpRecovery: two prompts, an older turn and the current one, three crashes and
  two relays. An unacknowledged event of the first turn reaches the second one's
  progress only after three: between its commit and acknowledgement, between the
  turns, and between the second checkpoint and its prompt. To afford the third,
  `MCDaemon` lets one turn be two lines long and the other one (`Sized`, `Short`),
  on the first relay and until the second crash; beyond that every turn has one
  line. Two crashes suffice in `acp_reattach`. The safety properties are proved
  without these bounds.
- ThreadSubscription: two changes and two hitches: an older and a newer read
  across one reconnection, itself cut. `NeverOlder` is also proved.
- ThreadController: three Threads, one of which only a fork or creation can
  use, one hunk, two comments, one link (two in `window_unshare`) and three acts
  of the reviewer and everybody else, which interleave with the answers, events,
  uploads and pulls they cause. Three acts are a guess, something that crosses it
  and a switch. `NotesKeepTheirPlace` and `ShowsWhatIs` are also proved for any
  number. `ShowInv` was checked on a smaller instance (two Threads, one link,
  all behaviours of three acts) before it was proved.

`CHECK_DEADLOCK FALSE` in each configuration: when the bounds are spent, every
Thread deleted, every process ended or the subscription disposed, the system
rightly stops.

## 6. Fairness

- ThreadDelivery: a client or adapter that needs the daemon starts it
  (`Start`); an adapter in a pass gets on with it, a service polls and is nudged
  by events (`codex/delivery-service.ts`), so a fetch that is possible again and
  again happens (strong fairness: the daemon may be down in between); a client
  calls `session.wait` again after each null. Faults, reviewers and agents owe
  nothing.
- SingleInstance: a process gets through its own start-up and shutdown.
- ThreadAgent: the event loop runs what is ready, and a harness answers, fails
  or closes: the adapters put deadlines on start, prompt and close. One weak
  fairness condition over all of these, its `ENABLED` written out as `Due`,
  which was compared with TLC's own on a small instance.
- DiffRefresh: the debounce fires, subprocesses end, the poll's interval comes
  round and its answers arrive (weak fairness of each). A capture that ends may
  have failed: nothing makes one succeed. What is outside, the reviewer and the
  agent owe nothing.
- SharedAgentRelay: a change that has begun ends, the gateway delivers and
  notices closed connections, the owner reconnects and works through its frames
  (weak). `TakeState` is strong: it is one of the changes that the relay's chain
  serializes, so others may be running whenever it could begin, but a promise
  chain is first come, first served.
- AcpRecovery: a daemon that is down is started, one that runs does what its
  handlers have to do, a tool's call returns, and the process ends a turn that
  asks for nothing more. A reviewer's answer to a permission request is not
  assumed: a resumed prompt has no deadline (`herdr-acp/child.ts` 83), so
  `PromptsEnd` lets a prompt come to wait for one (`AwaitsReviewer`), and says
  that it goes on after each answer.
- ThreadSubscription: the client reconnects after its delay, its subscription
  and the last read of a connection are served.
- ThreadController is checked for safety only.

In the composed modules each condition is taken of `part = "..." /\ A`, so that
it binds only where its part moves.

## 7. Proofs

TLAPS checks these for every value of the constants that the modules' named
assumptions allow; none of them needs the sets of ids to be finite.

| Theorem | Says |
|---|---|
| `TypeCorrect`, `AcknowledgementFollowsInjection` (ThreadDelivery_proofs) | types; a Message counted as acknowledged, in memory or in the file, was injected and journalled by that session, failed writes included |
| `OneReceipt`, `RepeatsAreAccountedFor`, `EveryDeliveryCanBeRead`, `RetriesAreEarned` (same module) | with every fault: one operation id is one Message; a repeated injection needs a cut pass; routing state never outlives what it refers to; one retry per approval |
| `NobodyWaitsInVain`, `NoPromiseIsLost`, `RetentionOnlyTakesSettled`, `DeliveryHonoursContract` (same module) | under `~WriteFaults`: no waiter stays parked on a closed Thread; promised Messages stay routed; retention removes only settled Threads; the delivery machinery implements DeliveryContract |
| `StoreTypeCorrect`, `BoundedLogs`, `LossIsPaidFor` (ThreadStore_proofs) | all faults included: types; no log outgrows the threshold; the acknowledged updates a restart drops are at most the appends that were cut |
| `AppendsNeverFuse`, `AcknowledgedUpdatesSurvive`, `StoreImplementsRegister` | under `OnlyBytesAreCut`: no append meets an unfinished line; acknowledged updates are read back; the store implements ThreadRegister |
| `LockTypeCorrect`, `OneOwnerUnlessStolen`, `ServerIsReachable` (RemoteParts_proofs) | types; two owners need a stolen lock; the socket is the server's |
| `NoCommentIsLost` (ReviewParts_proofs) | the newest accepted text of every comment is in the record |
| `RecordShowsItsPath` (ReviewParts_proofs) | artifact, working copy and open comments are those of the current path, unless a revision has landed beside it |
| `HistoryStaysValid` (ReviewParts_proofs) | no handler makes a history that `validateHistory` refuses, for which a start of the daemon would skip the record |
| `ReviewsGoForward` (ReviewParts_proofs) | the daemon never sets a review back to an older reading: only a revision with an older text does, or a capture that a revision crossed |
| `NoEditIsLost`, `RequestsEnterOnce`, `AcceptedInputStays` (SharedAgentRelay_proofs) | the share holds every note as acknowledged last; requests and notes enter the agent once; what it was asked is what is shown |
| `ShowsNoOlder` (RemoteParts_proofs) | the value shown is never replaced by an older one |
| `AgentTypes`, `OneTurn`, `WatchedQueue`, `NoLeaks` (ThreadAgent_proofs) | types; one input at a time has its turn and is the one recorded as running; an idle queue waits for a connection or has lost it; no harness process is forgotten |
| `InOrder`, `FinalReceipts` (same module) | turns begin in the order the inputs came, across restarts; outcomes in the file stay, completed ones about answered inputs |
| `RecoveryInvariant`, `AcpTypes` (AcpRecovery_proofs) | what the task's file, the relay's mark and the daemon keep fits the transcript; types |
| `PromptsGoOutOnce`, `ProgressIsExact` (same module) | no process is given a prompt twice; the progress stored of a prompt is in order and holds, once, what the process said up to the checkpoint, and beside it at most committed events of older turns whose acknowledgement died with a daemon |
| `CommentsKeepTheirPlace` (ThreadController_proofs) | a comment is found only on its own Thread and forks of it; a share carries, from its upload on, only comments that the daemon has taken, of its Thread (the text of an edit is not covered) |
| `ScreenIsRight` (same module) | once nothing is on its way, the sidebar lists what is under review and the Thread being viewed is shown as the daemon has it |

The arguments:

- `AckInv` strengthens `AcknowledgedWasInjected` with what a pass holds:
  memory and file are *honest* (each acknowledged delivery is journalled), what
  is journalled was injected, and a pass that is about to acknowledge has its
  foremost Message journalled. Without the last part `Acknowledge` breaks the
  property; without honesty of both copies `Start` does.
- The record of a Thread changes in four ways only: it is born, says one more
  Message, is reopened, or is gone (`RecordMoves`, proved of every action).
  `OneReceipt` and the parts about records follow from that list.
- `RepeatsFit` counts, of what a session was handed, the Messages that are
  journalled. An injection adds none, the record that follows adds one, and a
  pass cut in between has been counted by `cut`. The second half, that a
  Message about to be recorded is not journalled yet, is `sendOnce`'s check,
  still true when the write happens.
- `ReadInv` holds for the file as well as for memory: every delivery and mark of
  either copy refers to a Message of its Thread, and while the daemon is up
  memory has no routing for a Thread that is gone. The file may have such
  routing, since a failed write of a removal leaves it; `Start` sweeps it, which
  is the step that needs the first part for the file.
- `GrantInv`: what refuses a second retry is the mark on the submitter's
  binding, so the mark stands in *both* copies for as long as the approved
  Message is the current one (`GrantStands`). That holds with failed writes,
  because a grant whose write fails is not given.
- `RouteInv` assumes `~WriteFaults`: then memory and file are one copy while the
  daemon runs, and per step a Thread's routing is kept, dropped with the Thread,
  gains the delivery of its newest promise, or has one delivery settled
  (`RouteMoves`). A promise is routed, or the daemon is down and the promise is
  the current Message of a bound Thread, which `Start` reconciles: this is why
  the two writes of a send may be cut apart. The four theorems under
  `~WriteFaults` need it: TLC refutes each of the properties with failed writes.
  Memory is then ahead of the file, the Thread may move on, and a death forgets
  the delivery of a Message that is no longer current; or the handler fails
  before it wakes its waiters.
- `ContractInv` adds the adapters' half for the refinement. A pass works on a
  list that may be stale (`PassFits`): all it holds was promised, in sending
  order, nothing newer has been handed over, and whatever is older was handed
  over or is ahead of it in the same list. So an injection is the contract's
  `Hand` even though the daemon has moved on since the list was read; sends,
  bindings and start-ups are `Promise` or nothing, acknowledgements `Settle`,
  deletions and retention `Forget`, and every other step stutters.
- `FitInv`: while the daemon serves, the count it keeps of a log is at most one
  line behind the file, and only if the file ends in an unfinished line, which
  the next append joins instead of adding to. That gap is what a failed append
  leaves, and why comparing the *count* with the threshold still bounds the
  *file*.
- `KeptInv` speaks of what recovery *would* read: an unfinished last line is a
  fragment, so the log is seen as torn and rewritten before it can swallow an
  append; while serving, memory shows what would be read. `OnlyBytesAreCut` is
  needed: the run `store_newline` violates the property without it. The
  refinement follows action by action, since `Readable` is the register.
- `LossInv` compares the acknowledged updates not with what is read now but with
  what is *safe*: what would be read once the next append has fused with an
  unfinished last line. A cut append leaves the log a credit of one, and the
  fused append spends it on the one update it loses; an unfinished line that does
  parse is newer than everything acknowledged. Without the credit the step after
  a cut that lost only the newline is not inductive.
- `AgentInv` is what holds of the manager's record after *every operator* a
  handler is composed of, so that drain, connect, fail and configure can be
  lined up as the code does. At most one connection is in use or being closed,
  never both (`Core`); a run that has its turn has it on the connection in use
  and waits for it exactly as long as it starts (`Seats`), which is why the
  rejections of a lost connection meet one run at most; a configure() that waits
  has something to wait for (`Joins`); and the statuses in the record agree with
  the runs (`Books`). `OneTurnAtATime` alone is not inductive: without `Seats` an
  exit could fail a run that waits on another connection. An idle queue needs
  more than `QueueIsWatched` says: the configure() it waits for must be one
  without a value to set (`Watched`), since setting one does not drain.
  Receipts: an outcome saved is the one in memory (`Kept`), and inputs that were
  answered are not asked again (`Keeps`), so a settled receipt cannot become
  untrue (`Receipted`). `Follows` says of each operator that it queues nothing
  and gives the turn to the first of the queue; `InOrder` composes it.
- `LockInv` adds that a process found dead stays dead and that, until a steal,
  an owner's lock and a server's socket are in place.
- `RecordIInv`: a comment that is both shown and on the shelf is one a stale
  edit brought back (`ShelvedOrShown`), and what is in either map was accepted.
  Removal and fold move objects between the maps and the shelf's object wins, so
  without the first part a fold could prefer an older text.
- `RefreshIInv`: until the Thread is deleted, which forgets the generation, no
  two captures share a generation and none is ahead of the Thread's
  (`Generations`); what is read comes from outside and is no newer than it
  (`ReadFromOutside`), as is what the agent has captured; and, the heart, the
  capture that may still land has read no earlier than what the review shows, or
  a revision crossed it (`LastCaptureIsNewest`).
- `StoreInv`: at most one change that the relay's chain serializes (`OneJob`);
  a change or push that nothing has crossed holds the blob as it is
  (`ReadsAreFresh`); hence what it writes differs from what was acknowledged in
  its own note only.
- `PipeInv` follows a request from the queue to the daemon and back. A request
  is named by its note (`NamedByNote`); a note with a request in any place of
  the pipe is frozen (`UnderwayFrozen`), and a change that has begun is of notes
  that are not (`ChangesOpen`); what the gateway will be told only grows (`KnownGrows`), so
  that a note whose request leaves the queue is known by then
  (`AcceptedIsKnown`); then a note has one request (`OnePerNote`) and its text is
  the blob's (`TextsShown`). Without `KnownGrows` a late frame of the publisher
  could reopen a note, and that is why both senders write in the order in which
  the daemon answers them.
- `SubIInv`: reads of one connection are ordered by version, those answered
  later started later (`ReadsAreOrdered`), none has seen more than there is, and
  the last read of a connection sees at least what is shown
  (`LastReadIsNewest`).
- `ViewIInv`: every message under way fits its Thread: a comment is asked of the
  Thread it was written on, with links of that Thread or of one that strayed; a
  merge carries notes of the link it names; an answer repeats its request; and
  the record shown, the sidebar and the list held back at the start show links
  that fit likewise, and, guesses apart, comments of the Thread that the daemon
  has (`Own`, `Placed`; `DaemonFits`, `WiresFit`, `WindowFits`, `GatewayFits`). The
  last is what makes an upload fit, whose notes are those of whatever copy is on
  the screen. The four are stable because a comment's home and a link's Thread are
  set once and `accepted`, `strayed` and a Thread's kin only grow (`Steady`),
  which is proved of every action first.

- `RecoveryInv`: a relay's transcript is *well told* whoever reads it
  (`WellTold`): turns follow one another, each begins with its one prompt, and
  nothing of a turn comes before its prompt or after its stop reason. To that
  transcript it ties what was written down. What the daemon, the task and the
  relay keep are places of it (`Placed`). The checkpoint lies before the prompt's
  stop reason, and nothing the prompt said past it is acknowledged (`Marked`);
  what it said up to it is acknowledged, or due to be, or was left so by a death
  (`Acking`); so is whatever was said in the turns before (`Settled`). While a
  handler runs, what it has still to commit or to read is all that the prompt said
  past the checkpoint, in order, and nothing of other turns but what was left
  unacknowledged (`Pending`); what was said up to it is stored (`Exact`). `Exact`
  is what `ProgressIsTheOutput` says, and is not inductive
  alone: a commit moves the checkpoint to the event that is next, and only
  `Pending` says that none in between was left out. After a death `Marked` is
  what makes the next attachment replay exactly what `Pending` asks for.
  A replay begins behind the relay's mark or the checkpoint, whichever is later,
  so what a death left unacknowledged comes back only to a prompt whose checkpoint
  is before it, which is one dispatched at cursor 0 by a daemon that attached
  between the turns.
- `ShowInv` says of everything shown that it fits or that something under way
  will put it right. A copy on its way, a list on its way: the daemon has it so,
  or an event follows in the same queue (`CopiesFit`, `ListsFit`). The sidebar:
  it agrees, or a listed event or a list is coming or asked for (`InboxFits`).
  The Thread being viewed: it is shown as it is, or an event of it, a request
  that reads it or its answer is still under way (`ViewFits`); a guess is of the
  latter kind, since it is asked in the step that shows it, and a refused one
  turns into a request to read. Each daemon step that changes a record puts an
  event behind everything told so far (`Told`), which is the whole argument for
  the first two parts, and why it matters that answers and events share one
  ordered connection. The opening needs parts of its own: the list that
  `connect` holds back may be shown late only because the list is asked for anew
  behind the Thread it waits for (`HeldFits`), and that Thread is there when it
  is read, because nothing can be deleted before anything is shown
  (`OpeningFits`). `ThereIsBorn` and the `Born` parts say that ids are not used
  again; without them a copy of a deleted Thread could meet a new one.

- `PathInv` says that the tree is well-formed (it grew from the agent's first
  revision, each parent before its child, every tip in it, each revision with a
  text), and that, unless a revision has landed beside the path, the record fits
  the path and the working copy is not the artifact's own text. A fold from a
  well-formed tree fits by itself (`FoldFits`), so a handler that folds only has
  to keep the tree well-formed. One that writes by hand adds one place to the
  path (`AppendIsLonger`), and `TextsOfLonger` and `OpenOnLonger` say what that
  does to the two texts and to what is open. The last part, `workingCopy #
  content`, is needed where a tree is captured again beneath a reviewer who has
  no text: it is what makes the record show the new text. A path is a recursive
  function; that the function exists, and that later entries leave its values
  alone, is proved by the least place at which it would fail (`PathsExist`,
  `PathsStay`), which needs no induction theorem.

`AgentAssumption` gives ThreadAgent at least one connection and at least one
attempt, as the code has (`connection` numbers from one, `MAX` of retries is
positive); without either nothing could run.

Only model-checked: all liveness (`WaitersAreServed`, `PromisesAreKept`,
`InputsSettle`, `MovesAreOffered`, `PromptsEnd`, `StartersGetService`,
`RequestsAreServed`, `CatchesUp` and the like), since the prover has no rules
for fairness with `ENABLED` here. What is left of
delivery when writes of the harness-state file fail is the subject of the run
`delivery_write_faults`, whose safety properties are all proved as well.

## 8. Findings and observations

Findings, each with the run that shows it:

- **A lost newline** (`store.ts:203`, `store_newline`): an append that lost only
  its newline reads as clean, is not rewritten, and fuses with the next,
  acknowledged, update.
- **A stolen lock** (`server.ts:215`, `lock_steal`): between the probe that finds
  an owner dead and the removal of the lock, the owner's stop and a third
  daemon's start fit; the live lock is removed.
- **State before the lock** (`server.ts:90`, `lock_divergence`): a second process
  recovers and writes back the home's files before it tries for the lock.
- **A cancelled input returns** (`thread-agent.ts:127`, `agent_cancel`): after a
  death during initialization a durable adapter's recovery queues a cancelled
  input again, and it is submitted.
- **An older answer is taken for the new one** (`herdr-acp/binding.ts:173`,
  `acp_reattach`): a daemon restarted between two turns attaches at cursor 0, the
  next prompt is checkpointed there, and a death before it is written has
  recovery end it with the previous turn's stop reason; it is never sent.
- **A share outlives unsharing** (`thread-controller.ts:1833`, `window_unshare`):
  links travel as a whole list read after the upload; of two created in quick
  succession the first drops out of the list, and nothing revokes it.

What the models had to leave room for, without a run of its own:

- A revision that lands on main while the reviewer is on another branch becomes
  what the artifact shows, against `api.ts:1000` ("the artifact shows the head of
  the branch the reviewer is on") and `api.test.ts:642`; the next fold puts it
  right. (`beside` in ThreadRecord)
- A tree captured again beneath a reviewer's edit that was undone may make the
  text of before the capture the working copy. (`beside`)
- An edit from a client that has not seen a removal re-creates the comment under
  its id while its old object is on the shelf; a later fold prefers the old
  object. (`shadowed`)
- A live diff that is resolved and reopened by a revision is not watched again
  until the daemon restarts (`api.ts:1576`), and a revision submitted while a
  capture is under way is overwritten by it. (`tracked`, `crossed` in
  DiffRefresh)
- A refresh of a pull request that lands an older head withdraws the offer of
  the newer one, and the poll, which compares with its own last answer, does not
  repeat it. (`overtaken`)
- The gateway's push merges so as to be "never clobbering a collaborator's"
  (`gateway/server.ts:771`), but it runs outside the relay's chain: a push and a
  collaborator's edit that cross lose one of the two. (`clobbered`)
- A request that the owner's daemon keeps rejecting kills the connection each
  time and blocks what is queued behind it.
- A permission request that was open when the daemon died is not shown again
  where the resume begins past it; `adapters/README.md:121` and
  `herdr-acp.test.ts:75` expect it. (`skipped` in AcpRecovery)
- An event that was committed and not acknowledged when the daemon died stays with
  the relay. If the turn then ends, the next daemon starts between the turns and
  attaches at cursor 0, and it dies between the next prompt's checkpoint and its
  writing, the resume replays the event into the next prompt's progress. Three
  deaths at such points are needed. (`unacked` in AcpRecovery)
- A review of a tree whose capture failed, or that was revised with a text that
  was no longer the tree's, stays behind until something moves again: the watcher
  swallows the failure (`api.ts` 1389-1393) and nothing retries it. A revision may
  thereby set a review back. (`behind`, `draft` in DiffRefresh)
- Lines that an fx harness emits as start-up messages may follow the stop reason
  (`fx/harness.ts` 243-280).
- The window (ThreadController). After a fork or a comment on the workbench the
  Thread shown is not `viewingId`, so events do not refresh it and a refused
  guess stays (line 914 says otherwise). An answer replaces later guesses: of
  three decisions on hunks in quick succession, or one just after an event, an
  earlier one is lost (898-900 say otherwise), since the next decision sends the
  whole list from what is shown. Returning to a Thread paints the sidebar's older
  copy, from which a quick decision does the same. The answer to a change of a
  Thread that was left flashes it until the newer read arrives. A new link
  does not publish a comment that is not answered yet, but it does publish an
  unanswered edit's text, which the fold takes from what is shown. Links of a resolved
  Thread cannot be listed: a link created then is live and unlisted. A share
  published after its Thread was deleted stays. A Thread given another's links can
  receive that one's notes. A Thread created before the first answer to
  `connect` is replaced on the screen by the one asked for first. A deleted Thread
  stays on the screen, and the controller never reconnects.

## 9. Not modelled

- *Steps taken as one*: the writes of a daemon's start-up (`ThreadDelivery.Start`;
  each is idempotent at the next start); an answer is the record as it was when
  the request was served, while `server.ts` 379-382 serializes it after an await,
  so that it may be newer than the event behind it
  (`ThreadController.Change`); the delivery to acknowledge is found by its place
  and not by its id (`ThreadDelivery.Acknowledge`), the same one since
  deliveries are only settled; the record an attachment writes does not fail
  (`SharedAgentRelay.Attach`; `shared-agent.ts` 289-294 is the error path).
- *A capture with an equal text and another source* changes nothing in
  ThreadRecord; the code drops it as well (`api.ts` 1196, 1252).
- *In the modelled parts*: message bodies, limits on counts and bytes (128
  requests, 32 frames, transcript length), timers' lengths, two log directories
  of one Thread, reuse of a pid by another program, failed writes of the agent's
  record, the harness handoff; comments on answers, revocation and expiry of
  shares, the order of the relay's requests; labels, validation and the
  rebuilding of a history; cancellation of a durable task; the window's text
  cuts, working copy, moves in the history, walk, completion and countdown,
  policies of links and reconnection.
- *The journal's lock between adapter processes*: ThreadDelivery has one adapter
  per session. *The review SDK's find-then-create*, *launch reservations of the
  surfaces*: small protocols with parties outside the repository.
- *The wire protocol and the rate limit* are sequential byte and clock
  arithmetic over one connection, well covered by their unit tests.
- *Rendering and keyboard handling*, *the command line*, *extensions*, *site*,
  *cryptography*, *SSH and VCS subprocesses* are I/O around one-shot calls, or
  state that is drawn and not shared; *the text algorithms* of `schema/` have no
  state between calls. They are most of the repository's lines, which is why the
  map covers a small part of them: it covers the part in which steps of several
  parties, or of several moments, meet.
