--------------------------- MODULE SharedAgentRelay ---------------------------
(***************************************************************************)
(* One shared Thread at the gateway and the agent its owner lends to it:   *)
(* the share's blob and the relay's record (gateway/src/shared-agent.ts,   *)
(* server.ts, blob-thread-client.ts), and the owner's end of the relay     *)
(* (adapters/src/owner-agent-relay.ts).                                    *)
(*                                                                         *)
(* Collaborators write notes into the blob and ask the agent about them.   *)
(* The gateway only keeps the requests; the connected owner enters them    *)
(* into the daemon and acknowledges them with the daemon's state.  The     *)
(* relay's changes of a share run one after another; the owner's pushes of *)
(* its own note run beside them.  The store answers asynchronously, so a   *)
(* change reads the blob in one step and writes in another.                *)
(*                                                                         *)
(* The order of the requests is abstracted from.  Comments on the          *)
(* agent's answers, revocation and expiry are left out.                    *)
(***************************************************************************)
EXTENDS Naturals, Sequences, FiniteSets

CONSTANTS
    Notes,     \* ids of collaborators' notes
    OwnerNote, \* the owner's note
    Prompts,   \* operation ids of the collaborators' clients
    NoNote,    \* a request that is text of its own
    MaxEdits,  \* bound: edits, in all
    MaxTroubles \* bound: pushes, lost connections and restarts, in all

ASSUME RelayAssumption ==
    /\ OwnerNote \notin Notes
    /\ NoNote \notin Notes \cup {OwnerNote}
    /\ MaxEdits \in Nat
    /\ MaxTroubles \in Nat

VARIABLES
    blob,       \* the stored notes: id -> version, 0 if it is not there
    record,     \* the stored RelayRecord
    jobs,       \* the relay's changes of this share that have begun
    pushes,     \* the pushes under way, with the blob each has read
    owed,       \* deliver() has been called and has not sent
    attached,   \* the gateway's side of the owner's connection
    toOwner,    \* frames to the owner
    toGateway,  \* frames to the gateway
    linked,     \* the owner's side of its connection
    serving,    \* the frame the owner is working on
    subs,       \* submissions of the owner's daemon
    unpublished, \* the publisher is dirty
    edits,      \* edits so far
    troubles,   \* troubles so far
    written,    \* history variable: the version of each note acknowledged last
    clobbered   \* history variable: a push and another write crossed

relayVars == <<blob, record, jobs, pushes, owed, attached, toOwner, toGateway,
               linked, serving, subs, unpublished, edits, troubles, written, clobbered>>

storeVars  == <<blob, record>>
ownerVars  == <<linked, serving, subs, unpublished>>
wireVars   == <<attached, toOwner, toGateway>>
relayGhosts == <<written, clobbered>>

-----------------------------------------------------------------------------
NoFrame == [busy |-> FALSE, todo |-> {}, accepted |-> {}]

RelayInit ==
    /\ blob = [n \in Notes \cup {OwnerNote} |-> 0]
    /\ record = [requests |-> {}, receipts |-> {}, known |-> {}]
    /\ jobs = {}
    /\ pushes = {}
    /\ owed = FALSE
    /\ attached = FALSE
    /\ toOwner = <<>>
    /\ toGateway = <<>>
    /\ linked = FALSE
    /\ serving = NoFrame
    /\ subs = {}
    /\ unpublished = FALSE
    /\ edits = 0
    /\ troubles = 0
    /\ written = blob
    /\ clobbered = FALSE

Requested(n) == \E r \in record.requests : r.note = n

\* frozen: the note's request is queued, or its submission is known.
Frozen(n) == Requested(n) \/ n \in record.known

\* Mutant of Idle: changes of one share do not wait for each other.
NeverBusy == Cardinality(jobs) < 2

\* serialize: a change of this share waits for the one before it.
Idle == jobs = {}

-----------------------------------------------------------------------------
(* Notes: commitStored under edit() *)

\* Mutant of BeginEdit: a note that was sent to the agent can be changed.
BeginAnyEdit(n, version) ==
    /\ Idle
    /\ edits < MaxEdits
    /\ edits' = edits + 1
    /\ version # 0 => version = written[n] + 1
    /\ version = 0 => blob[n] # 0
    /\ jobs' = jobs \cup {[note |-> n, version |-> version, read |-> blob, crossed |-> FALSE]}
    /\ UNCHANGED <<storeVars, pushes, owed, wireVars, ownerVars, troubles, relayGhosts>>

\* An upsert of the author's note, or its removal (version 0).
BeginEdit(n, version) ==
    /\ Idle
    /\ ~Frozen(n)
    /\ edits < MaxEdits
    /\ edits' = edits + 1
    /\ version # 0 => version = written[n] + 1
    /\ version = 0 => blob[n] # 0
    /\ jobs' = jobs \cup {[note |-> n, version |-> version, read |-> blob, crossed |-> FALSE]}
    /\ UNCHANGED <<storeVars, pushes, owed, wireVars, ownerVars, troubles, relayGhosts>>

Crossed(S) == {[x EXCEPT !.crossed = TRUE] : x \in S}

EndEdit(j) ==
    /\ blob' = [j.read EXCEPT ![j.note] = j.version]
    /\ jobs' = jobs \ {j}
    /\ pushes' = Crossed(pushes)
    /\ written' = [written EXCEPT ![j.note] = j.version]
    /\ clobbered' = (clobbered \/ j.crossed)
    /\ UNCHANGED <<edits, record, owed, wireVars, ownerVars, troubles>>

\* handlePush: read, merge, put, outside the relay's chain.
BeginPush ==
    /\ troubles < MaxTroubles
    /\ troubles' = troubles + 1
    /\ pushes' = pushes \cup {[version |-> troubles', read |-> blob, crossed |-> FALSE]}
    /\ UNCHANGED <<edits, storeVars, jobs, owed, wireVars, ownerVars, relayGhosts>>

EndPush(p) ==
    /\ blob' = [p.read EXCEPT ![OwnerNote] = p.version]
    /\ pushes' = Crossed(pushes \ {p})
    /\ jobs' = Crossed(jobs)
    /\ written' = [written EXCEPT ![OwnerNote] = p.version]
    /\ clobbered' = (clobbered \/ p.crossed)
    /\ UNCHANGED <<edits, record, owed, wireVars, ownerVars, troubles>>

-----------------------------------------------------------------------------
(* Prompts *)

\* The notes a prompt submits: there, not submitted and not queued.
PendingNotes(seen) == {n \in Notes : seen[n] # 0 /\ ~Frozen(n)}

RequestsOf(o, asked, text, seen) ==
    {[op |-> <<o, n>>, note |-> n, text |-> seen[n]] : n \in asked}
        \cup (IF text THEN {[op |-> <<o, NoNote>>, note |-> NoNote, text |-> 0]} ELSE {})

(* prompt: the batch of all pending notes, or of one, or a text of its own *)
(* (inputOnly).  It is the blob read here whose texts are frozen.          *)
BeginPrompt(o, asked, text) ==
    /\ Idle
    /\ o \notin record.receipts
    /\ \/ asked = PendingNotes(blob)
       \/ ~text /\ \E n \in PendingNotes(blob) : asked = {n}
       \/ text /\ asked = {}
    /\ asked # {} \/ text
    /\ jobs' = jobs \cup {[prompt |-> o, requests |-> RequestsOf(o, asked, text, blob),
                           crossed |-> FALSE]}
    /\ UNCHANGED <<edits, storeVars, pushes, owed, wireVars, ownerVars, troubles, relayGhosts>>

IsPrompt(j) == "prompt" \in DOMAIN j

(* A push that crossed the prompt has put texts in the blob that the batch *)
(* did not read, or had read the blob before an edit: see `clobbered`.     *)
EndPrompt(j) ==
    /\ record' = [record EXCEPT !.requests = @ \cup j.requests,
                                !.receipts = @ \cup {j.prompt}]
    /\ jobs' = jobs \ {j}
    /\ owed' = TRUE
    /\ UNCHANGED <<edits, blob, pushes, wireVars, ownerVars, troubles, relayGhosts>>

\* deliver: all that is queued goes to the owner, if there is one.
Deliver ==
    /\ owed
    /\ owed' = FALSE
    /\ toOwner' = IF attached THEN Append(toOwner, record.requests) ELSE toOwner
    /\ UNCHANGED <<edits, storeVars, jobs, pushes, attached, toGateway, ownerVars, troubles, relayGhosts>>

-----------------------------------------------------------------------------
(* The owner's connection *)

\* Mutant of Attach: what was queued while the owner was away is not sent.
AttachSilently ==
    /\ ~linked /\ ~attached
    /\ linked' = TRUE
    /\ attached' = TRUE
    /\ UNCHANGED <<edits, storeVars, jobs, pushes, owed, toOwner, toGateway, serving, subs,
                   unpublished, troubles, relayGhosts>>

(* connect's hello and attach, which delivers.  While the gateway has not  *)
(* noticed that the old connection is gone, the owner is refused and tries *)
(* again; it connects again only when it is done with the frame it had.    *)
Attach ==
    /\ ~linked /\ ~attached
    /\ ~serving.busy
    /\ linked' = TRUE
    /\ attached' = TRUE
    /\ toOwner' = <<record.requests>>
    /\ UNCHANGED <<edits, storeVars, jobs, pushes, owed, toGateway, serving, subs,
                   unpublished, troubles, relayGhosts>>

\* The owner's end is gone; frames it has sent may still arrive.
DropOwner ==
    /\ linked
    /\ troubles < MaxTroubles
    /\ troubles' = troubles + 1
    /\ linked' = FALSE
    /\ toOwner' = <<>>
    /\ UNCHANGED <<edits, storeVars, jobs, pushes, owed, attached, toGateway, serving, subs,
                   unpublished, relayGhosts>>

\* A close reaches the gateway: frames of that channel are dropped.
NoticeClose ==
    /\ attached /\ ~linked
    /\ attached' = FALSE
    /\ toGateway' = <<>>
    /\ UNCHANGED <<edits, storeVars, jobs, pushes, owed, toOwner, ownerVars, troubles, relayGhosts>>

\* The gateway stops: what is stored stays.
RestartGateway ==
    /\ troubles < MaxTroubles
    /\ troubles' = troubles + 1
    /\ jobs' = {}
    /\ pushes' = {}
    /\ owed' = FALSE
    /\ attached' = FALSE
    /\ linked' = FALSE
    /\ toOwner' = <<>>
    /\ toGateway' = <<>>
    /\ UNCHANGED <<edits, storeVars, serving, subs, unpublished, relayGhosts>>

-----------------------------------------------------------------------------
(* The owner: OwnerAgentRelay *)

TakeRequests ==
    /\ linked
    /\ ~serving.busy
    /\ toOwner # <<>>
    /\ serving' = [busy |-> TRUE, todo |-> Head(toOwner), accepted |-> {}]
    /\ toOwner' = Tail(toOwner)
    /\ UNCHANGED <<edits, storeVars, jobs, pushes, owed, attached, toGateway, linked, subs,
                   unpublished, troubles, relayGhosts>>

\* agent.prompt on the daemon: a known operation is accepted as it was.
Enter(r) ==
    subs' = IF \E s \in subs : s.op = r.op THEN subs ELSE subs \cup {r}

EnterRequest ==
    /\ serving.busy
    /\ \E r \in serving.todo :
          /\ Enter(r)
          /\ serving' = [serving EXCEPT !.todo = @ \ {r}, !.accepted = @ \cup {r.op}]
    /\ unpublished' = TRUE
    /\ UNCHANGED <<edits, storeVars, jobs, pushes, owed, wireVars, linked, troubles, relayGhosts>>

\* agent.prompt rejects, or the daemon is gone: the connection is killed.
EnterFails ==
    /\ serving.busy
    /\ troubles < MaxTroubles
    /\ troubles' = troubles + 1
    /\ serving' = NoFrame
    /\ linked' = FALSE
    /\ toOwner' = <<>>
    /\ UNCHANGED <<edits, storeVars, jobs, pushes, owed, attached, toGateway, subs,
                   unpublished, relayGhosts>>

(* The daemon answers one client's requests in order and each answer is    *)
(* written when it comes: the states of both senders are sent in the order *)
(* they are read in.                                                       *)
SubmittedNotes == {s.note : s \in subs} \ {NoNote}

SendState(accepted) ==
    toGateway' = IF linked
                 THEN Append(toGateway, [known |-> SubmittedNotes, accepted |-> accepted])
                 ELSE toGateway

Acknowledge ==
    /\ serving.busy
    /\ serving.todo = {}
    /\ SendState(serving.accepted)
    /\ serving' = NoFrame
    /\ UNCHANGED <<edits, storeVars, jobs, pushes, owed, attached, toOwner, linked, subs,
                   unpublished, troubles, relayGhosts>>

\* LatestStatePublisher: one refresh for any number of updates.
Publish ==
    /\ unpublished
    /\ unpublished' = FALSE
    /\ SendState({})
    /\ UNCHANGED <<edits, storeVars, jobs, pushes, owed, attached, toOwner, linked, serving,
                   subs, troubles, relayGhosts>>

\* Mutant of Taken: the requests go and the submissions are left as they were.
TakenAlone(f) ==
    [record EXCEPT !.requests = {r \in @ : r.op \notin f.accepted}]

\* accept: the owner's state replaces the record's; what it accepted goes.
Taken(f) ==
    [record EXCEPT !.known = f.known,
                   !.requests = {r \in @ : r.op \notin f.accepted}]

TakeState ==
    /\ attached
    /\ Idle
    /\ toGateway # <<>>
    /\ record' = Taken(Head(toGateway))
    /\ toGateway' = Tail(toGateway)
    /\ UNCHANGED <<edits, blob, jobs, pushes, owed, attached, toOwner, ownerVars, troubles, relayGhosts>>

-----------------------------------------------------------------------------
EndJob == \E j \in jobs : IF IsPrompt(j) THEN EndPrompt(j) ELSE EndEdit(j)

RelayNext ==
    \/ \E n \in Notes, v \in 0..MaxEdits : BeginEdit(n, v)
    \/ BeginPush
    \/ \E p \in pushes : EndPush(p)
    \/ \E o \in Prompts, asked \in SUBSET Notes, text \in BOOLEAN :
          BeginPrompt(o, asked, text)
    \/ EndJob
    \/ Deliver
    \/ Attach
    \/ DropOwner
    \/ NoticeClose
    \/ RestartGateway
    \/ TakeRequests
    \/ EnterRequest
    \/ EnterFails
    \/ Acknowledge
    \/ Publish
    \/ TakeState

RelaySpec == RelayInit /\ [][RelayNext]_relayVars

\* Neither process puts off what it has to do; what the owner sends takes
\* its turn among the changes of the share, however many there are.
GatewayProceeds == Deliver \/ NoticeClose
OwnerProceeds   == Attach \/ TakeRequests \/ EnterRequest \/ Acknowledge

RelayFairSpec ==
    /\ RelaySpec
    /\ WF_relayVars(EndJob)
    /\ WF_relayVars(GatewayProceeds)
    /\ SF_relayVars(TakeState)
    /\ WF_relayVars(OwnerProceeds)

-----------------------------------------------------------------------------
(* A request enters the owner's agent once, and so does a note, however    *)
(* often it is delivered again after a lost connection, an acknowledgement *)
(* that never came or a restart of the gateway: the record never forgets a *)
(* request before it knows the submission it became.                       *)
EachEntersOnce ==
    \A r, s \in subs :
        r # s => /\ r.op # s.op
                 /\ r.note = s.note => r.note = NoNote

(* "Accepted input cannot be changed": what the agent was asked about a    *)
(* note is what the share shows, unless a push crossed another write.      *)
AskedIsShown ==
    clobbered \/ \A s \in subs : s.note # NoNote => blob[s.note] = s.text

(* No acknowledged note is lost or reverted by another collaborator's, as  *)
(* long as no push of the owner crosses a write.                           *)
EditsAreKept == clobbered \/ blob = written

(* What a collaborator's prompt asked leaves the gateway's queue in the    *)
(* end, which it only does with the owner's acknowledgement: through lost  *)
(* connections, restarts of the gateway and a daemon that refuses it once. *)
Queued(o) == \E r \in record.requests : r.op[1] = o

RequestsAreServed == \A o \in Prompts : Queued(o) ~> ~Queued(o)
=============================================================================
