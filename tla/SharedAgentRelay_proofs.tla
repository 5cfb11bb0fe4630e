------------------------ MODULE SharedAgentRelay_proofs ------------------------
(***************************************************************************)
(* Proofs, for any notes, prompts and bounds: no collaborator's edit is    *)
(* lost, every request enters the owner's agent once, and what the agent   *)
(* was asked is what the share shows, as long as no push crosses a write.  *)
(***************************************************************************)
EXTENDS SharedAgentRelay, TLAPS

Stored == [Notes \cup {OwnerNote} -> Nat]

Op == Prompts \X (Notes \cup {NoNote})

Request == [op : Op, note : Notes \cup {NoNote}, text : Nat]

EditJob   == [note : Notes, version : Nat, read : Stored, crossed : BOOLEAN]
PromptJob == [prompt : Prompts, requests : SUBSET Request, crossed : BOOLEAN]
Push      == [version : Nat, read : Stored, crossed : BOOLEAN]
State     == [known : SUBSET Notes, accepted : SUBSET Op]

RelayTypeOK ==
    /\ blob \in Stored
    /\ written \in Stored
    /\ record \in [requests : SUBSET Request, receipts : SUBSET Prompts, known : SUBSET Notes]
    /\ jobs \subseteq EditJob \cup PromptJob
    /\ pushes \subseteq Push
    /\ toOwner \in Seq(SUBSET Request)
    /\ toGateway \in Seq(State)
    /\ serving \in [busy : BOOLEAN, todo : SUBSET Request, accepted : SUBSET Op]
    /\ subs \subseteq Request
    /\ troubles \in Nat
    /\ clobbered \in BOOLEAN

\* serialize: one change of the share at a time.
OneJob == \A j, k \in jobs : j = k

\* What a change has read is what is stored, unless another write came between.
ReadsAreFresh ==
    /\ \A j \in jobs : ~IsPrompt(j) /\ ~j.crossed => j.read = blob
    /\ \A p \in pushes : ~p.crossed => p.read = blob

StoreInv ==
    /\ RelayTypeOK
    /\ OneJob
    /\ ReadsAreFresh
    /\ EditsAreKept

-----------------------------------------------------------------------------
LEMMA Kinds ==
    ASSUME NEW j
    PROVE  /\ j \in EditJob => ~IsPrompt(j)
           /\ j \in PromptJob => IsPrompt(j)
  BY DEF EditJob, PromptJob, IsPrompt

\* What a push that crosses a change leaves of it.
SameJob(x, j) ==
    /\ x \in EditJob \cup PromptJob
    /\ x.crossed
    /\ IsPrompt(x) <=> IsPrompt(j)
    /\ IsPrompt(x) => x.requests = j.requests
    /\ ~IsPrompt(x) => x.note = j.note

LEMMA CrossedJobs ==
    ASSUME NEW S, S \subseteq EditJob \cup PromptJob
    PROVE  \A x \in Crossed(S) : \E j \in S : SameJob(x, j)
<1> SUFFICES ASSUME NEW x \in Crossed(S) PROVE \E j \in S : SameJob(x, j)
  OBVIOUS
<1>1. PICK j \in S : x = [j EXCEPT !.crossed = TRUE]
  BY DEF Crossed
<1>2. CASE j \in EditJob
  <2>1. x \in EditJob /\ x.crossed /\ x.note = j.note
    BY <1>1, <1>2 DEF EditJob
  <2> QED BY <1>2, <2>1, Kinds DEF SameJob
<1>3. CASE j \in PromptJob
  <2>1. x \in PromptJob /\ x.crossed /\ x.requests = j.requests
    BY <1>1, <1>3 DEF PromptJob
  <2> QED BY <1>3, <2>1, Kinds DEF SameJob
<1> QED BY <1>2, <1>3

LEMMA CrossedPushes ==
    ASSUME NEW S, S \subseteq Push
    PROVE  Crossed(S) \subseteq Push /\ \A x \in Crossed(S) : x.crossed
  BY DEF Crossed, Push

-----------------------------------------------------------------------------
LEMMA StoreInit == RelayInit => StoreInv
<1> SUFFICES ASSUME RelayInit PROVE StoreInv
  OBVIOUS
<1>1. /\ blob \in Stored /\ written = blob
      /\ jobs = {} /\ pushes = {} /\ subs = {} /\ troubles = 0 /\ clobbered = FALSE
      /\ toOwner = <<>> /\ toGateway = <<>>
  BY DEF RelayInit, Stored
<1>2. record \in [requests : SUBSET Request, receipts : SUBSET Prompts, known : SUBSET Notes]
  BY DEF RelayInit
<1>3. serving \in [busy : BOOLEAN, todo : SUBSET Request, accepted : SUBSET Op]
  BY DEF RelayInit, NoFrame
<1>4. toOwner \in Seq(SUBSET Request) /\ toGateway \in Seq(State)
  BY <1>1
<1>5. clobbered \in BOOLEAN
  BY <1>1
<1>6. RelayTypeOK
  BY <1>1, <1>2, <1>3, <1>4, <1>5, Zenon DEF RelayTypeOK
<1> QED BY <1>1, <1>6 DEF StoreInv, OneJob, ReadsAreFresh, EditsAreKept

\* Nothing of the store, the changes under way or the history moves.
LEMMA ElsewhereKeeps ==
    ASSUME StoreInv, RelayTypeOK',
           UNCHANGED <<blob, jobs, pushes, written, clobbered>>
    PROVE  StoreInv'
  BY DEF StoreInv, OneJob, ReadsAreFresh, EditsAreKept, IsPrompt

LEMMA BeginEditKeeps ==
    ASSUME StoreInv, NEW n \in Notes, NEW v \in 0..MaxEdits, BeginEdit(n, v)
    PROVE  StoreInv'
<1> DEFINE j == [note |-> n, version |-> v, read |-> blob, crossed |-> FALSE]
<1>1. /\ jobs = {} /\ jobs' = jobs \cup {j}
      /\ UNCHANGED <<storeVars, pushes, wireVars, ownerVars, troubles, relayGhosts>>
  BY DEF BeginEdit, Idle
<1>2. j \in EditJob /\ ~IsPrompt(j) /\ j.read = blob
  BY RelayAssumption DEF StoreInv, RelayTypeOK, EditJob, IsPrompt
<1> HIDE DEF j
<1>3. RelayTypeOK'
  BY <1>1, <1>2 DEF StoreInv, RelayTypeOK, storeVars, wireVars, ownerVars, relayGhosts
<1> QED BY <1>1, <1>2, <1>3
        DEF StoreInv, OneJob, ReadsAreFresh, EditsAreKept, storeVars, relayGhosts

LEMMA EndEditKeeps ==
    ASSUME StoreInv, NEW j \in jobs, ~IsPrompt(j), EndEdit(j)
    PROVE  StoreInv'
<1>1. /\ blob' = [j.read EXCEPT ![j.note] = j.version]
      /\ written' = [written EXCEPT ![j.note] = j.version]
      /\ jobs' = jobs \ {j}
      /\ pushes' = Crossed(pushes)
      /\ clobbered' = (clobbered \/ j.crossed)
      /\ UNCHANGED <<record, wireVars, ownerVars, troubles>>
  BY DEF EndEdit
<1>2. j \in EditJob
  BY Kinds DEF StoreInv, RelayTypeOK
<1>3. jobs' = {}
  BY <1>1 DEF StoreInv, OneJob
<1>4. blob' \in Stored /\ written' \in Stored
  BY <1>1, <1>2 DEF StoreInv, RelayTypeOK, EditJob, Stored
<1>5. pushes' \subseteq Push /\ \A p \in pushes' : p.crossed
  BY <1>1, CrossedPushes DEF StoreInv, RelayTypeOK
<1>6. clobbered' \in BOOLEAN
  BY <1>1, <1>2 DEF StoreInv, RelayTypeOK, EditJob
<1>7. RelayTypeOK'
  BY <1>1, <1>3, <1>4, <1>5, <1>6 DEF StoreInv, RelayTypeOK, wireVars, ownerVars
<1>8. EditsAreKept'
  BY <1>1 DEF StoreInv, ReadsAreFresh, EditsAreKept
<1> QED BY <1>3, <1>5, <1>7, <1>8 DEF StoreInv, OneJob, ReadsAreFresh

LEMMA EndPushKeeps ==
    ASSUME StoreInv, NEW p \in pushes, EndPush(p)
    PROVE  StoreInv'
<1>1. /\ blob' = [p.read EXCEPT ![OwnerNote] = p.version]
      /\ written' = [written EXCEPT ![OwnerNote] = p.version]
      /\ jobs' = Crossed(jobs)
      /\ pushes' = Crossed(pushes \ {p})
      /\ clobbered' = (clobbered \/ p.crossed)
      /\ UNCHANGED <<record, wireVars, ownerVars, troubles>>
  BY DEF EndPush
<1>2. p \in Push
  BY DEF StoreInv, RelayTypeOK
<1>3. blob' \in Stored /\ written' \in Stored
  BY <1>1, <1>2 DEF StoreInv, RelayTypeOK, Push, Stored
<1>4. pushes' \subseteq Push /\ \A q \in pushes' : q.crossed
  BY <1>1, CrossedPushes DEF StoreInv, RelayTypeOK
<1>5. jobs' \subseteq EditJob \cup PromptJob /\ \A j \in jobs' : j.crossed
  BY <1>1, CrossedJobs DEF StoreInv, RelayTypeOK, SameJob
<1>6. clobbered' \in BOOLEAN
  BY <1>1, <1>2 DEF StoreInv, RelayTypeOK, Push
<1>7. RelayTypeOK'
  BY <1>1, <1>3, <1>4, <1>5, <1>6 DEF StoreInv, RelayTypeOK, wireVars, ownerVars
<1>8. OneJob'
  BY <1>1 DEF StoreInv, OneJob, Crossed
<1>9. EditsAreKept'
  BY <1>1 DEF StoreInv, ReadsAreFresh, EditsAreKept
<1> QED BY <1>4, <1>5, <1>7, <1>8, <1>9 DEF StoreInv, ReadsAreFresh

-----------------------------------------------------------------------------
\* The steps that begin or end a prompt keep StoreInv.
LEMMA BeginPushKeeps == ASSUME StoreInv, BeginPush PROVE StoreInv'
<1> DEFINE p == [version |-> troubles + 1, read |-> blob, crossed |-> FALSE]
<1>1. /\ troubles' = troubles + 1
      /\ pushes' = pushes \cup {p}
      /\ UNCHANGED <<storeVars, jobs, wireVars, ownerVars, relayGhosts>>
  BY DEF BeginPush
<1>2. p \in Push /\ p.read = blob
  BY DEF StoreInv, RelayTypeOK, Push
<1> HIDE DEF p
<1>3. RelayTypeOK'
  BY <1>1, <1>2 DEF StoreInv, RelayTypeOK, storeVars, wireVars, ownerVars, relayGhosts
<1> QED BY <1>1, <1>2, <1>3
        DEF StoreInv, OneJob, ReadsAreFresh, EditsAreKept, storeVars, relayGhosts, IsPrompt

LEMMA BeginPromptKeeps ==
    ASSUME StoreInv, NEW o \in Prompts, NEW asked \in SUBSET Notes, NEW text \in BOOLEAN,
           BeginPrompt(o, asked, text)
    PROVE  StoreInv'
<1> DEFINE j == [prompt |-> o, requests |-> RequestsOf(o, asked, text, blob), crossed |-> FALSE]
<1>1. /\ jobs = {} /\ jobs' = jobs \cup {j}
      /\ UNCHANGED <<storeVars, pushes, wireVars, ownerVars, troubles, relayGhosts>>
  BY DEF BeginPrompt, Idle
<1>2. RequestsOf(o, asked, text, blob) \subseteq Request
  BY DEF StoreInv, RelayTypeOK, RequestsOf, Request, Op, Stored
<1>3. j \in PromptJob
  BY <1>2 DEF PromptJob
<1> HIDE DEF j
<1>4. IsPrompt(j)
  BY <1>3, Kinds
<1>5. RelayTypeOK'
  BY <1>1, <1>3 DEF StoreInv, RelayTypeOK, storeVars, wireVars, ownerVars, relayGhosts
<1> QED BY <1>1, <1>4, <1>5
        DEF StoreInv, OneJob, ReadsAreFresh, EditsAreKept, storeVars, relayGhosts

LEMMA EndPromptKeeps ==
    ASSUME StoreInv, NEW j \in jobs, IsPrompt(j), EndPrompt(j)
    PROVE  StoreInv'
<1>1. /\ record' = [record EXCEPT !.requests = @ \cup j.requests,
                                  !.receipts = @ \cup {j.prompt}]
      /\ jobs' = jobs \ {j}
      /\ UNCHANGED <<blob, pushes, wireVars, ownerVars, troubles, relayGhosts>>
  BY DEF EndPrompt
<1>2. j.requests \subseteq Request /\ j.prompt \in Prompts
  BY Kinds DEF StoreInv, RelayTypeOK, PromptJob
<1>3. RelayTypeOK'
  BY <1>1, <1>2 DEF StoreInv, RelayTypeOK, wireVars, ownerVars, relayGhosts
<1> QED BY <1>1, <1>3
        DEF StoreInv, OneJob, ReadsAreFresh, EditsAreKept, relayGhosts

\* The steps of the connection and of the owner touch no change of the share.
LEMMA WireKeeps ==
    ASSUME StoreInv,
           \/ Deliver \/ Attach \/ DropOwner \/ NoticeClose
           \/ TakeRequests \/ EnterRequest \/ EnterFails \/ Acknowledge \/ Publish \/ TakeState
    PROVE  StoreInv'
<1> USE DEF storeVars, ownerVars, wireVars, relayGhosts
<1>1. UNCHANGED <<blob, jobs, pushes, written, clobbered>>
  BY DEF Deliver, Attach, DropOwner, NoticeClose, TakeRequests, EnterRequest, EnterFails,
         Acknowledge, Publish, TakeState
<1>2. RelayTypeOK
  BY DEF StoreInv
<1>3. SubmittedNotes \subseteq Notes
  BY <1>2 DEF RelayTypeOK, SubmittedNotes, Request
<1>4. ASSUME NEW a \in SUBSET Op, SendState(a) PROVE toGateway' \in Seq(State)
  <2>1. toGateway \in Seq(State)
    BY <1>2 DEF RelayTypeOK
  <2>2. [known |-> SubmittedNotes, accepted |-> a] \in State
    BY <1>3 DEF State
  <2>3. CASE linked
    BY <1>4, <2>1, <2>2, <2>3 DEF SendState
  <2>4. CASE ~linked
    BY <1>4, <2>1, <2>4 DEF SendState
  <2> QED BY <2>3, <2>4
<1>5. CASE Deliver \/ Attach \/ DropOwner \/ NoticeClose
  <2>1. toOwner \in Seq(SUBSET Request) /\ record.requests \in SUBSET Request
    BY <1>2 DEF RelayTypeOK
  <2>2. toOwner' \in Seq(SUBSET Request)
    <3>1. Append(toOwner, record.requests) \in Seq(SUBSET Request)
      BY <2>1
    <3>2. <<record.requests>> \in Seq(SUBSET Request) /\ <<>> \in Seq(SUBSET Request)
      BY <2>1
    <3>3. toOwner' \in {toOwner, Append(toOwner, record.requests), <<record.requests>>, <<>>}
      BY <1>5 DEF Deliver, Attach, DropOwner, NoticeClose
    <3> QED BY <2>1, <3>1, <3>2, <3>3
  <2>3. toGateway' \in Seq(State)
    <3>1. toGateway \in Seq(State) /\ <<>> \in Seq(State)
      BY <1>2 DEF RelayTypeOK
    <3>2. toGateway' \in {toGateway, <<>>}
      BY <1>5 DEF Deliver, Attach, DropOwner, NoticeClose
    <3> QED BY <3>1, <3>2
  <2>4. UNCHANGED <<record, serving, subs, troubles>>
           \/ (UNCHANGED <<record, serving, subs>> /\ troubles' = troubles + 1)
    BY <1>5 DEF Deliver, Attach, DropOwner, NoticeClose
  <2>5. RelayTypeOK'
    BY <1>1, <1>2, <2>2, <2>3, <2>4 DEF RelayTypeOK
  <2> QED BY <1>1, <2>5, ElsewhereKeeps
<1>6. CASE TakeRequests
  <2>1. Head(toOwner) \in SUBSET Request /\ Tail(toOwner) \in Seq(SUBSET Request)
    BY <1>2, <1>6 DEF RelayTypeOK, TakeRequests
  <2>2. RelayTypeOK'
    BY <1>2, <1>6, <2>1 DEF RelayTypeOK, TakeRequests
  <2> QED BY <1>1, <2>2, ElsewhereKeeps
<1>7. CASE EnterRequest
  <2>1. PICK r \in serving.todo :
           /\ Enter(r)
           /\ serving' = [serving EXCEPT !.todo = @ \ {r}, !.accepted = @ \cup {r.op}]
    BY <1>7 DEF EnterRequest
  <2>2. r \in Request /\ r.op \in Op
    BY <1>2, <2>1 DEF RelayTypeOK, Request
  <2>3. subs' \subseteq Request
    BY <1>2, <2>1, <2>2 DEF RelayTypeOK, Enter
  <2>4. RelayTypeOK'
    BY <1>2, <1>7, <2>1, <2>2, <2>3 DEF RelayTypeOK, EnterRequest
  <2> QED BY <1>1, <2>4, ElsewhereKeeps
<1>8. CASE EnterFails
  BY <1>1, <1>2, <1>8, ElsewhereKeeps DEF RelayTypeOK, EnterFails, NoFrame
<1>9. CASE Acknowledge
  <2>1. toGateway' \in Seq(State)
    BY <1>2, <1>4, <1>9 DEF RelayTypeOK, Acknowledge
  <2> QED BY <1>1, <1>2, <1>9, <2>1, ElsewhereKeeps DEF RelayTypeOK, Acknowledge, NoFrame
<1>10. CASE Publish
  <2>1. toGateway' \in Seq(State)
    BY <1>2, <1>4, <1>10 DEF RelayTypeOK, Publish
  <2> QED BY <1>1, <1>2, <1>10, <2>1, ElsewhereKeeps DEF RelayTypeOK, Publish
<1>11. CASE TakeState
  <2>1. Head(toGateway) \in State /\ Tail(toGateway) \in Seq(State)
    BY <1>2, <1>11 DEF RelayTypeOK, TakeState
  <2>2. RelayTypeOK'
    BY <1>2, <1>11, <2>1 DEF RelayTypeOK, TakeState, Taken, State
  <2> QED BY <1>1, <2>2, ElsewhereKeeps
<1> QED BY <1>1, <1>5, <1>6, <1>7, <1>8, <1>9, <1>10, <1>11, ElsewhereKeeps

LEMMA RestartKeeps == ASSUME StoreInv, RestartGateway PROVE StoreInv'
<1>1. RelayTypeOK'
  BY DEF RestartGateway, StoreInv, RelayTypeOK, storeVars, relayGhosts
<1> QED BY <1>1 DEF RestartGateway, StoreInv, OneJob, ReadsAreFresh, EditsAreKept,
                    storeVars, relayGhosts

LEMMA StoreStep == StoreInv /\ [RelayNext]_relayVars => StoreInv'
<1> SUFFICES ASSUME StoreInv, [RelayNext]_relayVars PROVE StoreInv'
  OBVIOUS
<1>1. ASSUME NEW n \in Notes, NEW v \in 0..MaxEdits, BeginEdit(n, v) PROVE StoreInv'
  BY <1>1, BeginEditKeeps
<1>2. ASSUME NEW p \in pushes, EndPush(p) PROVE StoreInv'
  BY <1>2, EndPushKeeps
<1>3. ASSUME NEW o \in Prompts, NEW asked \in SUBSET Notes, NEW text \in BOOLEAN,
             BeginPrompt(o, asked, text)
      PROVE  StoreInv'
  BY <1>3, BeginPromptKeeps
<1>4. CASE EndJob
  BY <1>4, EndPromptKeeps, EndEditKeeps DEF EndJob
<1>5. CASE UNCHANGED relayVars
  <2>1. RelayTypeOK'
    BY <1>5 DEF relayVars, StoreInv, RelayTypeOK
  <2> QED BY <1>5, <2>1, ElsewhereKeeps DEF relayVars
<1> QED BY <1>1, <1>2, <1>3, <1>4, <1>5, BeginPushKeeps, WireKeeps, RestartKeeps DEF RelayNext

(* Whatever overlaps, fails and is repeated, no edit that the gateway has  *)
(* acknowledged is lost or reverted, as long as no push crosses a write.   *)
THEOREM NoEditIsLost == RelaySpec => []EditsAreKept
<1>1. StoreInv => EditsAreKept
  BY DEF StoreInv
<1> QED BY <1>1, StoreInit, StoreStep, PTL DEF RelaySpec

-----------------------------------------------------------------------------
\* The way of a request: from the queue, through frames, to the owner's daemon.
Pieces(frames) == UNION {frames[i] : i \in DOMAIN frames}

Underway == record.requests \cup Pieces(toOwner) \cup serving.todo \cup subs

InJobs == UNION {j.requests : j \in {j \in jobs : IsPrompt(j)}}

NamedByNote == \A r \in Underway \cup InJobs : r.op[2] = r.note

\* Why a note that was sent stays as it was sent: it never stops being frozen.
UnderwayFrozen == \A r \in Underway : r.note # NoNote => Frozen(r.note)

\* What is being changed or asked is not frozen.
ChangesOpen ==
    \A j \in jobs :
        IF IsPrompt(j) THEN \A r \in j.requests : r.note # NoNote => ~Frozen(r.note)
                       ELSE ~Frozen(j.note)

OnePerNote ==
    \A r, s \in Underway \cup InJobs : r.note = s.note /\ r.note # NoNote => r = s

TextsShown ==
    clobbered \/ \A r \in Underway \cup InJobs : r.note # NoNote => blob[r.note] = r.text

\* The states that the gateway takes know more and more.
KnownGrows ==
    /\ record.known \subseteq SubmittedNotes
    /\ \A i \in DOMAIN toGateway :
          /\ record.known \subseteq toGateway[i].known
          /\ toGateway[i].known \subseteq SubmittedNotes
    /\ \A i, k \in DOMAIN toGateway : i <= k => toGateway[i].known \subseteq toGateway[k].known

\* An acknowledgement knows the submission of what it acknowledges.
AcceptedIsKnown ==
    /\ \A i \in DOMAIN toGateway, o \in Op :
          o \in toGateway[i].accepted /\ o[2] # NoNote => o[2] \in toGateway[i].known
    /\ \A o \in serving.accepted : o[2] # NoNote => o[2] \in SubmittedNotes

OpsOnce == \A r, s \in subs : r.op = s.op => r = s

PipeInv ==
    /\ NamedByNote
    /\ UnderwayFrozen
    /\ ChangesOpen
    /\ OnePerNote
    /\ TextsShown
    /\ KnownGrows
    /\ AcceptedIsKnown
    /\ OpsOnce

LEMMA FramePieces ==
    ASSUME NEW S, NEW q \in Seq(SUBSET S), NEW x \in SUBSET S
    PROVE  /\ Pieces(Append(q, x)) \subseteq Pieces(q) \cup x
           /\ Pieces(<<x>>) \subseteq x
           /\ Pieces(<<>>) = {}
           /\ q # <<>> => Pieces(Tail(q)) \subseteq Pieces(q) /\ Head(q) \subseteq Pieces(q)
<1>1. Pieces(Append(q, x)) \subseteq Pieces(q) \cup x
  BY DEF Pieces
<1>2. Pieces(<<x>>) \subseteq x
  BY DEF Pieces
<1>3. Pieces(<<>>) = {}
  BY DEF Pieces
<1>4. ASSUME q # <<>> PROVE Pieces(Tail(q)) \subseteq Pieces(q)
  <2>1. \A i \in DOMAIN Tail(q) : i + 1 \in DOMAIN q /\ Tail(q)[i] = q[i + 1]
    BY <1>4
  <2> QED BY <2>1 DEF Pieces
<1>5. ASSUME q # <<>> PROVE Head(q) \subseteq Pieces(q)
  <2>1. 1 \in DOMAIN q /\ Head(q) = q[1]
    BY <1>5
  <2> QED BY <2>1 DEF Pieces
<1> QED BY <1>1, <1>2, <1>3, <1>4, <1>5

-----------------------------------------------------------------------------
LEMMA PipeInit == RelayInit => PipeInv
<1> SUFFICES ASSUME RelayInit PROVE PipeInv
  OBVIOUS
<1>1. /\ record.requests = {} /\ record.known = {}
      /\ jobs = {} /\ subs = {} /\ toOwner = <<>> /\ toGateway = <<>>
      /\ serving.todo = {} /\ serving.accepted = {}
  BY DEF RelayInit, NoFrame
<1>2. Pieces(toOwner) = {}
  BY <1>1 DEF Pieces
<1>3. Underway = {} /\ InJobs = {}
  BY <1>1, <1>2 DEF Underway, InJobs
<1>4. KnownGrows /\ AcceptedIsKnown
  BY <1>1 DEF KnownGrows, AcceptedIsKnown
<1> QED BY <1>1, <1>3, <1>4
        DEF PipeInv, NamedByNote, UnderwayFrozen, ChangesOpen, OnePerNote, TextsShown, OpsOnce

\* Requests that move along, or are lost on the way, disturb nothing.
LEMMA MovesKeep ==
    ASSUME PipeInv, Underway' \subseteq Underway,
           UNCHANGED <<blob, record, jobs, clobbered>>,
           KnownGrows', AcceptedIsKnown', OpsOnce'
    PROVE  PipeInv'
  BY DEF PipeInv, NamedByNote, UnderwayFrozen, ChangesOpen, OnePerNote, TextsShown,
         InJobs, IsPrompt, Frozen, Requested

\* The gateway's frames and the owner's daemon are as they were.
LEMMA SameKnowledge ==
    ASSUME PipeInv, UNCHANGED <<record, toGateway, serving, subs>>
    PROVE  KnownGrows' /\ AcceptedIsKnown' /\ OpsOnce'
  BY DEF PipeInv, KnownGrows, AcceptedIsKnown, OpsOnce, SubmittedNotes

\* A state that is sent knows all that was entered.
LEMMA SentKnowledge ==
    ASSUME StoreInv, PipeInv, NEW a \in {{}, serving.accepted}, SendState(a),
           UNCHANGED <<record, subs>>, serving'.accepted \in {{}, serving.accepted}
    PROVE  KnownGrows' /\ AcceptedIsKnown' /\ OpsOnce'
<1> DEFINE f == [known |-> SubmittedNotes, accepted |-> a]
<1>1. toGateway \in Seq(State) /\ f.known = SubmittedNotes /\ f.accepted = a
  BY DEF StoreInv, RelayTypeOK
<1>2. CASE toGateway' = Append(toGateway, f)
  <2> HIDE DEF f
  <2>1. /\ DOMAIN toGateway = 1..Len(toGateway)
        /\ DOMAIN toGateway' = 1..(Len(toGateway) + 1)
        /\ Len(toGateway) \in Nat
        /\ \A i \in DOMAIN toGateway : toGateway'[i] = toGateway[i]
        /\ toGateway'[Len(toGateway) + 1] = f
    BY <1>1, <1>2
  <2>2. \A i \in DOMAIN toGateway' : i \in DOMAIN toGateway \/ toGateway'[i] = f
    BY <2>1
  <2>3. SubmittedNotes' = SubmittedNotes
    BY DEF SubmittedNotes
  <2>4. KnownGrows'
    <3>1. \A i \in DOMAIN toGateway' :
             /\ record.known \subseteq toGateway'[i].known
             /\ toGateway'[i].known \subseteq SubmittedNotes
      BY <1>1, <2>1, <2>2 DEF PipeInv, KnownGrows
    <3>2. ASSUME NEW i \in DOMAIN toGateway', NEW k \in DOMAIN toGateway', i <= k
          PROVE  toGateway'[i].known \subseteq toGateway'[k].known
      <4>1. CASE k \in DOMAIN toGateway
        BY <2>1, <3>2, <4>1 DEF PipeInv, KnownGrows
      <4>2. CASE toGateway'[k] = f
        BY <1>1, <3>1, <4>2
      <4> QED BY <2>2, <4>1, <4>2
    <3> QED BY <2>3, <3>1, <3>2 DEF PipeInv, KnownGrows
  <2>5. AcceptedIsKnown'
    <3>1. ASSUME NEW i \in DOMAIN toGateway', NEW o \in Op,
                 o \in toGateway'[i].accepted, o[2] # NoNote
          PROVE  o[2] \in toGateway'[i].known
      <4>1. CASE i \in DOMAIN toGateway
        BY <2>1, <3>1, <4>1 DEF PipeInv, AcceptedIsKnown
      <4>2. CASE toGateway'[i] = f
        BY <1>1, <3>1, <4>2 DEF PipeInv, AcceptedIsKnown
      <4> QED BY <2>2, <4>1, <4>2
    <3> QED BY <2>3, <3>1 DEF PipeInv, AcceptedIsKnown
  <2> QED BY <2>4, <2>5 DEF PipeInv, OpsOnce
<1>3. CASE toGateway' = toGateway
  BY <1>3 DEF PipeInv, KnownGrows, AcceptedIsKnown, OpsOnce, SubmittedNotes
<1> QED BY <1>2, <1>3 DEF SendState

-----------------------------------------------------------------------------
LEMMA EnterRequestKeeps == ASSUME StoreInv, PipeInv, EnterRequest PROVE PipeInv'
<1>1. PICK r \in serving.todo :
         /\ Enter(r)
         /\ serving' = [serving EXCEPT !.todo = @ \ {r}, !.accepted = @ \cup {r.op}]
  BY DEF EnterRequest
<1>2. UNCHANGED <<storeVars, jobs, wireVars, relayGhosts>>
  BY DEF EnterRequest
<1>3. /\ r \in Request /\ r \in Underway
      /\ subs \subseteq Request
      /\ serving'.todo = serving.todo \ {r}
      /\ serving'.accepted = serving.accepted \cup {r.op}
  BY <1>1 DEF StoreInv, RelayTypeOK, Underway
<1>4. subs \subseteq subs' /\ subs' \subseteq subs \cup {r}
  BY <1>1 DEF Enter
<1>5. Underway' \subseteq Underway
  BY <1>2, <1>3, <1>4 DEF Underway, storeVars, wireVars
<1>6. \E s \in subs' : s.op = r.op
  BY <1>1 DEF Enter
<1>7. r.op[2] # NoNote => r.op[2] \in SubmittedNotes'
  <2>1. PICK s \in subs' : s.op = r.op
    BY <1>6
  <2>2. s \in Underway /\ s.op[2] = s.note
    BY <1>3, <1>4, <2>1 DEF Underway, PipeInv, NamedByNote
  <2> QED BY <2>1, <2>2 DEF SubmittedNotes
<1>8. SubmittedNotes \subseteq SubmittedNotes'
  BY <1>4 DEF SubmittedNotes
<1>9. KnownGrows'
  BY <1>2, <1>8 DEF PipeInv, KnownGrows, storeVars, wireVars
<1>10. AcceptedIsKnown'
  BY <1>2, <1>3, <1>7, <1>8 DEF PipeInv, AcceptedIsKnown, storeVars, wireVars
<1>11. OpsOnce'
  BY <1>1 DEF Enter, PipeInv, OpsOnce
<1> QED BY <1>2, <1>5, <1>9, <1>10, <1>11, MovesKeep DEF storeVars, relayGhosts

\* The steps that only move, lose or send frames.
LEMMA FramesKeep ==
    ASSUME StoreInv, PipeInv,
           \/ Deliver \/ Attach \/ DropOwner \/ NoticeClose
           \/ TakeRequests \/ EnterFails \/ Acknowledge \/ Publish
    PROVE  PipeInv'
<1> USE DEF storeVars, ownerVars, wireVars, relayGhosts
<1>1. UNCHANGED <<blob, record, jobs, subs, clobbered>>
  BY DEF Deliver, Attach, DropOwner, NoticeClose, TakeRequests, EnterFails, Acknowledge, Publish
<1>2. toOwner \in Seq(SUBSET Request) /\ record.requests \in SUBSET Request
  BY DEF StoreInv, RelayTypeOK
<1>3. /\ Pieces(Append(toOwner, record.requests)) \subseteq Pieces(toOwner) \cup record.requests
      /\ Pieces(<<record.requests>>) \subseteq record.requests
      /\ Pieces(<<>>) = {}
      /\ toOwner # <<>> => /\ Pieces(Tail(toOwner)) \subseteq Pieces(toOwner)
                           /\ Head(toOwner) \subseteq Pieces(toOwner)
  BY <1>2, FramePieces
<1>4. CASE Deliver \/ Attach \/ DropOwner
  <2>1. toOwner' \in {toOwner, Append(toOwner, record.requests), <<record.requests>>, <<>>}
    BY <1>4 DEF Deliver, Attach, DropOwner
  <2>2. Pieces(toOwner') \subseteq Pieces(toOwner) \cup record.requests
    BY <1>3, <2>1
  <2>3. UNCHANGED <<toGateway, serving>>
    BY <1>4 DEF Deliver, Attach, DropOwner
  <2>4. Underway' \subseteq Underway
    BY <1>1, <2>2, <2>3 DEF Underway
  <2> QED BY <1>1, <2>3, <2>4, SameKnowledge, MovesKeep
<1>5. CASE NoticeClose
  <2>1. Underway' = Underway
    BY <1>1, <1>5 DEF NoticeClose, Underway
  <2>2. KnownGrows' /\ AcceptedIsKnown' /\ OpsOnce'
    BY <1>1, <1>5 DEF NoticeClose, PipeInv, KnownGrows, AcceptedIsKnown, OpsOnce, SubmittedNotes
  <2> QED BY <1>1, <2>1, <2>2, MovesKeep
<1>6. CASE TakeRequests
  <2>1. /\ serving'.todo = Head(toOwner) /\ serving'.accepted = {}
        /\ toOwner' = Tail(toOwner) /\ toOwner # <<>> /\ toGateway' = toGateway
    BY <1>6 DEF TakeRequests
  <2>2. Underway' \subseteq Underway
    BY <1>1, <1>3, <2>1 DEF Underway
  <2>3. KnownGrows' /\ AcceptedIsKnown' /\ OpsOnce'
    BY <1>1, <2>1 DEF PipeInv, KnownGrows, AcceptedIsKnown, OpsOnce, SubmittedNotes
  <2> QED BY <1>1, <2>2, <2>3, MovesKeep
<1>7. CASE EnterFails
  <2>1. /\ serving'.todo = {} /\ serving'.accepted = {}
        /\ toOwner' = <<>> /\ toGateway' = toGateway
    BY <1>7 DEF EnterFails, NoFrame
  <2>2. Underway' \subseteq Underway
    BY <1>1, <1>3, <2>1 DEF Underway
  <2>3. KnownGrows' /\ AcceptedIsKnown' /\ OpsOnce'
    BY <1>1, <2>1 DEF PipeInv, KnownGrows, AcceptedIsKnown, OpsOnce, SubmittedNotes
  <2> QED BY <1>1, <2>2, <2>3, MovesKeep
<1>8. CASE Acknowledge
  <2>1. /\ SendState(serving.accepted) /\ toOwner' = toOwner
        /\ serving'.todo = {} /\ serving'.accepted = {}
    BY <1>8 DEF Acknowledge, NoFrame
  <2>2. Underway' \subseteq Underway
    BY <1>1, <2>1 DEF Underway
  <2>3. KnownGrows' /\ AcceptedIsKnown' /\ OpsOnce'
    BY <1>1, <2>1, SentKnowledge
  <2> QED BY <1>1, <2>2, <2>3, MovesKeep
<1>9. CASE Publish
  <2>1. SendState({}) /\ UNCHANGED <<toOwner, serving>>
    BY <1>9 DEF Publish
  <2>2. Underway' = Underway
    BY <1>1, <2>1 DEF Underway
  <2>3. KnownGrows' /\ AcceptedIsKnown' /\ OpsOnce'
    BY <1>1, <2>1, SentKnowledge
  <2> QED BY <1>1, <2>2, <2>3, MovesKeep
<1> QED BY <1>4, <1>5, <1>6, <1>7, <1>8, <1>9

LEMMA TakeStateKeeps == ASSUME StoreInv, PipeInv, TakeState PROVE PipeInv'
<1> DEFINE f == Head(toGateway)
<1>1. /\ jobs = {} /\ toGateway # <<>>
      /\ record' = Taken(f) /\ toGateway' = Tail(toGateway)
      /\ UNCHANGED <<blob, jobs, toOwner, ownerVars, relayGhosts>>
  BY DEF TakeState, Idle
<1>2. /\ toGateway \in Seq(State)
      /\ 1 \in DOMAIN toGateway /\ f = toGateway[1]
      /\ \A i \in DOMAIN toGateway' : i + 1 \in DOMAIN toGateway /\ toGateway'[i] = toGateway[i + 1]
      /\ DOMAIN toGateway \subseteq Nat
      /\ DOMAIN toGateway' \subseteq Nat \ {0}
  BY <1>1 DEF StoreInv, RelayTypeOK
<1> HIDE DEF f
<1>3. /\ record'.known = f.known
      /\ record'.requests = {r \in record.requests : r.op \notin f.accepted}
  BY <1>1 DEF Taken, StoreInv, RelayTypeOK
<1>4. Underway' \subseteq Underway /\ InJobs' = InJobs
  BY <1>1, <1>3 DEF Underway, InJobs, ownerVars
<1>5. ASSUME NEW n \in Notes, Frozen(n) PROVE Frozen(n)'
  <2>1. CASE n \in record.known
    BY <1>2, <1>3, <2>1 DEF Frozen, PipeInv, KnownGrows
  <2>2. ASSUME NEW r \in record.requests, r.note = n PROVE Frozen(n)'
    <3>1. r \in Request /\ r.op \in Op /\ r.op[2] = n /\ n # NoNote
      BY <2>2, RelayAssumption DEF StoreInv, RelayTypeOK, Request, PipeInv, NamedByNote, Underway
    <3>2. CASE r.op \in f.accepted
      BY <1>2, <1>3, <3>1, <3>2 DEF PipeInv, AcceptedIsKnown, Frozen
    <3>3. CASE r.op \notin f.accepted
      BY <1>3, <2>2, <3>3 DEF Frozen, Requested
    <3> QED BY <3>2, <3>3
  <2> QED BY <1>5, <2>1, <2>2 DEF Frozen, Requested
<1>6. UnderwayFrozen'
  <2>1. \A r \in Underway : r.note \in Notes \cup {NoNote}
    <3>1. Pieces(toOwner) \subseteq Request
      BY DEF StoreInv, RelayTypeOK, Pieces
    <3> QED BY <3>1 DEF StoreInv, RelayTypeOK, Underway, Request
  <2> QED BY <1>4, <1>5, <2>1 DEF PipeInv, UnderwayFrozen
<1>7. KnownGrows'
  <2>1. SubmittedNotes' = SubmittedNotes
    BY <1>1 DEF SubmittedNotes, ownerVars
  <2>2. \A i \in DOMAIN toGateway' : f.known \subseteq toGateway'[i].known
    BY <1>2 DEF PipeInv, KnownGrows
  <2>3. f.known \subseteq SubmittedNotes
    BY <1>2 DEF PipeInv, KnownGrows
  <2>4. \A i \in DOMAIN toGateway' : toGateway'[i].known \subseteq SubmittedNotes
    BY <1>2 DEF PipeInv, KnownGrows
  <2>5. \A i, k \in DOMAIN toGateway' :
           i <= k => toGateway'[i].known \subseteq toGateway'[k].known
    BY <1>2 DEF PipeInv, KnownGrows
  <2> QED BY <1>3, <2>1, <2>2, <2>3, <2>4, <2>5 DEF KnownGrows
<1>8. AcceptedIsKnown'
  BY <1>1, <1>2 DEF PipeInv, AcceptedIsKnown, SubmittedNotes, ownerVars
<1> QED BY <1>1, <1>4, <1>6, <1>7, <1>8
        DEF PipeInv, NamedByNote, ChangesOpen, OnePerNote, TextsShown, OpsOnce, ownerVars,
            relayGhosts

LEMMA RestartLosesFrames == ASSUME StoreInv, PipeInv, RestartGateway PROVE PipeInv'
<1>1. /\ jobs' = {} /\ toOwner' = <<>> /\ toGateway' = <<>>
      /\ UNCHANGED <<blob, record, serving, subs, clobbered>>
  BY DEF RestartGateway, storeVars, relayGhosts
<1>2. Underway' \subseteq Underway
  BY <1>1 DEF Underway, Pieces
<1>3. InJobs' = {}
  BY <1>1 DEF InJobs
<1>4. KnownGrows' /\ AcceptedIsKnown' /\ OpsOnce'
  BY <1>1 DEF PipeInv, KnownGrows, AcceptedIsKnown, OpsOnce, SubmittedNotes
<1> QED BY <1>1, <1>2, <1>3, <1>4
        DEF PipeInv, NamedByNote, UnderwayFrozen, ChangesOpen, OnePerNote, TextsShown,
            Frozen, Requested

-----------------------------------------------------------------------------
LEMMA BeginEditLeaves ==
    ASSUME StoreInv, PipeInv, NEW n \in Notes, NEW v \in 0..MaxEdits, BeginEdit(n, v)
    PROVE  PipeInv'
<1> DEFINE j == [note |-> n, version |-> v, read |-> blob, crossed |-> FALSE]
<1>1. /\ jobs = {} /\ jobs' = {j} /\ ~Frozen(n)
      /\ UNCHANGED <<storeVars, wireVars, ownerVars, relayGhosts>>
  BY DEF BeginEdit, Idle
<1>2. ~IsPrompt(j) /\ j.note = n
  BY DEF IsPrompt
<1> HIDE DEF j
<1>3. Underway' = Underway /\ InJobs' = {}
  BY <1>1, <1>2 DEF Underway, InJobs, storeVars, wireVars, ownerVars
<1>4. ChangesOpen'
  BY <1>1, <1>2 DEF ChangesOpen, Frozen, Requested, storeVars
<1>5. KnownGrows' /\ AcceptedIsKnown' /\ OpsOnce'
  BY <1>1, SameKnowledge DEF storeVars, wireVars, ownerVars
<1> QED BY <1>1, <1>3, <1>4, <1>5
        DEF PipeInv, NamedByNote, UnderwayFrozen, OnePerNote, TextsShown, Frozen, Requested,
            storeVars, relayGhosts

LEMMA EndEditLeaves ==
    ASSUME StoreInv, PipeInv, NEW j \in jobs, ~IsPrompt(j), EndEdit(j)
    PROVE  PipeInv'
<1>1. /\ blob' = [j.read EXCEPT ![j.note] = j.version]
      /\ jobs' = jobs \ {j}
      /\ clobbered' = (clobbered \/ j.crossed)
      /\ UNCHANGED <<record, wireVars, ownerVars>>
  BY DEF EndEdit
<1>2. jobs' = {}
  BY <1>1 DEF StoreInv, OneJob
<1>3. Underway' = Underway /\ InJobs' = {}
  BY <1>1, <1>2 DEF Underway, InJobs, wireVars, ownerVars
<1>4. TextsShown'
  <2> SUFFICES ASSUME ~clobbered', NEW r \in Underway, r.note # NoNote
               PROVE  blob'[r.note] = r.text
    BY <1>3 DEF TextsShown
  <2>1. j.read = blob /\ ~clobbered
    BY <1>1 DEF StoreInv, ReadsAreFresh
  <2>2. r.note # j.note
    BY DEF PipeInv, UnderwayFrozen, ChangesOpen
  <2>3. blob[r.note] = r.text
    BY <2>1 DEF PipeInv, TextsShown
  <2>4. r.note \in DOMAIN blob
    <3>1. Pieces(toOwner) \subseteq Request
      BY DEF StoreInv, RelayTypeOK, Pieces
    <3>2. r \in Request
      BY <3>1 DEF StoreInv, RelayTypeOK, Underway
    <3> QED BY <3>2 DEF Request, StoreInv, RelayTypeOK, Stored
  <2> QED BY <1>1, <2>1, <2>2, <2>3, <2>4
<1>5. KnownGrows' /\ AcceptedIsKnown' /\ OpsOnce'
  BY <1>1, SameKnowledge DEF wireVars, ownerVars
<1> QED BY <1>1, <1>2, <1>3, <1>4, <1>5
        DEF PipeInv, NamedByNote, UnderwayFrozen, ChangesOpen, OnePerNote, Frozen, Requested

LEMMA EndPushLeaves ==
    ASSUME StoreInv, PipeInv, NEW p \in pushes, EndPush(p)
    PROVE  PipeInv'
<1>1. /\ blob' = [p.read EXCEPT ![OwnerNote] = p.version]
      /\ jobs' = Crossed(jobs)
      /\ clobbered' = (clobbered \/ p.crossed)
      /\ UNCHANGED <<record, wireVars, ownerVars>>
  BY DEF EndPush
<1>2. \A x \in jobs' : \E j \in jobs : SameJob(x, j)
  BY <1>1, CrossedJobs DEF StoreInv, RelayTypeOK
<1>3. Underway' = Underway
  BY <1>1 DEF Underway, wireVars, ownerVars
<1>4. InJobs' \subseteq InJobs
  BY <1>2 DEF InJobs, SameJob, IsPrompt
<1>5. ChangesOpen'
  <2> SUFFICES ASSUME NEW x \in jobs'
               PROVE  IF IsPrompt(x) THEN \A r \in x.requests : r.note # NoNote => ~Frozen(r.note)
                                     ELSE ~Frozen(x.note)
    BY <1>1 DEF ChangesOpen, Frozen, Requested, IsPrompt
  <2>1. PICK j \in jobs : SameJob(x, j)
    BY <1>2
  <2> QED BY <2>1 DEF SameJob, PipeInv, ChangesOpen
<1>6. TextsShown'
  <2> SUFFICES ASSUME ~clobbered', NEW r \in Underway \cup InJobs, r.note # NoNote
               PROVE  blob'[r.note] = r.text
    BY <1>3, <1>4 DEF TextsShown
  <2>1. p.read = blob /\ ~clobbered
    BY <1>1 DEF StoreInv, ReadsAreFresh
  <2>2. blob[r.note] = r.text
    BY <2>1 DEF PipeInv, TextsShown
  <2>3. r \in Request
    <3>1. Pieces(toOwner) \subseteq Request
      BY DEF StoreInv, RelayTypeOK, Pieces
    <3>2. InJobs \subseteq Request
      BY Kinds DEF StoreInv, RelayTypeOK, InJobs, PromptJob
    <3> QED BY <3>1, <3>2 DEF StoreInv, RelayTypeOK, Underway
  <2>4. r.note # OwnerNote /\ r.note \in DOMAIN blob
    BY <2>3, RelayAssumption DEF Request, StoreInv, RelayTypeOK, Stored
  <2> QED BY <1>1, <2>1, <2>2, <2>4
<1>7. KnownGrows' /\ AcceptedIsKnown' /\ OpsOnce'
  BY <1>1, SameKnowledge DEF wireVars, ownerVars
<1> QED BY <1>1, <1>3, <1>4, <1>5, <1>6, <1>7
        DEF PipeInv, NamedByNote, UnderwayFrozen, OnePerNote, Frozen, Requested

LEMMA BeginPromptLeaves ==
    ASSUME StoreInv, PipeInv, NEW o \in Prompts, NEW asked \in SUBSET Notes,
           NEW text \in BOOLEAN, BeginPrompt(o, asked, text)
    PROVE  PipeInv'
<1> DEFINE batch == RequestsOf(o, asked, text, blob)
           j     == [prompt |-> o, requests |-> batch, crossed |-> FALSE]
<1>1. /\ jobs = {} /\ jobs' = {j}
      /\ asked \subseteq PendingNotes(blob)
      /\ UNCHANGED <<storeVars, wireVars, ownerVars, relayGhosts>>
  BY DEF BeginPrompt, Idle
<1>2. IsPrompt(j) /\ j.requests = batch
  BY DEF IsPrompt
<1>3. \A r \in batch : /\ r.op[2] = r.note
                       /\ r.note # NoNote => /\ r.note \in asked
                                             /\ r.text = blob[r.note]
                                             /\ r = [op |-> <<o, r.note>>, note |-> r.note,
                                                    text |-> blob[r.note]]
  BY DEF RequestsOf
<1>4. \A r \in batch : r.note # NoNote => ~Frozen(r.note)
  BY <1>1, <1>3 DEF PendingNotes
<1> HIDE DEF j, batch
<1>5. Underway' = Underway /\ InJobs' = batch
  BY <1>1, <1>2 DEF Underway, InJobs, storeVars, wireVars, ownerVars
<1>6. ChangesOpen'
  BY <1>1, <1>2, <1>4 DEF ChangesOpen, Frozen, Requested, storeVars
<1>7. OnePerNote'
  <2> SUFFICES ASSUME NEW r \in Underway \cup batch, NEW s \in Underway \cup batch,
                      r.note = s.note, r.note # NoNote
               PROVE  r = s
    BY <1>5 DEF OnePerNote
  <2>1. CASE r \in batch /\ s \in batch
    BY <1>3, <2>1
  <2>2. CASE r \in Underway /\ s \in Underway
    BY <2>2 DEF PipeInv, OnePerNote
  <2>3. CASE (r \in Underway /\ s \in batch) \/ (r \in batch /\ s \in Underway)
    BY <1>4, <2>3 DEF PipeInv, UnderwayFrozen
  <2> QED BY <2>1, <2>2, <2>3
<1>8. KnownGrows' /\ AcceptedIsKnown' /\ OpsOnce'
  BY <1>1, SameKnowledge DEF storeVars, wireVars, ownerVars
<1>9. NamedByNote' /\ UnderwayFrozen' /\ TextsShown'
  BY <1>1, <1>3, <1>5
     DEF PipeInv, NamedByNote, UnderwayFrozen, TextsShown, Frozen, Requested, storeVars, relayGhosts
<1> QED BY <1>6, <1>7, <1>8, <1>9 DEF PipeInv

LEMMA EndPromptLeaves ==
    ASSUME StoreInv, PipeInv, NEW j \in jobs, IsPrompt(j), EndPrompt(j)
    PROVE  PipeInv'
<1>1. /\ record' = [record EXCEPT !.requests = @ \cup j.requests,
                                  !.receipts = @ \cup {j.prompt}]
      /\ jobs' = jobs \ {j}
      /\ UNCHANGED <<blob, wireVars, ownerVars, relayGhosts>>
  BY DEF EndPrompt
<1>2. /\ record'.requests = record.requests \cup j.requests
      /\ record'.known = record.known
  BY <1>1 DEF StoreInv, RelayTypeOK
<1>3. jobs' = {} /\ InJobs' = {} /\ j.requests \subseteq InJobs
  BY <1>1 DEF StoreInv, OneJob, InJobs
<1>4. Underway' = Underway \cup j.requests
  BY <1>1, <1>2 DEF Underway, wireVars, ownerVars
<1>5. UnderwayFrozen'
  BY <1>2, <1>4 DEF PipeInv, UnderwayFrozen, Frozen, Requested
<1>6. ChangesOpen'
  BY <1>3 DEF ChangesOpen
<1>7. KnownGrows' /\ AcceptedIsKnown' /\ OpsOnce'
  BY <1>1, <1>2 DEF PipeInv, KnownGrows, AcceptedIsKnown, OpsOnce, SubmittedNotes, wireVars, ownerVars
<1> QED BY <1>1, <1>3, <1>4, <1>5, <1>6, <1>7
        DEF PipeInv, NamedByNote, OnePerNote, TextsShown, relayGhosts

-----------------------------------------------------------------------------
LEMMA PipeStep == StoreInv /\ PipeInv /\ [RelayNext]_relayVars => PipeInv'
<1> SUFFICES ASSUME StoreInv, PipeInv, [RelayNext]_relayVars PROVE PipeInv'
  OBVIOUS
<1>1. ASSUME NEW n \in Notes, NEW v \in 0..MaxEdits, BeginEdit(n, v) PROVE PipeInv'
  BY <1>1, BeginEditLeaves
<1>2. ASSUME NEW p \in pushes, EndPush(p) PROVE PipeInv'
  BY <1>2, EndPushLeaves
<1>3. ASSUME NEW o \in Prompts, NEW asked \in SUBSET Notes, NEW text \in BOOLEAN,
             BeginPrompt(o, asked, text)
      PROVE  PipeInv'
  BY <1>3, BeginPromptLeaves
<1>4. CASE EndJob
  BY <1>4, EndPromptLeaves, EndEditLeaves DEF EndJob
<1>5. CASE BeginPush \/ UNCHANGED relayVars
  <2>1. UNCHANGED <<blob, record, jobs, toOwner, toGateway, serving, subs, clobbered>>
    BY <1>5 DEF BeginPush, relayVars, storeVars, wireVars, ownerVars, relayGhosts
  <2>2. Underway' = Underway
    BY <2>1 DEF Underway
  <2> QED BY <2>1, <2>2, SameKnowledge, MovesKeep
<1> QED BY <1>1, <1>2, <1>3, <1>4, <1>5, FramesKeep, EnterRequestKeeps, TakeStateKeeps,
           RestartLosesFrames DEF RelayNext

(* However often a request is sent again, after lost connections, lost     *)
(* acknowledgements and restarts of the gateway, it enters the owner's     *)
(* agent once, and so does the note it is about.                           *)
THEOREM RequestsEnterOnce == RelaySpec => []EachEntersOnce
<1>1. PipeInv => EachEntersOnce
  BY DEF PipeInv, OpsOnce, OnePerNote, EachEntersOnce, Underway
<1> QED BY <1>1, StoreInit, StoreStep, PipeInit, PipeStep, PTL DEF RelaySpec

(* A note that the agent was asked about stays in the share as the agent   *)
(* was asked, as long as no push crosses a write.                          *)
THEOREM AcceptedInputStays == RelaySpec => []AskedIsShown
<1>1. PipeInv => AskedIsShown
  BY DEF PipeInv, TextsShown, AskedIsShown, Underway
<1> QED BY <1>1, StoreInit, StoreStep, PipeInit, PipeStep, PTL DEF RelaySpec
=============================================================================
