------------------------- MODULE ThreadAgent_proofs --------------------------
(***************************************************************************)
(* Theorems about ThreadAgent, for any number of connections, operations,  *)
(* inputs, attempts and faults: its types, one turn at a time, the queue   *)
(* that is watched, connections that are not lost, the order of turns and  *)
(* outcomes that stay.                                                     *)
(*                                                                         *)
(* A handler is a composition of operators on the manager's record.  Each  *)
(* operator gets a lemma that says which fields it leaves (...Fields) and  *)
(* one that says what it preserves (...Sound), in terms of the predicates  *)
(* below, over the record it takes and the record it returns; the lemma of *)
(* an action (...Step) composes them.                                      *)
(***************************************************************************)
EXTENDS ThreadAgent, SequenceTheorems, WellFoundedInduction, TLAPS

-----------------------------------------------------------------------------
(* The inductive invariant. *)

TurningIn(x, s) == x.run[s].at \in {"starting", "ready", "prompting"}

(* What holds of the manager's memory after every operator a handler is    *)
(* composed of: one connection at most is in use and one is being closed,  *)
(* one input at most has a turn.                                           *)
Core(x) ==
    /\ x \in Manager
    /\ Len(x.subs) <= MaxInputs
    /\ x.retiring <=> x.closing # NoConnection
    /\ x.retiring => x.active = NoConnection
    /\ \A c \in Connections : x.state[c] = "starting" => c = x.active
    /\ \A c \in Connections : x.state[c] # "closed" => c \in {x.active, x.closing}
    /\ \A s \in Inputs : x.run[s].at = "none" => x.run[s].conn = NoConnection
    /\ \A s \in Inputs : x.run[s].at = "failing" => x.retiring
    /\ \A r, s \in Inputs : TurningIn(x, r) /\ TurningIn(x, s) => r = s

(* The input that has its turn has it on the connection in use, and waits  *)
(* for it to start exactly as long as it starts.                           *)
Seats(x) ==
    \A s \in Inputs : TurningIn(x, s) =>
        /\ x.active # NoConnection
        /\ x.run[s].conn = x.active
        /\ x.run[s].at = "starting" <=> x.state[x.active] = "starting"

(* A configure() that waits has something to wait for. *)
Joins(x) ==
    /\ x.configuring = "parked" => x.retiring
    /\ x.configuring = "starting" => \E c \in Connections : x.state[c] = "starting"

(* The record says which input has its turn, and the phase that there is one. *)
Books(x) ==
    \A s \in Inputs : /\ TurningIn(x, s) <=> s \in Running(x)
                      /\ TurningIn(x, s) => Busy(x)

(* A queue that is not worked on waits for a connection to be closed. *)
Tended(x) == ~Busy(x) /\ Queued(x) # {} => x.retiring

(* ... or for one that starts, or stalls. *)
Watched(x, stalls) ==
    ~Busy(x) /\ Queued(x) # {} =>
        x.retiring \/ stalls \/ (x.configuring = "starting" /\ ~x.choice)

(* An operation that has an outcome has inputs; one that is completed has  *)
(* answered inputs only.                                                   *)
Receipted(x) ==
    \A o \in Operations :
        LET r == x.receipts[o] IN
        /\ r.batch \subseteq DOMAIN x.subs
        /\ r.batch = {} => r.outcome = "open"
        /\ r.outcome = "completed" => \A s \in r.batch : x.subs[s].status = "completed"

(* An outcome once saved is the manager's outcome. *)
Kept(x, r) ==
    \A o \in Operations : r.receipts[o].outcome # "open" => x.receipts[o] = r.receipts[o]

AgentInv ==
    /\ TypeOK
    /\ Len(file.subs) <= MaxInputs
    /\ Core(m) /\ Seats(m) /\ Joins(m)
    /\ Receipted(file)
    /\ up /\ removal = "no" =>
          Books(m) /\ Watched(m, stalled) /\ Receipted(m) /\ Kept(m, file)

(* What a handler does to the inputs once it has taken its request: it      *)
(* queues none, and gives turns in their order.                            *)
Follows(x, y) ==
    /\ y.receipts = x.receipts
    /\ Len(y.subs) = Len(x.subs)
    /\ Queued(y) \subseteq Queued(x)
    /\ \A s \in Running(y) : s \in Running(x) \/ \A r \in Queued(y) : s < r

Keeps(x, y) ==
    \A s \in DOMAIN x.subs : x.subs[s].status = "completed" => y.subs[s].status = "completed"

-----------------------------------------------------------------------------
(* Sequences and least elements. *)

\* A nonempty set of naturals has a smallest element.
LEMMA LeastExists ==
  ASSUME NEW T \in SUBSET Nat, T # {}
  PROVE  \E n \in T : \A k \in T : n <= k
  <1> DEFINE R == OpToRel(<, Nat)
  <1>1. \A n, k \in Nat : ~ (<<k, n>> \in R) => n <= k
    BY DEF OpToRel
  <1>2. IsWellFoundedOn(R, Nat)
    BY NatLessThanWellFounded
  <1> HIDE DEF R
  <1>3. PICK n \in T : \A k \in T : ~ (<<k, n>> \in R)
    BY <1>2, WFMin
  <1>4. QED
    BY <1>1, <1>3

\* First picks the smallest member of a set of inputs.
LEMMA FirstIsLeast ==
  ASSUME NEW T \in SUBSET Nat, T # {}
  PROVE  First(T) \in T /\ \A k \in T : First(T) <= k
  BY LeastExists DEF First

MarkedAs(q, s, v) == [q EXCEPT ![s].status = v]

\* Setting the status of one input leaves the others, and their number.
LEMMA Marked ==
  ASSUME NEW q \in Seq(Submission), NEW s, NEW v \in Statuses,
         NEW p, p = MarkedAs(q, s, v)
  PROVE  /\ p \in Seq(Submission)
         /\ Len(p) = Len(q)
         /\ DOMAIN p = DOMAIN q
         /\ \A r \in DOMAIN q : /\ p[r].status = IF r = s THEN v ELSE q[r].status
                                /\ p[r].cancelled = q[r].cancelled
  <1>1. CASE s \in DOMAIN q
    <2>1. s \in 1..Len(q) /\ q[s] \in Submission
      BY <1>1
    <2>2. PICK e : e = [q[s] EXCEPT !.status = v]
      OBVIOUS
    <2>3. e \in Submission /\ e.status = v /\ e.cancelled = q[s].cancelled
      BY <2>1, <2>2 DEF Submission
    <2>4. p = [q EXCEPT ![s] = e]
      BY <2>2 DEF MarkedAs
    <2>5. p \in Seq(Submission) /\ Len(p) = Len(q)
      BY <2>1, <2>3, <2>4, ExceptSeq
    <2>6. QED
      BY <2>1, <2>3, <2>4, <2>5
  <1>2. CASE s \notin DOMAIN q
    <2>1. p = q
      BY <1>2 DEF MarkedAs
    <2>2. QED
      BY <1>2, <2>1
  <1>3. QED
    BY <1>1, <1>2

-----------------------------------------------------------------------------
(* The fields of the records the operators return. *)

\* y is x but for the seat of s.
Reseated(x, y, s, at, c) ==
    /\ y \in Manager
    /\ y.phase = x.phase /\ y.subs = x.subs /\ y.receipts = x.receipts
    /\ y.active = x.active /\ y.turn = x.turn /\ y.state = x.state
    /\ y.retiring = x.retiring /\ y.closing = x.closing
    /\ y.run = [x.run EXCEPT ![s] = [at |-> at, conn |-> c]]
    /\ y.configuring = x.configuring /\ y.choice = x.choice

\* A run takes its seat.
LEMMA Seated ==
  ASSUME NEW x \in Manager, NEW s \in Inputs,
         NEW at \in Stages, NEW c \in SomeConnection,
         NEW y, y = [x EXCEPT !.run[s] = [at |-> at, conn |-> c]]
  PROVE  Reseated(x, y, s, at, c)
  <1>1. [at |-> at, conn |-> c] \in [at : Stages, conn : SomeConnection]
    OBVIOUS
  <1>2. [x.run EXCEPT ![s] = [at |-> at, conn |-> c]]
            \in [Inputs -> [at : Stages, conn : SomeConnection]]
    BY <1>1 DEF Manager
  <1>3. QED
    BY <1>2 DEF Manager, Reseated

\* startConnection registers the connection it starts.
LEMMA OpenedFields ==
  ASSUME NEW x \in Manager, NEW c \in Connections, NEW y, y = Opened(x, c)
  PROVE  /\ y \in Manager
         /\ y.phase = x.phase /\ y.subs = x.subs /\ y.receipts = x.receipts
         /\ y.active = c /\ y.state = [x.state EXCEPT ![c] = "starting"]
         /\ y.retiring = x.retiring /\ y.closing = x.closing
         /\ y.run = x.run
         /\ y.configuring = x.configuring /\ y.choice = x.choice
  BY DEF Opened, Manager, Turns, SomeConnection

\* stepAgentTurn answers with a turn.
LEMMA TurnTypes ==
  ASSUME NEW t \in Turns
  PROVE  /\ Ready(t) \in Turns
         /\ Started(t) \in Turns
         /\ Stopped(t) \in Turns
  BY DEF Turns, Ready, Started, Stopped

\* y is x but for the state of a turn.
Turned(x, y) ==
    /\ y \in Manager
    /\ y.phase = x.phase /\ y.subs = x.subs /\ y.receipts = x.receipts
    /\ y.active = x.active /\ y.state = x.state
    /\ y.retiring = x.retiring /\ y.closing = x.closing
    /\ y.run = x.run
    /\ y.configuring = x.configuring /\ y.choice = x.choice

\* A turn is set on one connection.
LEMMA TurnSet ==
  ASSUME NEW x \in Manager, NEW c \in Connections, NEW t \in Turns,
         NEW y, y = [x EXCEPT !.turn[c] = t]
  PROVE  Turned(x, y) /\ y.turn = [x.turn EXCEPT ![c] = t]
  BY DEF Manager, Turned

\* ... by a connection that is used again,
LEMMA NextTurnTurns ==
  ASSUME NEW x \in Manager, NEW c \in Connections
  PROVE  Turned(x, NextTurn(x, c))
  <1>1. x.turn[c] \in Turns
    BY DEF Manager
  <1>2. Ready(Started(x.turn[c])) \in Turns
    BY <1>1, TurnTypes
  <1>3. NextTurn(x, c) = [x EXCEPT !.turn[c] = Ready(Started(x.turn[c]))]
    BY DEF NextTurn
  <1>4. QED
    BY <1>2, <1>3, TurnSet

\* ... and by a turn that ends.
LEMMA FinishedTurns ==
  ASSUME NEW x \in Manager, NEW c \in Connections
  PROVE  Turned(x, Finished(x, c))
  <1>1. "idle" \in Turns
    BY DEF Turns
  <1>2. QED
    BY <1>1, TurnSet DEF Finished

\* A change of turn alone changes nothing the invariant speaks of.
LEMMA TurnedSound ==
  ASSUME NEW x, NEW y, Turned(x, y)
  PROVE  /\ Core(x) => Core(y)
         /\ Seats(x) => Seats(y)
         /\ Joins(x) => Joins(y)
         /\ Books(x) => Books(y)
         /\ Tended(x) => Tended(y)
         /\ Queued(y) = Queued(x) /\ Running(y) = Running(x) /\ Busy(y) = Busy(x)
         /\ Follows(x, y)
         /\ Keeps(x, y)
  BY DEF Turned, Core, Seats, Joins, Books, Tended, Queued, Running, Busy, Follows, Keeps,
         TurningIn

\* The statuses of the inputs, read off the sets of them.
LEMMA StatusSets ==
  ASSUME NEW x, NEW s \in DOMAIN x.subs
  PROVE  /\ s \in Queued(x) <=> x.subs[s].status = "queued"
         /\ s \in Running(x) <=> x.subs[s].status = "running"
  BY DEF Queued, Running

\* Inputs are the numbers of submissions.
LEMMA InputSets ==
  ASSUME NEW x, Core(x)
  PROVE  /\ DOMAIN x.subs = 1..Len(x.subs)
         /\ DOMAIN x.subs \subseteq Inputs
         /\ Queued(x) \subseteq Inputs /\ Running(x) \subseteq Inputs
         /\ Inputs \subseteq Nat
  <1>1. x.subs \in Seq(Submission) /\ Len(x.subs) <= MaxInputs
    BY DEF Core, Manager
  <1>2. Len(x.subs) \in Nat /\ MaxInputs \in Nat
    BY <1>1, AgentAssumption
  <1>3. QED
    BY <1>1, <1>2 DEF Inputs, Queued, Running

Taken(x, s) == [x EXCEPT !.phase = "running", !.subs[s].status = "running"]

\* drain() marks the first queued input as the one that runs.
LEMMA TakenFields ==
  ASSUME NEW x, Core(x), NEW s \in Queued(x),
         \A r \in Queued(x) : s <= r,
         NEW y, y = Taken(x, s)
  PROVE  /\ y \in Manager
         /\ y.phase = "running" /\ y.receipts = x.receipts
         /\ y.active = x.active /\ y.turn = x.turn /\ y.state = x.state
         /\ y.retiring = x.retiring /\ y.closing = x.closing
         /\ y.run = x.run
         /\ y.configuring = x.configuring /\ y.choice = x.choice
         /\ Len(y.subs) = Len(x.subs)
         /\ Queued(y) = Queued(x) \ {s}
         /\ Running(y) = Running(x) \cup {s}
         /\ Follows(x, y)
         /\ Keeps(x, y)
  <1>1. x \in Manager /\ x.subs \in Seq(Submission) /\ s \in DOMAIN x.subs /\ s \in Nat
    BY InputSets DEF Core, Manager, Queued
  <1>2. PICK p : p = MarkedAs(x.subs, s, "running")
    OBVIOUS
  <1>3. /\ p \in Seq(Submission) /\ Len(p) = Len(x.subs) /\ DOMAIN p = DOMAIN x.subs
        /\ \A r \in DOMAIN x.subs : p[r].status = IF r = s THEN "running" ELSE x.subs[r].status
    BY <1>1, <1>2, Marked DEF Statuses
  <1>4. y = [x EXCEPT !.phase = "running", !.subs = p]
    BY <1>2 DEF MarkedAs, Taken
  <1>5. /\ y \in Manager /\ y.subs = p
        /\ y.phase = "running" /\ y.receipts = x.receipts
        /\ y.active = x.active /\ y.turn = x.turn /\ y.state = x.state
        /\ y.retiring = x.retiring /\ y.closing = x.closing
        /\ y.run = x.run
        /\ y.configuring = x.configuring /\ y.choice = x.choice
    BY <1>1, <1>3, <1>4 DEF Manager, Phases
  <1>6. Queued(y) = Queued(x) \ {s} /\ Running(y) = Running(x) \cup {s}
    BY <1>1, <1>3, <1>5 DEF Queued, Running
  <1>7. \A r \in Queued(y) : s < r
    BY <1>1, <1>6, InputSets
  <1>8. Follows(x, y)
    BY <1>3, <1>5, <1>6, <1>7 DEF Follows
  <1>9. Keeps(x, y)
    BY <1>1, <1>3, <1>5 DEF Keeps, Queued
  <1>10. QED
    BY <1>3, <1>5, <1>6, <1>8, <1>9

\* A manager without turns and closures is at rest: a new process can be started.
LEMMA UnusedExists ==
  ASSUME NEW x, Core(x), ~x.retiring, x.active = NoConnection,
         \A r \in Inputs : ~TurningIn(x, r)
  PROVE  /\ Unused(x) # {}
         /\ \A c \in Connections : x.state[c] = "closed"
  <1>1. x.closing = NoConnection /\ \A c \in Connections : x.state[c] = "closed"
    BY AgentAssumption DEF Core
  <1>2. \A r \in Inputs : x.run[r].at = "none" /\ x.run[r].conn = NoConnection
    <2>1. \A r \in Inputs : x.run[r].at \in Stages
      BY DEF Core, Manager
    <2>2. QED
      BY <2>1 DEF Core, TurningIn, Stages
  <1>3. \A c \in Connections : Waiting(x, c, Stages) = {}
    BY <1>2, AgentAssumption DEF Waiting
  <1>4. QED
    BY <1>1, <1>3, AgentAssumption DEF Unused

\* What every branch of connect() leaves alone.
Connects(x, y) ==
    /\ y \in Manager
    /\ y.phase = x.phase /\ y.subs = x.subs /\ y.receipts = x.receipts
    /\ y.retiring = x.retiring /\ y.closing = x.closing
    /\ y.choice = x.choice
    /\ x.active # NoConnection => y.active = x.active /\ y.state = x.state
    /\ \A c \in Connections : x.state[c] = "starting" => y.state[c] = "starting"

\* The run of s has the connection in use, or waits for it to start.
Boards(x, y, s) ==
    /\ y.active \in Connections
    /\ \A c \in Connections : y.state[c] = "starting" => c = y.active
    /\ \A c \in Connections : y.state[c] # "closed" => c = y.active
    /\ \E at \in {"starting", "ready"} :
          /\ y.run = [x.run EXCEPT ![s] = [at |-> at, conn |-> y.active]]
          /\ at = "starting" <=> y.state[y.active] = "starting"

(* connect() by a run: it waits for the connection in use exactly when that *)
(* one starts.                                                             *)
LEMMA ConnectedFields ==
  ASSUME NEW x, Core(x), ~x.retiring, \A r \in Inputs : ~TurningIn(x, r),
         NEW s \in Inputs, NEW y, y = Connected(x, s)
  PROVE  /\ Connects(x, y)
         /\ y.configuring = x.configuring
         /\ Boards(x, y, s)
  <1>1. /\ x \in Manager /\ x.closing = NoConnection
        /\ x.state \in [Connections -> {"starting", "open", "broken", "closed"}]
        /\ x.active \in SomeConnection
    BY DEF Core, Manager
  <1>2. /\ \A c \in Connections : x.state[c] = "starting" => c = x.active
        /\ \A c \in Connections : x.state[c] # "closed" => c = x.active
    BY <1>1, AgentAssumption DEF Core
  <1>3. CASE Starting(x) # {}
    <2>1. PICK c \in Starting(x) : c = (CHOOSE d \in Starting(x) : TRUE)
      BY <1>3
    <2>2. c \in Connections /\ x.state[c] = "starting" /\ c = x.active
      BY <2>1, <1>2 DEF Starting
    <2>3. y = [x EXCEPT !.run[s] = [at |-> "starting", conn |-> c]]
      BY <1>3, <2>1 DEF Connected
    <2>4. QED
      <3>1. Reseated(x, y, s, "starting", c)
        BY <1>1, <2>2, <2>3, Seated DEF Stages, SomeConnection
      <3>2. QED
        BY <1>1, <1>2, <2>2, <3>1 DEF Connects, Boards, Reseated
  <1>4. CASE Starting(x) = {} /\ x.active # NoConnection
    <2>1. PICK z : z = NextTurn(x, x.active)
      OBVIOUS
    <2>2. Turned(x, z) /\ x.active \in Connections
      BY <1>1, <1>4, <2>1, NextTurnTurns DEF SomeConnection
    <2>3. y = [z EXCEPT !.run[s] = [at |-> "ready", conn |-> x.active]]
      BY <1>4, <2>1 DEF Connected
    <2>4. Reseated(z, y, s, "ready", x.active)
      BY <2>2, <2>3, Seated DEF Turned, Stages, SomeConnection
    <2>5. x.state[x.active] # "starting"
      BY <1>4, <2>2 DEF Starting
    <2>6. QED
      BY <1>1, <1>2, <2>2, <2>4, <2>5 DEF Turned, Connects, Boards, Reseated
  <1>5. CASE Starting(x) = {} /\ x.active = NoConnection
    <2>1. PICK c \in Unused(x) : c = (CHOOSE d \in Unused(x) : TRUE)
      BY <1>5, UnusedExists
    <2>2. c \in Connections
      BY <2>1 DEF Unused
    <2>3. PICK z : z = Opened(x, c)
      OBVIOUS
    <2>4. y = [z EXCEPT !.run[s] = [at |-> "starting", conn |-> c]]
      BY <1>5, <2>1, <2>3 DEF Connected
    <2>5. /\ z \in Manager
          /\ z.phase = x.phase /\ z.subs = x.subs /\ z.receipts = x.receipts
          /\ z.active = c /\ z.state = [x.state EXCEPT ![c] = "starting"]
          /\ z.retiring = x.retiring /\ z.closing = x.closing
          /\ z.run = x.run
          /\ z.configuring = x.configuring /\ z.choice = x.choice
      BY <1>1, <2>2, <2>3, OpenedFields
    <2>6. Reseated(z, y, s, "starting", c)
      BY <2>2, <2>4, <2>5, Seated DEF Stages, SomeConnection
    <2>7. \A d \in Connections : x.state[d] = "closed"
      BY <1>5, UnusedExists
    <2>8. QED
      BY <1>1, <1>5, <2>2, <2>5, <2>6, <2>7 DEF Connects, Boards, Reseated
  <1>6. QED
    BY <1>3, <1>4, <1>5

\* connect() gives the turn to the input that was taken.
LEMMA ConnectedSound ==
  ASSUME NEW x, Core(x), ~x.retiring, \A r \in Inputs : ~TurningIn(x, r),
         NEW s \in Inputs, NEW y, y = Connected(x, s)
  PROVE  /\ Core(y) /\ Seats(y)
         /\ Joins(x) => Joins(y)
         /\ Connects(x, y)
         /\ y.configuring = x.configuring
         /\ \A r \in Inputs : TurningIn(y, r) <=> r = s
  <1>1. /\ Connects(x, y)
        /\ y.configuring = x.configuring
        /\ Boards(x, y, s)
    BY ConnectedFields
  <1>2. PICK at \in {"starting", "ready"} :
            /\ y.run = [x.run EXCEPT ![s] = [at |-> at, conn |-> y.active]]
            /\ at = "starting" <=> y.state[y.active] = "starting"
    BY <1>1 DEF Boards
  <1>3. \A r \in Inputs : y.run[r] = IF r = s THEN [at |-> at, conn |-> y.active] ELSE x.run[r]
    BY <1>2 DEF Core, Manager
  <1>4. \A r \in Inputs : TurningIn(y, r) <=> r = s
    BY <1>3 DEF TurningIn
  <1>5. Core(y)
    BY <1>1, <1>3, <1>4 DEF Core, Connects, Boards
  <1>6. Seats(y)
    BY <1>1, <1>2, <1>3, <1>4, AgentAssumption DEF Seats, Boards
  <1>7. Joins(x) => Joins(y)
    BY <1>1 DEF Joins, Connects
  <1>8. QED
    BY <1>1, <1>4, <1>5, <1>6, <1>7

-----------------------------------------------------------------------------
(* drain() and what ends in it. *)

\* What handlers do adds up.
LEMMA FollowsTransitive ==
  ASSUME NEW x, NEW y, NEW z, Follows(x, y), Follows(y, z)
  PROVE  Follows(x, z)
  BY DEF Follows

\* ... answered inputs included.
LEMMA KeepsTransitive ==
  ASSUME NEW x, NEW y, NEW z, Keeps(x, y), Keeps(y, z), Follows(x, y),
         Core(x), Core(y)
  PROVE  Keeps(x, z)
  <1>1. DOMAIN x.subs = DOMAIN y.subs
    BY InputSets DEF Follows
  <1>2. QED
    BY <1>1 DEF Keeps

\* Doing nothing follows.
LEMMA Reflexive ==
  ASSUME NEW x
  PROVE  Follows(x, x) /\ Keeps(x, x)
  BY DEF Follows, Keeps

(* What a handler may rely on when it goes on with x, and hand on as y.    *)
Good(x) ==
    /\ Core(x) /\ Seats(x)
    /\ removal = "no" => Books(x)

(* Operators that drain neither retire a connection nor close one.         *)
Drains(x, y) ==
    /\ Follows(x, y) /\ Keeps(x, y)
    /\ y.retiring = x.retiring /\ y.closing = x.closing
    /\ x.active # NoConnection => y.active = x.active /\ y.state = x.state
    /\ \A c \in Connections : x.state[c] = "starting" => y.state[c] = "starting"

\* drain() keeps the invariant and leaves no idle queue.
LEMMA DrainedSound ==
  ASSUME NEW x, Good(x), NEW y, y = Drained(x)
  PROVE  /\ Good(y) /\ Drains(x, y)
         /\ y.configuring = x.configuring /\ y.choice = x.choice
         /\ Joins(x) => Joins(y)
         /\ removal = "no" => Tended(y)
         /\ Busy(x) => y = x
  <1>1. CASE Busy(x) \/ x.retiring \/ removal # "no" \/ Queued(x) = {}
    <2>1. y = x
      BY <1>1 DEF Drained
    <2>2. removal = "no" => Tended(x)
      BY <1>1 DEF Tended
    <2>3. QED
      BY <2>1, <2>2, Reflexive DEF Drains
  <1>2. CASE ~Busy(x) /\ ~x.retiring /\ removal = "no" /\ Queued(x) # {}
    <2>1. PICK s : s = First(Queued(x))
      OBVIOUS
    <2>2. /\ s \in Queued(x) /\ \A r \in Queued(x) : s <= r
          /\ Queued(x) \subseteq Inputs /\ Core(x) /\ Books(x)
      <3>1. Queued(x) \in SUBSET Nat /\ Queued(x) \subseteq Inputs
        BY InputSets DEF Good
      <3>2. QED
        BY <1>2, <2>1, <3>1, FirstIsLeast DEF Good
    <2>3. PICK z : z = Taken(x, s)
      OBVIOUS
    <2>4. y = Connected(z, s)
      BY <1>2, <2>1, <2>3 DEF Drained, Taken
    <2>5. /\ z \in Manager
          /\ z.phase = "running" /\ z.receipts = x.receipts
          /\ z.active = x.active /\ z.turn = x.turn /\ z.state = x.state
          /\ z.retiring = x.retiring /\ z.closing = x.closing
          /\ z.run = x.run
          /\ z.configuring = x.configuring /\ z.choice = x.choice
          /\ Len(z.subs) = Len(x.subs)
          /\ Running(z) = Running(x) \cup {s}
          /\ Follows(x, z)
          /\ Keeps(x, z)
      BY <2>2, <2>3, TakenFields
    <2>6. \A r \in Inputs : ~TurningIn(x, r) /\ r \notin Running(x)
      BY <1>2, <2>2 DEF Books
    <2>7. Core(z) /\ \A r \in Inputs : ~TurningIn(z, r)
      BY <2>2, <2>5, <2>6 DEF Core, TurningIn
    <2>8. Joins(x) => Joins(z)
      BY <2>5 DEF Joins
    <2>9. /\ Core(y) /\ Seats(y)
          /\ Joins(z) => Joins(y)
          /\ Connects(z, y)
          /\ y.configuring = z.configuring
          /\ \A r \in Inputs : TurningIn(y, r) <=> r = s
      BY <1>2, <2>2, <2>4, <2>5, <2>7, ConnectedSound
    <2>10. Queued(y) = Queued(z) /\ Running(y) = Running(z) /\ Busy(y)
      BY <2>5, <2>9 DEF Connects, Queued, Running, Busy
    <2>11. Books(y)
      BY <2>2, <2>5, <2>6, <2>9, <2>10 DEF Books
    <2>12. Follows(x, y) /\ Keeps(x, y)
      BY <2>5, <2>9, <2>10 DEF Follows, Keeps, Connects
    <2>13. Drains(x, y)
      BY <2>5, <2>9, <2>12 DEF Drains, Connects
    <2>14. Good(y) /\ Tended(y)
      BY <2>9, <2>10, <2>11 DEF Good, Tended
    <2>15. y.configuring = x.configuring /\ y.choice = x.choice
      BY <2>5, <2>9 DEF Connects
    <2>16. QED
      BY <1>2, <2>8, <2>9, <2>13, <2>14, <2>15
  <1>3. QED
    BY <1>1, <1>2

-----------------------------------------------------------------------------
(* A run that ends: its input is answered, fails or is dropped. *)

\* y is x with s settled as v in phase p, and its seat changed.
Leaves(x, y, s, v, p, at, c) ==
    /\ y \in Manager
    /\ y.phase = p
    /\ y.receipts = x.receipts
    /\ Len(y.subs) = Len(x.subs)
    /\ \A r \in DOMAIN x.subs : y.subs[r].status = IF r = s THEN v ELSE x.subs[r].status
    /\ y.run = [x.run EXCEPT ![s] = [at |-> at, conn |-> c]]
    /\ y.configuring = x.configuring /\ y.choice = x.choice

\* ... on the same connections.
StaysOn(x, y) ==
    /\ y.active = x.active /\ y.state = x.state
    /\ y.retiring = x.retiring /\ y.closing = x.closing

\* What a run that ends does to the sets of inputs.
LEMMA LeavesEffects ==
  ASSUME NEW x, Core(x), NEW s, NEW v \in {"completed", "failed"},
         NEW y, NEW p, NEW at, NEW c, Leaves(x, y, s, v, p, at, c)
  PROVE  /\ Queued(y) = Queued(x) \ {s}
         /\ Running(y) = Running(x) \ {s}
         /\ Follows(x, y)
         /\ s \in Running(x) => Keeps(x, y)
  <1>1. DOMAIN y.subs = DOMAIN x.subs
    BY DEF Leaves, Core, Manager
  <1>2. Queued(y) = Queued(x) \ {s} /\ Running(y) = Running(x) \ {s}
    BY <1>1 DEF Leaves, Queued, Running
  <1>3. Follows(x, y)
    BY <1>2 DEF Leaves, Follows
  <1>4. s \in Running(x) => Keeps(x, y)
    BY <1>1 DEF Leaves, Keeps, Running
  <1>5. QED
    BY <1>2, <1>3, <1>4

Dropped(x, s) == [x EXCEPT !.run[s] = AtRest, !.subs[s].status = "failed", !.phase = "idle"]

\* The run of a turn cancelled while its connection started.
LEMMA DroppedFields ==
  ASSUME NEW x \in Manager, NEW s \in Inputs, NEW y, y = Dropped(x, s)
  PROVE  /\ Leaves(x, y, s, "failed", "idle", "none", NoConnection)
         /\ StaysOn(x, y)
  <1>1. PICK p : p = MarkedAs(x.subs, s, "failed")
    OBVIOUS
  <1>2. /\ p \in Seq(Submission) /\ Len(p) = Len(x.subs)
        /\ \A r \in DOMAIN x.subs : p[r].status = IF r = s THEN "failed" ELSE x.subs[r].status
    BY <1>1, Marked DEF Statuses, Manager
  <1>3. AtRest \in [at : Stages, conn : SomeConnection]
    BY DEF AtRest, Stages, SomeConnection
  <1>4. PICK q : q = [x.run EXCEPT ![s] = AtRest]
    OBVIOUS
  <1>5. q \in [Inputs -> [at : Stages, conn : SomeConnection]]
    BY <1>3, <1>4 DEF Manager
  <1>6. y = [x EXCEPT !.run = q, !.subs = p, !.phase = "idle"]
    BY <1>1, <1>4 DEF Dropped, MarkedAs
  <1>7. /\ y \in Manager /\ y.phase = "idle" /\ y.subs = p /\ y.run = q
        /\ y.receipts = x.receipts
        /\ y.configuring = x.configuring /\ y.choice = x.choice
        /\ y.active = x.active /\ y.state = x.state
        /\ y.retiring = x.retiring /\ y.closing = x.closing
    BY <1>2, <1>5, <1>6 DEF Manager, Phases
  <1>8. QED
    BY <1>2, <1>4, <1>7 DEF Leaves, StaysOn, AtRest

\* When the run with the turn leaves its seat, nobody has the turn.
LEMMA LeftSound ==
  ASSUME NEW x, Core(x), NEW s \in Inputs, TurningIn(x, s),
         removal = "no" => Books(x),
         NEW v \in {"completed", "failed"},
         NEW y, NEW p \in {"idle", "failed"},
         Leaves(x, y, s, v, p, "none", NoConnection), StaysOn(x, y)
  PROVE  /\ Good(y)
         /\ Follows(x, y)
         /\ removal = "no" => Keeps(x, y)
         /\ Joins(x) => Joins(y)
  <1>1. \A r \in Inputs : y.run[r] = IF r = s THEN [at |-> "none", conn |-> NoConnection]
                                              ELSE x.run[r]
    BY DEF Leaves, Core, Manager
  <1>2. \A r \in Inputs : ~TurningIn(y, r)
    BY <1>1 DEF TurningIn, Core
  <1>3. Core(y)
    BY <1>1, <1>2 DEF Core, Leaves, StaysOn
  <1>4. Seats(y)
    BY <1>2 DEF Seats
  <1>5. /\ Running(y) = Running(x) \ {s}
        /\ Follows(x, y)
        /\ s \in Running(x) => Keeps(x, y)
    BY LeavesEffects
  <1>6. removal = "no" => s \in Running(x) /\ \A r \in Inputs : r # s => r \notin Running(x)
    BY DEF Books, Core
  <1>7. removal = "no" => Books(y)
    BY <1>2, <1>5, <1>6 DEF Books
  <1>8. Joins(x) => Joins(y)
    BY DEF Joins, Leaves, StaysOn
  <1>9. QED
    BY <1>3, <1>4, <1>5, <1>6, <1>7, <1>8 DEF Good

\* The run makes its request.
LEMMA PromptingFields ==
  ASSUME NEW x \in Manager, NEW s \in Inputs, NEW y, y = [x EXCEPT !.run[s].at = "prompting"]
  PROVE  Reseated(x, y, s, "prompting", x.run[s].conn)
  <1>1. /\ x.run \in [Inputs -> [at : Stages, conn : SomeConnection]]
        /\ x.run[s].conn \in SomeConnection
    BY DEF Manager
  <1>2. [x.run[s] EXCEPT !.at = "prompting"] = [at |-> "prompting", conn |-> x.run[s].conn]
    BY <1>1
  <1>3. y = [x EXCEPT !.run[s] = [at |-> "prompting", conn |-> x.run[s].conn]]
    BY <1>2
  <1>4. QED
    BY <1>1, <1>3, Seated DEF Stages

\* The run of a removed Thread ends.
LEMMA RestedFields ==
  ASSUME NEW x \in Manager, NEW s \in Inputs, NEW y, y = [x EXCEPT !.run[s] = AtRest]
  PROVE  Reseated(x, y, s, "none", NoConnection)
  BY Seated DEF AtRest, Stages, SomeConnection

\* Once the Thread is removed, the run only leaves its seat.
LEMMA RestedSound ==
  ASSUME NEW x, Core(x), NEW s \in Inputs, TurningIn(x, s), removal # "no",
         NEW y, Reseated(x, y, s, "none", NoConnection)
  PROVE  /\ Good(y)
         /\ Follows(x, y)
         /\ Joins(x) => Joins(y)
  <1>1. \A r \in Inputs : y.run[r] = IF r = s THEN [at |-> "none", conn |-> NoConnection]
                                              ELSE x.run[r]
    BY DEF Reseated, Core, Manager
  <1>2. \A r \in Inputs : ~TurningIn(y, r)
    BY <1>1 DEF TurningIn, Core
  <1>3. Core(y)
    BY <1>1, <1>2 DEF Core, Reseated
  <1>4. Seats(y)
    BY <1>2 DEF Seats
  <1>5. Follows(x, y)
    BY DEF Follows, Reseated, Queued, Running
  <1>6. Joins(x) => Joins(y)
    BY DEF Joins, Reseated
  <1>7. QED
    BY <1>3, <1>4, <1>5, <1>6 DEF Good

(* The run of s goes on with its connection.                               *)
LEMMA RequestedSound ==
  ASSUME NEW x, Core(x), NEW s \in Inputs, TurningIn(x, s),
         x.active # NoConnection, x.run[s].conn = x.active,
         x.state[x.active] # "starting",
         removal = "no" => Books(x),
         NEW y, y = Requested(x, s)
  PROVE  /\ Good(y)
         /\ Follows(x, y)
         /\ y.active = x.active /\ y.state = x.state
         /\ y.configuring = x.configuring /\ y.choice = x.choice
         /\ Joins(x) => Joins(y)
         /\ removal = "no" => Keeps(x, y) /\ Tended(y)
  <1>1. x \in Manager
    BY DEF Core
  <1>2. CASE removal # "no"
    <2>1. y = [x EXCEPT !.run[s] = AtRest]
      BY <1>2 DEF Requested
    <2>2. Reseated(x, y, s, "none", NoConnection)
      BY <1>1, <2>1, RestedFields
    <2>3. QED
      BY <1>2, <2>2, RestedSound DEF Reseated
  <1>3. CASE removal = "no" /\ x.turn[x.run[s].conn] = "idle"
    <2>1. PICK z : z = Dropped(x, s)
      OBVIOUS
    <2>2. y = Drained(z)
      BY <1>3, <2>1 DEF Requested, Dropped
    <2>3. Leaves(x, z, s, "failed", "idle", "none", NoConnection) /\ StaysOn(x, z)
      BY <1>1, <2>1, DroppedFields
    <2>4. Good(z) /\ Follows(x, z) /\ Keeps(x, z) /\ (Joins(x) => Joins(z))
      BY <1>3, <2>3, LeftSound
    <2>5. /\ Good(y) /\ Drains(z, y)
          /\ y.configuring = z.configuring /\ y.choice = z.choice
          /\ Joins(z) => Joins(y)
          /\ Tended(y)
      BY <1>3, <2>2, <2>4, DrainedSound
    <2>6. Follows(x, y)
      BY <2>4, <2>5, FollowsTransitive DEF Drains
    <2>7. Keeps(x, y)
      BY <2>4, <2>5, KeepsTransitive DEF Drains, Good
    <2>8. y.active = x.active /\ y.state = x.state
      BY <2>3, <2>5 DEF Drains, StaysOn
    <2>9. y.configuring = x.configuring /\ y.choice = x.choice
      BY <2>3, <2>5 DEF Leaves
    <2>10. QED
      BY <2>4, <2>5, <2>6, <2>7, <2>8, <2>9
  <1>4. CASE removal = "no" /\ x.turn[x.run[s].conn] # "idle"
    <2>1. y = [x EXCEPT !.run[s].at = "prompting"]
      BY <1>4 DEF Requested
    <2>2. Reseated(x, y, s, "prompting", x.run[s].conn)
      BY <1>1, <2>1, PromptingFields
    <2>3. \A r \in Inputs : y.run[r] = IF r = s THEN [at |-> "prompting", conn |-> x.run[s].conn]
                                                ELSE x.run[r]
      BY <2>2 DEF Reseated, Core, Manager
    <2>4. \A r \in Inputs : TurningIn(y, r) <=> TurningIn(x, r)
      BY <2>3 DEF TurningIn
    <2>5. Core(y)
      BY <2>2, <2>3, <2>4 DEF Core, Reseated, TurningIn
    <2>6. \A r \in Inputs : TurningIn(y, r) => r = s
      BY <2>4 DEF Core
    <2>7. Seats(y)
      BY <2>2, <2>3, <2>6 DEF Seats, Reseated
    <2>8. Queued(y) = Queued(x) /\ Running(y) = Running(x) /\ Busy(y) = Busy(x)
      BY <2>2 DEF Reseated, Queued, Running, Busy
    <2>9. Books(y)
      BY <1>4, <2>4, <2>8 DEF Books
    <2>10. Tended(y)
      BY <1>4, <2>8 DEF Books, Tended
    <2>11. Follows(x, y) /\ Keeps(x, y)
      BY <2>2, <2>8 DEF Follows, Keeps, Reseated
    <2>12. Joins(x) => Joins(y)
      BY <2>2 DEF Joins, Reseated
    <2>13. QED
      BY <2>2, <2>5, <2>7, <2>9, <2>10, <2>11, <2>12 DEF Good, Reseated
  <1>5. QED
    BY <1>2, <1>3, <1>4

(* configure() has its connection. *)
LEMMA ConfiguredSound ==
  ASSUME NEW x, Good(x), NEW c \in Connections, NEW y, y = Configured(x, c)
  PROVE  /\ Good(y)
         /\ Follows(x, y) /\ Keeps(x, y)
         /\ y.configuring = "none" /\ y.retiring = x.retiring
         /\ Joins(y)
         /\ removal = "no" =>
               \/ Tended(y)
               \/ x.choice /\ Queued(y) = Queued(x) /\ Busy(y) = Busy(x)
  <1>1. PICK z : z = [x EXCEPT !.configuring = "none"]
    OBVIOUS
  <1>2. /\ z \in Manager /\ x \in Manager
        /\ z.phase = x.phase /\ z.subs = x.subs /\ z.receipts = x.receipts
        /\ z.active = x.active /\ z.state = x.state
        /\ z.retiring = x.retiring /\ z.closing = x.closing
        /\ z.run = x.run
        /\ z.configuring = "none" /\ z.choice = x.choice
    BY <1>1 DEF Good, Core, Manager
  <1>3. /\ Queued(z) = Queued(x) /\ Running(z) = Running(x) /\ Busy(z) = Busy(x)
        /\ \A s \in Inputs : TurningIn(z, s) <=> TurningIn(x, s)
    BY <1>2 DEF Queued, Running, Busy, TurningIn
  <1>4. Core(z) /\ Seats(z)
    BY <1>2, <1>3 DEF Good, Core, Seats, TurningIn
  <1>5. Good(z)
    BY <1>3, <1>4 DEF Good, Books
  <1>6. Follows(x, z) /\ Keeps(x, z)
    BY <1>2, <1>3 DEF Follows, Keeps
  <1>7. Joins(z)
    BY <1>2 DEF Joins
  <1>8. CASE removal # "no" \/ x.choice \/ Busy(z)
    <2>1. y = z
      BY <1>1, <1>3, <1>8 DEF Configured
    <2>2. removal = "no" => \/ Tended(y)
                            \/ x.choice /\ Queued(y) = Queued(x) /\ Busy(y) = Busy(x)
      BY <1>3, <1>8, <2>1 DEF Tended
    <2>3. QED
      BY <1>2, <1>5, <1>6, <1>7, <2>1, <2>2
  <1>9. CASE removal = "no" /\ ~x.choice /\ ~Busy(z)
    <2>1. PICK w : w = Finished(z, c)
      OBVIOUS
    <2>2. Turned(z, w)
      BY <1>2, <2>1, FinishedTurns
    <2>3. /\ Core(w) /\ Seats(w) /\ Joins(w)
          /\ Books(z) => Books(w)
          /\ Follows(z, w) /\ Keeps(z, w)
      BY <1>4, <1>7, <2>2, TurnedSound
    <2>4. Good(w)
      BY <1>5, <2>3 DEF Good
    <2>5. y = Drained(w)
      BY <1>1, <1>3, <1>9, <2>1 DEF Configured
    <2>6. /\ Good(y) /\ Drains(w, y)
          /\ y.configuring = w.configuring
          /\ Joins(y)
          /\ Tended(y)
      BY <1>9, <2>3, <2>4, <2>5, DrainedSound
    <2>7. Follows(x, y)
      BY <1>6, <2>3, <2>6, FollowsTransitive DEF Drains
    <2>8. Keeps(x, w)
      BY <1>4, <1>6, <2>3, KeepsTransitive DEF Good
    <2>9. Follows(x, w)
      BY <1>6, <2>3, FollowsTransitive
    <2>10. Keeps(x, y)
      BY <2>3, <2>6, <2>8, <2>9, KeepsTransitive DEF Good, Drains
    <2>11. y.configuring = "none" /\ y.retiring = x.retiring
      BY <1>2, <2>2, <2>6 DEF Turned, Drains
    <2>12. QED
      BY <2>6, <2>7, <2>10, <2>11
  <1>10. QED
    BY <1>8, <1>9

\* What configure() and resumeAgents() leave of a queue.
Joined(x, y) ==
    \/ Tended(y)
    \/ /\ x.choice \/ (y.configuring = "starting" /\ y.choice = x.choice)
       /\ Queued(y) = Queued(x) /\ Busy(y) = Busy(x)

\* configure() waits for the connection that starts.
LEMMA JoiningSound ==
  ASSUME NEW x, Good(x), NEW y, y = [x EXCEPT !.configuring = "starting"],
         \E c \in Connections : x.state[c] = "starting"
  PROVE  /\ Good(y) /\ Joins(y)
         /\ Follows(x, y) /\ Keeps(x, y)
         /\ y.retiring = x.retiring
         /\ Joined(x, y)
  <1>1. /\ y \in Manager
        /\ y.phase = x.phase /\ y.subs = x.subs /\ y.receipts = x.receipts
        /\ y.active = x.active /\ y.state = x.state
        /\ y.retiring = x.retiring /\ y.closing = x.closing
        /\ y.run = x.run
        /\ y.configuring = "starting" /\ y.choice = x.choice
    BY DEF Good, Core, Manager
  <1>2. /\ Queued(y) = Queued(x) /\ Running(y) = Running(x) /\ Busy(y) = Busy(x)
        /\ \A s \in Inputs : TurningIn(y, s) <=> TurningIn(x, s)
    BY <1>1 DEF Queued, Running, Busy, TurningIn
  <1>3. Core(y) /\ Seats(y)
    BY <1>1, <1>2 DEF Good, Core, Seats, TurningIn
  <1>4. Good(y)
    BY <1>2, <1>3 DEF Good, Books
  <1>5. Joins(y)
    BY <1>1 DEF Joins
  <1>6. Follows(x, y) /\ Keeps(x, y)
    BY <1>1, <1>2 DEF Follows, Keeps
  <1>7. QED
    BY <1>1, <1>2, <1>4, <1>5, <1>6 DEF Joined

\* A process is started where there is none.
LEMMA OpenedSound ==
  ASSUME NEW x, Good(x), ~x.retiring, x.active = NoConnection,
         NEW c \in Connections, NEW y, y = Opened(x, c)
  PROVE  /\ Good(y)
         /\ Follows(x, y) /\ Keeps(x, y)
         /\ y.retiring = x.retiring /\ y.choice = x.choice
         /\ y.state[c] = "starting"
         /\ Queued(y) = Queued(x) /\ Busy(y) = Busy(x)
  <1>1. /\ y \in Manager
        /\ y.phase = x.phase /\ y.subs = x.subs /\ y.receipts = x.receipts
        /\ y.active = c /\ y.state = [x.state EXCEPT ![c] = "starting"]
        /\ y.retiring = x.retiring /\ y.closing = x.closing
        /\ y.run = x.run
        /\ y.configuring = x.configuring /\ y.choice = x.choice
    BY OpenedFields DEF Good, Core
  <1>2. \A s \in Inputs : ~TurningIn(x, s)
    BY DEF Good, Seats
  <1>3. /\ Queued(y) = Queued(x) /\ Running(y) = Running(x) /\ Busy(y) = Busy(x)
        /\ \A s \in Inputs : ~TurningIn(y, s)
    BY <1>1, <1>2 DEF Queued, Running, Busy, TurningIn
  <1>4. \A d \in Connections : x.state[d] = "closed"
    BY <1>2, UnusedExists DEF Good
  <1>5. \A d \in Connections : y.state[d] = IF d = c THEN "starting" ELSE "closed"
    BY <1>1, <1>4 DEF Good, Core, Manager
  <1>6. Core(y)
    BY <1>1, <1>2, <1>3, <1>5 DEF Good, Core
  <1>7. Seats(y)
    BY <1>3 DEF Seats
  <1>8. Good(y)
    BY <1>2, <1>3, <1>6, <1>7 DEF Good, Books
  <1>9. Follows(x, y) /\ Keeps(x, y)
    BY <1>1, <1>3 DEF Follows, Keeps
  <1>10. QED
    BY <1>1, <1>3, <1>5, <1>8, <1>9

(* connect() by configure(): it waits for the connection that starts,      *)
(* uses the active one, or starts one.                                     *)
LEMMA ConnectingSound ==
  ASSUME NEW x, Good(x), ~x.retiring, NEW y, y = Connecting(x)
  PROVE  /\ Good(y) /\ Joins(y)
         /\ Follows(x, y) /\ Keeps(x, y)
         /\ y.retiring = x.retiring
         /\ removal = "no" => Joined(x, y)
  <1>1. CASE Starting(x) # {}
    <2>1. y = [x EXCEPT !.configuring = "starting"]
      BY <1>1 DEF Connecting
    <2>2. \E c \in Connections : x.state[c] = "starting"
      BY <1>1 DEF Starting
    <2>3. QED
      BY <2>1, <2>2, JoiningSound
  <1>2. CASE Starting(x) = {} /\ x.active # NoConnection
    <2>1. PICK z : z = NextTurn(x, x.active)
      OBVIOUS
    <2>2. x.active \in Connections /\ x \in Manager
      BY <1>2 DEF Good, Core, Manager, SomeConnection
    <2>3. Turned(x, z)
      BY <2>1, <2>2, NextTurnTurns
    <2>4. /\ Core(z) /\ Seats(z)
          /\ Books(x) => Books(z)
          /\ Queued(z) = Queued(x) /\ Busy(z) = Busy(x)
          /\ Follows(x, z) /\ Keeps(x, z)
      BY <2>3, TurnedSound DEF Good
    <2>5. Good(z)
      BY <2>4 DEF Good
    <2>6. y = Configured(z, x.active)
      BY <1>2, <2>1 DEF Connecting
    <2>7. /\ Good(y)
          /\ Follows(z, y) /\ Keeps(z, y)
          /\ y.configuring = "none" /\ y.retiring = z.retiring
          /\ Joins(y)
          /\ removal = "no" =>
                \/ Tended(y)
                \/ z.choice /\ Queued(y) = Queued(z) /\ Busy(y) = Busy(z)
      BY <2>2, <2>5, <2>6, ConfiguredSound
    <2>8. Follows(x, y)
      BY <2>4, <2>7, FollowsTransitive
    <2>9. Keeps(x, y)
      BY <2>4, <2>7, KeepsTransitive DEF Good
    <2>10. removal = "no" => Joined(x, y)
      BY <2>3, <2>4, <2>7 DEF Joined, Turned
    <2>11. y.retiring = x.retiring
      BY <2>3, <2>7 DEF Turned
    <2>12. QED
      BY <2>7, <2>8, <2>9, <2>10, <2>11
  <1>3. CASE Starting(x) = {} /\ x.active = NoConnection
    <2>1. Unused(x) # {}
      BY <1>3, UnusedExists DEF Good, Seats
    <2>2. PICK c \in Unused(x) : c = (CHOOSE d \in Unused(x) : TRUE)
      BY <2>1
    <2>3. c \in Connections
      BY <2>2 DEF Unused
    <2>4. PICK z : z = Opened(x, c)
      OBVIOUS
    <2>5. y = [z EXCEPT !.configuring = "starting"]
      BY <1>3, <2>2, <2>4 DEF Connecting
    <2>6. /\ Good(z)
          /\ Follows(x, z) /\ Keeps(x, z)
          /\ z.retiring = x.retiring /\ z.choice = x.choice
          /\ z.state[c] = "starting"
          /\ Queued(z) = Queued(x) /\ Busy(z) = Busy(x)
      BY <1>3, <2>3, <2>4, OpenedSound
    <2>7. /\ Good(y) /\ Joins(y)
          /\ Follows(z, y) /\ Keeps(z, y)
          /\ y.retiring = z.retiring
          /\ Joined(z, y)
      BY <2>3, <2>5, <2>6, JoiningSound
    <2>8. Follows(x, y)
      BY <2>6, <2>7, FollowsTransitive
    <2>9. Keeps(x, y)
      BY <2>6, <2>7, KeepsTransitive DEF Good
    <2>10. Joined(x, y)
      BY <2>6, <2>7 DEF Joined
    <2>11. QED
      BY <2>6, <2>7, <2>8, <2>9, <2>10
  <1>4. QED
    BY <1>1, <1>2, <1>3

-----------------------------------------------------------------------------
(* A run that fails retires its connection. *)

FailedBase(x, s) ==
    [x EXCEPT !.subs[s].status = "failed", !.phase = "failed", !.run[s].at = "failing"]

\* The submission of a failed run.
LEMMA FailedBaseFields ==
  ASSUME NEW x \in Manager, NEW s \in Inputs, NEW y, y = FailedBase(x, s)
  PROVE  /\ Leaves(x, y, s, "failed", "failed", "failing", x.run[s].conn)
         /\ StaysOn(x, y)
  <1>1. PICK p : p = MarkedAs(x.subs, s, "failed")
    OBVIOUS
  <1>2. /\ p \in Seq(Submission) /\ Len(p) = Len(x.subs)
        /\ \A r \in DOMAIN x.subs : p[r].status = IF r = s THEN "failed" ELSE x.subs[r].status
    BY <1>1, Marked DEF Statuses, Manager
  <1>3. PICK z : z = [x EXCEPT !.subs = p, !.phase = "failed"]
    OBVIOUS
  <1>4. /\ z \in Manager /\ z.phase = "failed" /\ z.subs = p /\ z.run = x.run
        /\ z.receipts = x.receipts
        /\ z.configuring = x.configuring /\ z.choice = x.choice
        /\ z.active = x.active /\ z.state = x.state
        /\ z.retiring = x.retiring /\ z.closing = x.closing
    BY <1>2, <1>3 DEF Manager, Phases
  <1>5. /\ z.run \in [Inputs -> [at : Stages, conn : SomeConnection]]
        /\ z.run[s].conn \in SomeConnection
    BY <1>4 DEF Manager
  <1>6. [z.run[s] EXCEPT !.at = "failing"] = [at |-> "failing", conn |-> z.run[s].conn]
    BY <1>5
  <1>7. y = [z EXCEPT !.run[s].at = "failing"]
    BY <1>1, <1>3 DEF FailedBase, MarkedAs
  <1>8. y = [z EXCEPT !.run[s] = [at |-> "failing", conn |-> z.run[s].conn]]
    BY <1>6, <1>7
  <1>9. Reseated(z, y, s, "failing", z.run[s].conn)
    BY <1>4, <1>5, <1>8, Seated DEF Stages
  <1>10. QED
    BY <1>2, <1>4, <1>9 DEF Reseated, Leaves, StaysOn

(* Nothing is retired yet and the turns are of a connection c that is the  *)
(* only one there, and does not start any more.                            *)
Losing(x, c) ==
    /\ ~x.retiring
    /\ \A d \in Connections : x.state[d] # "closed" => d = c
    /\ \A d \in Connections : x.state[d] # "starting"

Ledger(x) == \A s \in Inputs : TurningIn(x, s) <=> s \in Running(x)

\* The catch of run() retires the connection that was lost.
LEMMA FailedSound ==
  ASSUME NEW x, Core(x), NEW s \in Inputs, TurningIn(x, s),
         NEW c \in Connections, x.run[s].conn = c, Losing(x, c),
         removal = "no" => Ledger(x),
         NEW y, y = Failed(x, s)
  PROVE  /\ Good(y)
         /\ Follows(x, y)
         /\ removal = "no" => Keeps(x, y)
         /\ y.retiring /\ y.state = x.state
         /\ y.configuring = x.configuring /\ y.choice = x.choice
  <1>1. PICK z : z = FailedBase(x, s)
    OBVIOUS
  <1>2. y = [z EXCEPT !.active = NoConnection, !.retiring = TRUE, !.closing = c]
    BY <1>1 DEF Failed, FailedBase, Losing
  <1>3. x \in Manager
    BY DEF Core
  <1>4. Leaves(x, z, s, "failed", "failed", "failing", c) /\ StaysOn(x, z)
    BY <1>1, <1>3, FailedBaseFields
  <1>5. /\ y \in Manager /\ y.phase = z.phase /\ y.subs = z.subs /\ y.run = z.run
        /\ y.receipts = z.receipts
        /\ y.configuring = z.configuring /\ y.choice = z.choice
        /\ y.active = NoConnection /\ y.state = z.state
        /\ y.retiring /\ y.closing = c
    BY <1>2, <1>4 DEF Leaves, Manager, SomeConnection
  <1>6. Leaves(x, y, s, "failed", "failed", "failing", c)
    BY <1>4, <1>5 DEF Leaves
  <1>7. \A r \in Inputs : y.run[r] = IF r = s THEN [at |-> "failing", conn |-> c] ELSE x.run[r]
    BY <1>6 DEF Leaves, Core, Manager
  <1>8. \A r \in Inputs : ~TurningIn(y, r)
    BY <1>7 DEF TurningIn, Core
  <1>9. y.state = x.state
    BY <1>4, <1>5 DEF StaysOn
  <1>10. Core(y)
    <2>1. Len(y.subs) <= MaxInputs
      BY <1>6 DEF Leaves, Core
    <2>2. \A r \in Inputs : y.run[r].at = "none" => y.run[r].conn = NoConnection
      BY <1>7 DEF Core
    <2>3. QED
      BY <1>5, <1>8, <1>9, <2>1, <2>2, AgentAssumption DEF Core, Losing
  <1>11. Seats(y)
    BY <1>8 DEF Seats
  <1>12. /\ Running(y) = Running(x) \ {s}
         /\ Follows(x, y)
         /\ s \in Running(x) => Keeps(x, y)
    BY <1>6, LeavesEffects
  <1>13. removal = "no" => s \in Running(x) /\ \A r \in Inputs : r # s => r \notin Running(x)
    BY DEF Ledger, Core
  <1>14. removal = "no" => Books(y)
    BY <1>8, <1>12, <1>13 DEF Books
  <1>15. QED
    BY <1>5, <1>6, <1>9, <1>10, <1>11, <1>12, <1>13, <1>14 DEF Good, Leaves

(* Everything that waits on a connection that is lost is rejected.         *)
LEMMA FailedOnSound ==
  ASSUME NEW x, Core(x), NEW c \in Connections,
         \A s \in Inputs : TurningIn(x, s) =>
             x.run[s].conn = c /\ x.run[s].at # "ready" /\ Losing(x, c),
         removal = "no" => Ledger(x),
         NEW y, y = FailedOn(x, c)
  PROVE  /\ Good(y)
         /\ Follows(x, y)
         /\ removal = "no" => Keeps(x, y)
         /\ y.state = x.state
         /\ y.configuring = x.configuring /\ y.choice = x.choice
         /\ Waiting(x, c, {"starting", "prompting"}) = {} => y = x
         /\ Waiting(x, c, {"starting", "prompting"}) # {} => y.retiring
  <1>1. PICK hit : hit = Waiting(x, c, {"starting", "prompting"})
    OBVIOUS
  <1>2. \A s \in Inputs : s \in hit <=> TurningIn(x, s) /\ x.run[s].conn = c
    BY <1>1 DEF Waiting, TurningIn
  <1>3. CASE hit = {}
    <2>1. y = x
      BY <1>1, <1>3 DEF FailedOn
    <2>2. \A s \in Inputs : ~TurningIn(x, s)
      BY <1>2, <1>3
    <2>3. Good(x)
      BY <2>2 DEF Good, Seats, Books, Ledger
    <2>4. QED
      BY <1>1, <1>3, <2>1, <2>3, Reflexive
  <1>4. CASE hit # {}
    <2>1. PICK s : s = First(hit)
      OBVIOUS
    <2>2. hit \in SUBSET Nat /\ hit \subseteq Inputs
      BY <1>1 DEF Waiting, Inputs
    <2>3. s \in hit
      BY <1>4, <2>1, <2>2, FirstIsLeast
    <2>4. s \in Inputs /\ TurningIn(x, s) /\ x.run[s].conn = c
      BY <1>2, <2>2, <2>3
    <2>5. y = Failed(x, s)
      BY <1>1, <1>4, <2>1 DEF FailedOn
    <2>6. QED
      BY <1>1, <1>4, <2>4, <2>5, FailedSound
  <1>5. QED
    BY <1>3, <1>4

-----------------------------------------------------------------------------
(* Receipts. *)

\* Settling changes receipts only.
LEMMA SettledFields ==
  ASSUME NEW x \in Manager, NEW y, y = Settled(x)
  PROVE  /\ y \in Manager
         /\ y.phase = x.phase /\ y.subs = x.subs
         /\ y.active = x.active /\ y.turn = x.turn /\ y.state = x.state
         /\ y.retiring = x.retiring /\ y.closing = x.closing
         /\ y.run = x.run
         /\ y.configuring = x.configuring /\ y.choice = x.choice
         /\ \A o \in Operations :
               /\ y.receipts[o].batch = x.receipts[o].batch
               /\ y.receipts[o] = x.receipts[o]
                  \/ /\ Settles(x, x.receipts[o])
                     /\ y.receipts[o].outcome = Outcome(x, x.receipts[o].batch)
  <1>1. PICK q : q = [o \in Operations |->
            IF Settles(x, x.receipts[o])
            THEN [x.receipts[o] EXCEPT !.outcome = Outcome(x, x.receipts[o].batch)]
            ELSE x.receipts[o]]
    OBVIOUS
  <1>2. \A o \in Operations : x.receipts[o] \in Receipt
    BY DEF Manager
  <1>3. \A b : Outcome(x, b) \in Outcomes
    BY DEF Outcome, Outcomes
  <1>4. \A o \in Operations :
           /\ q[o] \in Receipt
           /\ q[o].batch = x.receipts[o].batch
           /\ q[o] = x.receipts[o]
              \/ /\ Settles(x, x.receipts[o])
                 /\ q[o].outcome = Outcome(x, x.receipts[o].batch)
    <2>1. SUFFICES ASSUME NEW o \in Operations
                   PROVE  /\ q[o] \in Receipt
                          /\ q[o].batch = x.receipts[o].batch
                          /\ q[o] = x.receipts[o]
                             \/ /\ Settles(x, x.receipts[o])
                                /\ q[o].outcome = Outcome(x, x.receipts[o].batch)
      OBVIOUS
    <2>2. PICK r \in Receipt : r = x.receipts[o]
      BY <1>2
    <2>3. PICK v \in Outcomes : v = Outcome(x, r.batch)
      BY <1>3
    <2>4. q[o] = IF Settles(x, r) THEN [r EXCEPT !.outcome = v] ELSE r
      BY <1>1, <2>2, <2>3
    <2>5. /\ [r EXCEPT !.outcome = v] \in Receipt
          /\ [r EXCEPT !.outcome = v].batch = r.batch
          /\ [r EXCEPT !.outcome = v].outcome = v
      BY DEF Receipt
    <2>6. QED
      BY <2>2, <2>3, <2>4, <2>5
  <1>5. q \in [Operations -> Receipt]
    BY <1>1, <1>4
  <1>6. y = [x EXCEPT !.receipts = q]
    BY <1>1 DEF Settled
  <1>7. /\ y \in Manager /\ y.receipts = q
        /\ y.phase = x.phase /\ y.subs = x.subs
        /\ y.active = x.active /\ y.turn = x.turn /\ y.state = x.state
        /\ y.retiring = x.retiring /\ y.closing = x.closing
        /\ y.run = x.run
        /\ y.configuring = x.configuring /\ y.choice = x.choice
    BY <1>5, <1>6 DEF Manager
  <1>8. QED
    BY <1>4, <1>7

\* Receipts aside, settling changes nothing.
LEMMA SettledSound ==
  ASSUME NEW x, Core(x), NEW y, y = Settled(x)
  PROVE  /\ Core(y)
         /\ Seats(x) => Seats(y)
         /\ Joins(x) => Joins(y)
         /\ Books(x) => Books(y)
         /\ Queued(y) = Queued(x) /\ Running(y) = Running(x) /\ Busy(y) = Busy(x)
         /\ y.retiring = x.retiring /\ y.configuring = x.configuring /\ y.choice = x.choice
         /\ y.subs = x.subs /\ y.phase = x.phase
  <1>1. /\ y \in Manager
        /\ y.phase = x.phase /\ y.subs = x.subs
        /\ y.active = x.active /\ y.state = x.state
        /\ y.retiring = x.retiring /\ y.closing = x.closing
        /\ y.run = x.run
        /\ y.configuring = x.configuring /\ y.choice = x.choice
    BY SettledFields DEF Core
  <1>2. /\ Queued(y) = Queued(x) /\ Running(y) = Running(x) /\ Busy(y) = Busy(x)
        /\ \A s : TurningIn(y, s) <=> TurningIn(x, s)
    BY <1>1 DEF Queued, Running, Busy, TurningIn
  <1>3. Core(y)
    BY <1>1, <1>2 DEF Core
  <1>4. Seats(x) => Seats(y)
    BY <1>1, <1>2 DEF Seats
  <1>5. Joins(x) => Joins(y)
    BY <1>1 DEF Joins
  <1>6. Books(x) => Books(y)
    BY <1>2 DEF Books
  <1>7. QED
    BY <1>1, <1>2, <1>3, <1>4, <1>5, <1>6

\* A receipt is settled on what became of its inputs, and once.
LEMMA SettledReceipts ==
  ASSUME NEW x, Core(x), NEW y, y = Settled(x)
  PROVE  /\ Receipted(x) => Receipted(y)
         /\ \A o \in Operations :
               x.receipts[o].outcome # "open" => y.receipts[o] = x.receipts[o]
  <1>1. /\ y.subs = x.subs
        /\ \A o \in Operations :
               /\ y.receipts[o].batch = x.receipts[o].batch
               /\ y.receipts[o] = x.receipts[o]
                  \/ /\ Settles(x, x.receipts[o])
                     /\ y.receipts[o].outcome = Outcome(x, x.receipts[o].batch)
    BY SettledFields DEF Core
  <1>2. ASSUME Receipted(x), NEW o \in Operations, y.receipts[o] # x.receipts[o]
        PROVE  /\ y.receipts[o].batch # {}
               /\ y.receipts[o].outcome = "completed" =>
                     \A s \in y.receipts[o].batch : x.subs[s].status = "completed"
    <2>1. PICK b : b = x.receipts[o].batch
      OBVIOUS
    <2>2. b # {} /\ b \cap Unsettled(x) = {} /\ y.receipts[o].batch = b
          /\ y.receipts[o].outcome = Outcome(x, b)
      BY <1>1, <1>2, <2>1 DEF Settles
    <2>3. b \subseteq DOMAIN x.subs
      BY <1>2, <2>1 DEF Receipted
    <2>4. \A s \in b : x.subs[s].status \in Statuses
                       /\ x.subs[s].status \notin {"queued", "running"}
      <3>1. \A s \in DOMAIN x.subs : x.subs[s] \in Submission
        BY DEF Core, Manager
      <3>2. QED
        BY <2>2, <2>3, <3>1 DEF Submission, Unsettled, Queued, Running
    <2>5. Outcome(x, b) = "completed" => \A s \in b : x.subs[s].status # "failed"
      BY DEF Outcome
    <2>6. QED
      BY <2>2, <2>4, <2>5 DEF Statuses
  <1>3. Receipted(x) => Receipted(y)
    BY <1>1, <1>2 DEF Receipted
  <1>4. \A o \in Operations : x.receipts[o].outcome # "open" => ~Settles(x, x.receipts[o])
    BY DEF Settles
  <1>5. QED
    BY <1>1, <1>3, <1>4

\* Operators that only follow keep every receipt.
LEMMA FollowsReceipts ==
  ASSUME NEW x, NEW y, Core(x), Core(y), Follows(x, y), Keeps(x, y)
  PROVE  /\ Receipted(x) => Receipted(y)
         /\ \A r : Kept(x, r) => Kept(y, r)
  <1>1. y.receipts = x.receipts /\ DOMAIN y.subs = DOMAIN x.subs
    BY InputSets DEF Follows
  <1>2. Receipted(x) => Receipted(y)
    BY <1>1 DEF Receipted, Keeps
  <1>3. \A r : Kept(x, r) => Kept(y, r)
    BY <1>1 DEF Kept
  <1>4. QED
    BY <1>2, <1>3

-----------------------------------------------------------------------------
(* What one step does: the record it writes and the order of its turns. *)

\* Turns begin with the first of the queue.
Orderly(x, y) == \A s \in Running(y) : s \in Running(x) \/ \A r \in Queued(y) : s < r

\* The outcomes of f are those of g, and its completed ones are of answered inputs.
Final(f, g) ==
    \A o \in Operations :
        f.receipts[o].outcome # "open" =>
            /\ g.receipts[o] = f.receipts[o]
            /\ f.receipts[o].outcome = "completed" =>
                  \A s \in f.receipts[o].batch : g.subs[s].status = "completed"

\* The next manager is y, and the file keeps up with it.
Results(x, y, f, g) ==
    /\ Core(y) /\ Seats(y) /\ Joins(y)
    /\ g \in Record
    /\ Len(g.subs) <= MaxInputs
    /\ Receipted(g)
    /\ Final(f, g)
    /\ removal = "no" => Books(y) /\ Receipted(y) /\ Kept(y, g)
    /\ Queued(y) = Queued(x) /\ Running(y) = Running(x) /\ Busy(y) = Busy(x)
    /\ y.retiring = x.retiring /\ y.configuring = x.configuring /\ y.choice = x.choice

\* What a handler computes from the manager before it saves or forgets it.
Computed(y) ==
    /\ Core(y) /\ Seats(y) /\ Joins(y)
    /\ removal = "no" => Books(y) /\ Receipted(y) /\ Kept(y, file)

\* A file that is not written keeps its outcomes.
LEMMA FinalReflexive ==
  ASSUME AgentInv
  PROVE  Final(file, file)
  BY DEF AgentInv, Receipted, Final

\* A handler that ends without save().
LEMMA ForgetResults ==
  ASSUME AgentInv, NEW y, Computed(y), Forget(y)
  PROVE  Results(y, m', file, file')
  <1>1. m' = y /\ file' = file
    BY DEF Forget
  <1>2. Final(file, file)
    BY FinalReflexive
  <1>3. QED
    BY <1>1, <1>2 DEF Computed, Results, AgentInv, TypeOK

\* What save() writes.
LEMMA SavedRecordFields ==
  ASSUME NEW x, Core(x), NEW g, g = SavedRecord(x)
  PROVE  /\ g \in Record
         /\ g.subs = x.subs /\ g.receipts = x.receipts
  BY DEF SavedRecord, Core, Manager, Record

\* A handler that ends in save().
LEMMA SaveResults ==
  ASSUME AgentInv, up, NEW y, Computed(y), Save(y)
  PROVE  Results(y, m', file, file')
  <1>1. PICK z : /\ z = Settled(y) /\ m' = z
                 /\ file' = IF removal = "no" THEN SavedRecord(z) ELSE file
    BY DEF Save
  <1>2. /\ Core(z) /\ Seats(z) /\ Joins(z)
        /\ Books(y) => Books(z)
        /\ Queued(z) = Queued(y) /\ Running(z) = Running(y) /\ Busy(z) = Busy(y)
        /\ z.retiring = y.retiring /\ z.configuring = y.configuring /\ z.choice = y.choice
    BY <1>1, SettledSound DEF Computed
  <1>3. /\ Receipted(y) => Receipted(z)
        /\ \A o \in Operations :
               y.receipts[o].outcome # "open" => z.receipts[o] = y.receipts[o]
    BY <1>1, SettledReceipts DEF Computed
  <1>4. CASE removal # "no"
    <2>1. m' = z /\ file' = file
      BY <1>1, <1>4
    <2>2. Final(file, file)
      BY FinalReflexive
    <2>3. QED
      BY <1>2, <1>4, <2>1, <2>2 DEF Results, AgentInv, TypeOK
  <1>5. CASE removal = "no"
    <2>1. PICK g : g = SavedRecord(z)
      OBVIOUS
    <2>2. m' = z /\ file' = g
      BY <1>1, <1>5, <2>1
    <2>3. g \in Record /\ g.subs = z.subs /\ g.receipts = z.receipts
      BY <1>2, <2>1, SavedRecordFields
    <2>4. Books(z) /\ Receipted(z) /\ Receipted(g) /\ Len(g.subs) <= MaxInputs
      BY <1>2, <1>3, <1>5, <2>3 DEF Computed, Receipted, Core
    <2>5. Kept(z, g)
      BY <2>3 DEF Kept
    <2>6. Kept(y, file)
      BY <1>5 DEF Computed
    <2>7. \A o \in Operations : file.receipts[o].outcome # "open" =>
              z.receipts[o] = file.receipts[o]
      BY <1>3, <2>6 DEF Kept
    <2>8. Final(file, g)
      BY <2>3, <2>4, <2>7 DEF Final, Receipted
    <2>9. QED
      BY <1>2, <2>2, <2>3, <2>4, <2>5, <2>8 DEF Results
  <1>6. QED
    BY <1>4, <1>5

\* A step keeps the invariant, the order of turns and the outcomes.
StepOK ==
    /\ AgentInv'
    /\ Orderly(m, m')
    /\ file' = NoFile \/ Final(file, file')

\* From what a handler results in to what a step has to keep.
LEMMA StepSound ==
  ASSUME AgentInv, NEW y, Results(y, m', file, file'), Orderly(m, y),
         up' \in BOOLEAN, removal' = removal,
         faults' \in 0..MaxFaults, stalled' \in BOOLEAN,
         removal = "no" => Watched(y, stalled')
  PROVE  StepOK
  <1>1. /\ Core(m') /\ Seats(m') /\ Joins(m')
        /\ file' \in Record
        /\ Len(file'.subs) <= MaxInputs
        /\ Receipted(file')
        /\ Final(file, file')
        /\ removal = "no" => Books(m') /\ Receipted(m') /\ Kept(m', file')
        /\ Queued(m') = Queued(y) /\ Running(m') = Running(y) /\ Busy(m') = Busy(y)
        /\ m'.retiring = y.retiring /\ m'.configuring = y.configuring /\ m'.choice = y.choice
    BY DEF Results
  <1>2. removal = "no" => Watched(m', stalled')
    BY <1>1 DEF Watched
  <1>3. TypeOK'
    <2>1. m' \in Manager /\ Len(m'.subs) <= MaxInputs
      BY <1>1 DEF Core
    <2>2. QED
      BY <1>1, <2>1 DEF AgentInv, TypeOK
  <1>4. AgentInv'
    BY <1>1, <1>2, <1>3 DEF AgentInv
  <1>5. Orderly(m, m')
    BY <1>1 DEF Orderly
  <1>6. QED
    BY <1>1, <1>4, <1>5 DEF StepOK

\* What the invariant gives a handler to start from.
LEMMA GoodManager ==
  ASSUME AgentInv, up
  PROVE  /\ Good(m) /\ Joins(m)
         /\ m \in Manager /\ Computed(m) /\ Orderly(m, m)
         /\ faults \in 0..MaxFaults /\ stalled \in BOOLEAN
  BY DEF AgentInv, Good, Core, Computed, TypeOK, Orderly

\* A handler that follows keeps the receipts.
LEMMA ComputedFollows ==
  ASSUME AgentInv, up, NEW y, Good(y), Joins(y), Follows(m, y),
         removal = "no" => Keeps(m, y)
  PROVE  Computed(y) /\ Orderly(m, y)
  <1>1. Orderly(m, y)
    BY DEF Follows, Orderly
  <1>2. removal = "no" => Receipted(y) /\ Kept(y, file)
    <2>1. SUFFICES ASSUME removal = "no"
                   PROVE  Receipted(y) /\ Kept(y, file)
      OBVIOUS
    <2>2. Core(m) /\ Receipted(m) /\ Kept(m, file) /\ Core(y) /\ Keeps(m, y)
      BY <2>1 DEF AgentInv, Good
    <2>3. QED
      BY <2>2, FollowsReceipts
  <1>3. QED
    BY <1>1, <1>2 DEF Computed, Good

\* The steps that only go on with what the manager holds.
LEMMA FollowingStep ==
  ASSUME AgentInv, up, NEW y, Good(y), Joins(y), Follows(m, y),
         removal = "no" => Keeps(m, y),
         Save(y) \/ Forget(y),
         up' \in BOOLEAN, removal' = removal,
         faults' \in 0..MaxFaults, stalled' \in BOOLEAN,
         removal = "no" => Watched(y, stalled')
  PROVE  StepOK
  <1>1. Computed(y) /\ Orderly(m, y)
    BY ComputedFollows
  <1>2. Results(y, m', file, file')
    BY <1>1, SaveResults, ForgetResults
  <1>3. QED
    BY <1>1, <1>2, StepSound

-----------------------------------------------------------------------------
(* Requests of clients. *)

(* x is the manager with inputs added to its queue, and a receipt for an   *)
(* operation that had none.                                                *)
Enqueues(x) ==
    /\ x \in Manager
    /\ x.phase = m.phase
    /\ x.active = m.active /\ x.state = m.state
    /\ x.retiring = m.retiring /\ x.closing = m.closing
    /\ x.run = m.run
    /\ x.configuring = m.configuring /\ x.choice = m.choice
    /\ Len(x.subs) <= MaxInputs /\ Len(m.subs) <= Len(x.subs)
    /\ Running(x) = Running(m)
    /\ Keeps(m, x)
    /\ \A o \in Operations :
          x.receipts[o] = m.receipts[o]
          \/ /\ m.receipts[o].batch = {}
             /\ x.receipts[o].batch # {}
             /\ x.receipts[o].batch \subseteq DOMAIN x.subs
             /\ x.receipts[o].outcome = "open"

\* A request that queues inputs saves and drains.
LEMMA EnqueuedStep ==
  ASSUME AgentInv, up, removal = "no", NEW x, Enqueues(x),
         Save(Drained(x)), UNCHANGED <<up, removal, faults, stalled>>
  PROVE  StepOK
  <1>1. /\ Core(m) /\ Seats(m) /\ Joins(m) /\ Books(m)
        /\ Receipted(m) /\ Kept(m, file) /\ m \in Manager
    BY DEF AgentInv, Core
  <1>2. /\ Busy(x) = Busy(m)
        /\ \A s : TurningIn(x, s) <=> TurningIn(m, s)
    BY DEF Enqueues, Busy, TurningIn
  <1>3. Core(x)
    BY <1>1, <1>2 DEF Core, Enqueues
  <1>4. Seats(x) /\ Joins(x)
    BY <1>1, <1>2 DEF Seats, Joins, Enqueues
  <1>5. Books(x)
    BY <1>1, <1>2 DEF Books, Enqueues
  <1>6. DOMAIN m.subs \subseteq DOMAIN x.subs
    <2>1. DOMAIN m.subs = 1..Len(m.subs) /\ DOMAIN x.subs = 1..Len(x.subs)
          /\ Len(m.subs) \in Nat /\ Len(x.subs) \in Nat
      BY <1>1, <1>3 DEF Core, Manager
    <2>2. QED
      BY <2>1 DEF Enqueues
  <1>7. Receipted(x)
    BY <1>1, <1>6 DEF Receipted, Enqueues, Keeps
  <1>8. Kept(x, file)
    BY <1>1 DEF Kept, Receipted, Enqueues
  <1>9. PICK y : y = Drained(x)
    OBVIOUS
  <1>10. /\ Good(y) /\ Drains(x, y) /\ Joins(y) /\ Tended(y)
    BY <1>3, <1>4, <1>5, <1>9, DrainedSound DEF Good
  <1>11. Receipted(y) /\ Kept(y, file)
    BY <1>3, <1>7, <1>8, <1>10, FollowsReceipts DEF Good, Drains
  <1>12. Computed(y)
    BY <1>10, <1>11 DEF Computed, Good
  <1>13. Orderly(m, y)
    BY <1>10 DEF Orderly, Enqueues, Drains, Follows
  <1>14. Results(y, m', file, file')
    BY <1>9, <1>12, SaveResults
  <1>15. Watched(y, stalled')
    BY <1>10 DEF Watched, Tended
  <1>16. /\ up' \in BOOLEAN /\ removal' = removal
         /\ faults' \in 0..MaxFaults /\ stalled' \in BOOLEAN
    BY DEF AgentInv, TypeOK
  <1>17. QED
    BY <1>13, <1>14, <1>15, <1>16, StepSound

\* The receipt of an operation that had none.
LEMMA AcceptedFields ==
  ASSUME NEW x \in Manager, NEW op \in SUBSET Operations, NEW batch \in SUBSET Inputs,
         NEW y, y = Accepted(x, op, batch)
  PROVE  /\ y \in Manager
         /\ y.phase = x.phase /\ y.subs = x.subs
         /\ y.active = x.active /\ y.state = x.state
         /\ y.retiring = x.retiring /\ y.closing = x.closing
         /\ y.run = x.run
         /\ y.configuring = x.configuring /\ y.choice = x.choice
         /\ \A o \in Operations :
               y.receipts[o] = IF o \in op THEN [batch |-> batch, outcome |-> "open"]
                                           ELSE x.receipts[o]
  <1>1. CASE op = {}
    <2>1. y = x
      BY <1>1 DEF Accepted
    <2>2. QED
      BY <1>1, <2>1
  <1>2. CASE op # {}
    <2>1. PICK q : q = [o \in Operations |-> IF o \in op THEN [batch |-> batch, outcome |-> "open"]
                                                         ELSE x.receipts[o]]
      OBVIOUS
    <2>2. [batch |-> batch, outcome |-> "open"] \in Receipt
      BY DEF Receipt, Outcomes
    <2>3. q \in [Operations -> Receipt]
      BY <2>1, <2>2 DEF Manager
    <2>4. y = [x EXCEPT !.receipts = q]
      BY <1>2, <2>1 DEF Accepted
    <2>5. QED
      BY <2>1, <2>3, <2>4 DEF Manager
  <1>3. QED
    BY <1>1, <1>2

\* An operation that is fresh has no receipt yet.
LEMMA AcceptedEnqueues ==
  ASSUME AgentInv, NEW x \in Manager, NEW op \in SUBSET Operations, Fresh(op),
         NEW batch \in SUBSET Inputs, batch # {}, batch \subseteq DOMAIN x.subs,
         x.receipts = m.receipts,
         x.phase = m.phase,
         x.active = m.active, x.state = m.state,
         x.retiring = m.retiring, x.closing = m.closing,
         x.run = m.run,
         x.configuring = m.configuring, x.choice = m.choice,
         Len(x.subs) <= MaxInputs, Len(m.subs) <= Len(x.subs),
         Running(x) = Running(m),
         Keeps(m, x),
         NEW y, y = Accepted(x, op, batch)
  PROVE  Enqueues(y)
  <1>1. /\ y \in Manager
        /\ y.phase = x.phase /\ y.subs = x.subs
        /\ y.active = x.active /\ y.state = x.state
        /\ y.retiring = x.retiring /\ y.closing = x.closing
        /\ y.run = x.run
        /\ y.configuring = x.configuring /\ y.choice = x.choice
        /\ \A o \in Operations :
               y.receipts[o] = IF o \in op THEN [batch |-> batch, outcome |-> "open"]
                                           ELSE x.receipts[o]
    BY AcceptedFields
  <1>2. Running(y) = Running(m) /\ Keeps(m, y)
    BY <1>1 DEF Running, Keeps
  <1>3. \A o \in Operations :
          y.receipts[o] = m.receipts[o]
          \/ /\ m.receipts[o].batch = {}
             /\ y.receipts[o].batch # {}
             /\ y.receipts[o].batch \subseteq DOMAIN y.subs
             /\ y.receipts[o].outcome = "open"
    <2>1. SUFFICES ASSUME NEW o \in Operations, o \in op
                   PROVE  /\ m.receipts[o].batch = {}
                          /\ y.receipts[o].batch # {}
                          /\ y.receipts[o].batch \subseteq DOMAIN y.subs
                          /\ y.receipts[o].outcome = "open"
      BY <1>1
    <2>2. m.receipts[o].batch = {}
      BY <2>1 DEF Fresh
    <2>3. y.receipts[o] = [batch |-> batch, outcome |-> "open"]
      BY <1>1, <2>1
    <2>4. QED
      BY <1>1, <2>2, <2>3
  <1>4. QED
    BY <1>1, <1>2, <1>3 DEF Enqueues

\* prompt()
LEMMA PromptStep ==
  ASSUME AgentInv, NEW n \in 1..2, NEW op \in SUBSET Operations, Prompt(n, op)
  PROVE  StepOK
  <1>1. /\ up /\ removal = "no" /\ Fresh(op) /\ Len(m.subs) + n <= MaxInputs
        /\ UNCHANGED <<up, removal, faults, stalled>>
    BY DEF Prompt, Serving
  <1>2. m \in Manager /\ m.subs \in Seq(Submission) /\ Len(m.subs) \in Nat
    BY DEF AgentInv, Core, Manager
  <1>3. PICK batch : batch = Len(m.subs) + 1 .. Len(m.subs) + n
    OBVIOUS
  <1>4. PICK new : new = [i \in 1..n |-> [status |-> "queued", cancelled |-> FALSE, attempt |-> 1]]
    OBVIOUS
  <1>5. PICK q : q = m.subs \o new
    OBVIOUS
  <1>6. PICK x : x = [m EXCEPT !.subs = q]
    OBVIOUS
  <1>7. PICK y : y = Accepted(x, op, batch)
    OBVIOUS
  <1>8. Save(Drained(y))
    BY <1>3, <1>4, <1>5, <1>6, <1>7 DEF Prompt
  <1>9. [status |-> "queued", cancelled |-> FALSE, attempt |-> 1] \in Submission
    BY AgentAssumption DEF Submission, Statuses
  <1>10. new \in Seq(Submission) /\ Len(new) = n
         /\ \A i \in 1..n : new[i].status = "queued"
    BY <1>4, <1>9
  <1>11. /\ q \in Seq(Submission) /\ Len(q) = Len(m.subs) + n
         /\ \A i \in 1..Len(m.subs) : q[i] = m.subs[i]
         /\ \A i \in Len(m.subs) + 1 .. Len(m.subs) + n : q[i] = new[i - Len(m.subs)]
    BY <1>2, <1>5, <1>10
  <1>12. \A i \in Len(m.subs) + 1 .. Len(m.subs) + n : q[i].status = "queued"
    BY <1>2, <1>10, <1>11
  <1>13. DOMAIN q = 1 .. Len(m.subs) + n /\ DOMAIN m.subs = 1 .. Len(m.subs)
    BY <1>2, <1>11
  <1>14. /\ x \in Manager /\ x.subs = q /\ x.receipts = m.receipts
         /\ x.phase = m.phase
         /\ x.active = m.active /\ x.state = m.state
         /\ x.retiring = m.retiring /\ x.closing = m.closing
         /\ x.run = m.run
         /\ x.configuring = m.configuring /\ x.choice = m.choice
    BY <1>2, <1>6, <1>11 DEF Manager
  <1>15. Running(x) = Running(m)
    BY <1>2, <1>11, <1>12, <1>13, <1>14 DEF Running
  <1>16. Keeps(m, x)
    BY <1>11, <1>13, <1>14 DEF Keeps
  <1>17. batch \in SUBSET Inputs /\ batch # {} /\ batch \subseteq DOMAIN x.subs
    <2>1. PICK l \in Nat : l = Len(m.subs)
      BY <1>2
    <2>2. batch = l + 1 .. l + n /\ DOMAIN x.subs = 1 .. l + n /\ l + n <= MaxInputs
      BY <1>1, <1>3, <1>13, <1>14, <2>1
    <2>3. l + 1 \in batch
      BY <2>2
    <2>4. batch \subseteq 1 .. l + n /\ 1 .. l + n \subseteq 1 .. MaxInputs
      BY <2>2, AgentAssumption
    <2>5. QED
      BY <2>2, <2>3, <2>4 DEF Inputs
  <1>18. Len(x.subs) <= MaxInputs /\ Len(m.subs) <= Len(x.subs)
    BY <1>1, <1>2, <1>11, <1>14
  <1>19. Enqueues(y)
    BY <1>1, <1>7, <1>14, <1>15, <1>16, <1>17, <1>18, AcceptedEnqueues
  <1>20. QED
    BY <1>1, <1>8, <1>19, EnqueuedStep

\* retry()
LEMMA RetryStep ==
  ASSUME AgentInv, NEW s \in Inputs, NEW op \in SUBSET Operations, Retry(s, op)
  PROVE  StepOK
  <1>1. /\ up /\ removal = "no" /\ Fresh(op)
        /\ s \in DOMAIN m.subs /\ m.subs[s].status = "failed"
        /\ m.subs[s].attempt < MaxAttempts
        /\ UNCHANGED <<up, removal, faults, stalled>>
    BY DEF Retry, Serving
  <1>2. m \in Manager /\ m.subs \in Seq(Submission) /\ Len(m.subs) \in Nat
        /\ Len(m.subs) <= MaxInputs
    BY DEF AgentInv, Core, Manager
  <1>3. PICK again : again = [status |-> "queued", cancelled |-> FALSE,
                              attempt |-> m.subs[s].attempt + 1]
    OBVIOUS
  <1>4. m.subs[s] \in Submission
    BY <1>1, <1>2
  <1>5. again \in Submission /\ again.status = "queued"
    BY <1>1, <1>3, <1>4, AgentAssumption DEF Submission, Statuses
  <1>6. PICK q : q = [m.subs EXCEPT ![s] = again]
    OBVIOUS
  <1>7. PICK x : x = [m EXCEPT !.subs = q]
    OBVIOUS
  <1>8. PICK y : y = Accepted(x, op, {s})
    OBVIOUS
  <1>9. Save(Drained(y))
    BY <1>3, <1>6, <1>7, <1>8 DEF Retry
  <1>10. /\ q \in Seq(Submission) /\ Len(q) = Len(m.subs) /\ DOMAIN q = DOMAIN m.subs
         /\ \A r \in DOMAIN m.subs : q[r] = IF r = s THEN again ELSE m.subs[r]
    BY <1>1, <1>2, <1>5, <1>6, ExceptSeq
  <1>11. /\ x \in Manager /\ x.subs = q /\ x.receipts = m.receipts
         /\ x.phase = m.phase
         /\ x.active = m.active /\ x.state = m.state
         /\ x.retiring = m.retiring /\ x.closing = m.closing
         /\ x.run = m.run
         /\ x.configuring = m.configuring /\ x.choice = m.choice
    BY <1>2, <1>7, <1>10 DEF Manager
  <1>12. Running(x) = Running(m)
    BY <1>1, <1>5, <1>10, <1>11 DEF Running
  <1>13. Keeps(m, x)
    BY <1>1, <1>10, <1>11 DEF Keeps
  <1>14. {s} \in SUBSET Inputs /\ {s} # {} /\ {s} \subseteq DOMAIN x.subs
    BY <1>1, <1>10, <1>11
  <1>15. Enqueues(y)
    <2>1. Len(x.subs) <= MaxInputs /\ Len(m.subs) <= Len(x.subs)
      BY <1>2, <1>10, <1>11
    <2>2. QED
      BY <1>1, <1>8, <1>11, <1>12, <1>13, <1>14, <2>1, AcceptedEnqueues
  <1>16. QED
    BY <1>1, <1>9, <1>15, EnqueuedStep

\* The steps that leave the history and the faults.
LEMMA Unchanging ==
  ASSUME AgentInv, UNCHANGED <<up, removal, faults, stalled>>
  PROVE  /\ up' \in BOOLEAN /\ removal' = removal
         /\ faults' \in 0..MaxFaults /\ stalled' \in BOOLEAN
  BY DEF AgentInv, TypeOK

\* A prompt that was accepted before.
LEMMA RepeatStep ==
  ASSUME AgentInv, NEW o \in Operations, Repeat(o)
  PROVE  StepOK
  <1>1. /\ up /\ removal = "no"
        /\ Written(Drained(m))
        /\ stalled' = (stalled /\ Queued(Drained(m)) = Queued(m))
        /\ UNCHANGED <<up, removal, faults>>
    BY DEF Repeat, Serving
  <1>2. PICK y : y = Drained(m)
    OBVIOUS
  <1>3. Good(m) /\ Joins(m) /\ faults \in 0..MaxFaults /\ up \in BOOLEAN
    BY <1>1, GoodManager DEF AgentInv, TypeOK
  <1>4. Good(y) /\ Drains(m, y) /\ Joins(y) /\ Tended(y)
    BY <1>1, <1>2, <1>3, DrainedSound
  <1>5. Save(y) \/ Forget(y)
    BY <1>1, <1>2 DEF Written
  <1>6. Follows(m, y) /\ Keeps(m, y) /\ Watched(y, stalled')
    BY <1>4 DEF Drains, Tended, Watched
  <1>7. QED
    BY <1>1, <1>3, <1>4, <1>5, <1>6, FollowingStep

\* A change of phase and of the inputs' cancellations, with a turn under way.
LEMMA RephasedStep ==
  ASSUME AgentInv, up, UNCHANGED <<up, removal, faults, stalled>>,
         NEW y, y \in Manager, Save(y),
         y.phase \in {"running", "permission"},
         Len(y.subs) = Len(m.subs),
         \A s \in DOMAIN m.subs : y.subs[s].status = m.subs[s].status,
         y.receipts = m.receipts,
         y.active = m.active, y.state = m.state,
         y.retiring = m.retiring, y.closing = m.closing,
         y.run = m.run,
         y.configuring = m.configuring, y.choice = m.choice
  PROVE  StepOK
  <1>1. Good(m) /\ Joins(m) /\ m \in Manager
    BY GoodManager
  <1>2. DOMAIN y.subs = DOMAIN m.subs
    BY <1>1 DEF Manager
  <1>3. /\ Queued(y) = Queued(m) /\ Running(y) = Running(m) /\ Busy(y)
        /\ \A s : TurningIn(y, s) <=> TurningIn(m, s)
    BY <1>2 DEF Queued, Running, Busy, TurningIn
  <1>4. Core(y) /\ Seats(y) /\ Joins(y)
    BY <1>1, <1>3 DEF Good, Core, Seats, Joins
  <1>5. Good(y)
    BY <1>1, <1>3, <1>4 DEF Good, Books
  <1>6. Follows(m, y) /\ Keeps(m, y)
    BY <1>3 DEF Follows, Keeps
  <1>7. Watched(y, stalled')
    BY <1>3 DEF Watched
  <1>8. QED
    BY <1>4, <1>5, <1>6, <1>7, Unchanging, FollowingStep

\* A change of the phase alone.
LEMMA PhaseFields ==
  ASSUME NEW p \in Phases, m \in Manager, NEW y, y = [m EXCEPT !.phase = p]
  PROVE  /\ y \in Manager /\ y.phase = p
         /\ y.subs = m.subs /\ y.receipts = m.receipts
         /\ y.active = m.active /\ y.state = m.state
         /\ y.retiring = m.retiring /\ y.closing = m.closing
         /\ y.run = m.run
         /\ y.configuring = m.configuring /\ y.choice = m.choice
  BY DEF Manager

\* permit()
LEMMA PermitStep ==
  ASSUME AgentInv, Permit
  PROVE  StepOK
  <1>1. PICK y : y = [m EXCEPT !.phase = "running"]
    OBVIOUS
  <1>2. up /\ Save(y) /\ UNCHANGED <<up, removal, faults, stalled>>
    BY <1>1 DEF Permit, Serving
  <1>3. /\ y \in Manager /\ y.phase = "running"
        /\ y.subs = m.subs /\ y.receipts = m.receipts
        /\ y.active = m.active /\ y.state = m.state
        /\ y.retiring = m.retiring /\ y.closing = m.closing
        /\ y.run = m.run
        /\ y.configuring = m.configuring /\ y.choice = m.choice
    BY <1>1, <1>2, GoodManager, PhaseFields DEF Phases
  <1>4. QED
    BY <1>2, <1>3, RephasedStep

\* A harness asks for permission.
LEMMA AskStep ==
  ASSUME AgentInv, Ask
  PROVE  StepOK
  <1>1. PICK y : y = [m EXCEPT !.phase = "permission"]
    OBVIOUS
  <1>2. up /\ Save(y) /\ UNCHANGED <<up, removal, faults, stalled>>
    BY <1>1 DEF Ask, Undisturbed
  <1>3. /\ y \in Manager /\ y.phase = "permission"
        /\ y.subs = m.subs /\ y.receipts = m.receipts
        /\ y.active = m.active /\ y.state = m.state
        /\ y.retiring = m.retiring /\ y.closing = m.closing
        /\ y.run = m.run
        /\ y.configuring = m.configuring /\ y.choice = m.choice
    BY <1>1, <1>2, GoodManager, PhaseFields DEF Phases
  <1>4. QED
    BY <1>2, <1>3, RephasedStep

\* cancel()
LEMMA CancelStep ==
  ASSUME AgentInv, Cancel
  PROVE  StepOK
  <1>1. up /\ UNCHANGED <<up, removal, faults, stalled>> /\ m.active # NoConnection
    BY DEF Cancel, Serving
  <1>2. m \in Manager /\ m.subs \in Seq(Submission) /\ m.active \in Connections
    BY <1>1, GoodManager DEF Manager, SomeConnection
  <1>3. PICK q : q = [s \in DOMAIN m.subs |->
                        IF s \in Running(m) THEN [m.subs[s] EXCEPT !.cancelled = TRUE]
                                            ELSE m.subs[s]]
    OBVIOUS
  <1>4. PICK t : t = Stopped(m.turn[m.active])
    OBVIOUS
  <1>5. PICK y : y = [m EXCEPT !.turn[m.active] = t, !.phase = "running", !.subs = q]
    OBVIOUS
  <1>6. Save(y)
    BY <1>3, <1>4, <1>5 DEF Cancel
  <1>7. t \in Turns
    BY <1>2, <1>4, TurnTypes DEF Manager
  <1>8. \A s \in DOMAIN m.subs : q[s] \in Submission /\ q[s].status = m.subs[s].status
    <2>1. SUFFICES ASSUME NEW s \in DOMAIN m.subs
                   PROVE  q[s] \in Submission /\ q[s].status = m.subs[s].status
      OBVIOUS
    <2>2. PICK e \in Submission : e = m.subs[s]
      BY <1>2
    <2>3. [e EXCEPT !.cancelled = TRUE] \in Submission
          /\ [e EXCEPT !.cancelled = TRUE].status = e.status
      BY DEF Submission
    <2>4. q[s] = IF s \in Running(m) THEN [e EXCEPT !.cancelled = TRUE] ELSE e
      BY <1>3, <2>2
    <2>5. QED
      BY <2>2, <2>3, <2>4
  <1>9. q \in Seq(Submission) /\ Len(q) = Len(m.subs)
    <2>1. DOMAIN m.subs = 1..Len(m.subs) /\ Len(m.subs) \in Nat
      BY <1>2
    <2>2. q \in [1..Len(m.subs) -> Submission]
      BY <1>3, <1>8, <2>1
    <2>3. QED
      BY <2>1, <2>2
  <1>10. /\ y \in Manager /\ y.phase = "running" /\ y.subs = q
         /\ y.receipts = m.receipts
         /\ y.active = m.active /\ y.state = m.state
         /\ y.retiring = m.retiring /\ y.closing = m.closing
         /\ y.run = m.run
         /\ y.configuring = m.configuring /\ y.choice = m.choice
    BY <1>2, <1>5, <1>7, <1>9 DEF Manager, Phases
  <1>11. QED
    BY <1>1, <1>6, <1>8, <1>9, <1>10, RephasedStep

\* configure()
LEMMA ConfigureStep ==
  ASSUME AgentInv, NEW choice \in BOOLEAN, Configure(choice)
  PROVE  StepOK
  <1>1. /\ up /\ removal = "no" /\ m.configuring = "none" /\ ~Busy(m)
        /\ stalled' = (stalled /\ choice)
        /\ UNCHANGED <<up, removal, faults>>
    BY DEF Configure, Serving
  <1>2. Good(m) /\ Joins(m) /\ faults \in 0..MaxFaults /\ up \in BOOLEAN /\ m \in Manager
    BY <1>1, GoodManager DEF AgentInv, TypeOK
  <1>3. PICK x : x = [m EXCEPT !.choice = choice]
    OBVIOUS
  <1>4. /\ x \in Manager
        /\ x.phase = m.phase /\ x.subs = m.subs /\ x.receipts = m.receipts
        /\ x.active = m.active /\ x.state = m.state
        /\ x.retiring = m.retiring /\ x.closing = m.closing
        /\ x.run = m.run
        /\ x.configuring = m.configuring /\ x.choice = choice
    BY <1>2, <1>3 DEF Manager
  <1>5. /\ Queued(x) = Queued(m) /\ Running(x) = Running(m) /\ Busy(x) = Busy(m)
        /\ \A s : TurningIn(x, s) <=> TurningIn(m, s)
    BY <1>4 DEF Queued, Running, Busy, TurningIn
  <1>6. Core(x) /\ Seats(x)
    BY <1>2, <1>4, <1>5 DEF Good, Core, Seats
  <1>7. Good(x)
    BY <1>2, <1>5, <1>6 DEF Good, Books
  <1>8. Follows(m, x) /\ Keeps(m, x)
    BY <1>4, <1>5 DEF Follows, Keeps
  <1>9. CASE m.retiring
    <2>1. PICK y : y = [x EXCEPT !.configuring = "parked"]
      OBVIOUS
    <2>2. Forget(y)
      BY <1>3, <1>9, <2>1 DEF Configure
    <2>3. /\ y \in Manager
          /\ y.phase = x.phase /\ y.subs = x.subs /\ y.receipts = x.receipts
          /\ y.active = x.active /\ y.state = x.state
          /\ y.retiring = x.retiring /\ y.closing = x.closing
          /\ y.run = x.run
          /\ y.configuring = "parked" /\ y.choice = x.choice
      BY <1>4, <2>1 DEF Manager
    <2>4. /\ Queued(y) = Queued(x) /\ Running(y) = Running(x) /\ Busy(y) = Busy(x)
          /\ \A s : TurningIn(y, s) <=> TurningIn(x, s)
      BY <2>3 DEF Queued, Running, Busy, TurningIn
    <2>5. Core(y) /\ Seats(y)
      BY <1>6, <2>3, <2>4 DEF Core, Seats
    <2>6. Good(y)
      BY <1>7, <2>4, <2>5 DEF Good, Books
    <2>7. Joins(y)
      BY <1>4, <1>9, <2>3 DEF Joins
    <2>8. Follows(x, y) /\ Keeps(x, y)
      BY <2>3, <2>4 DEF Follows, Keeps
    <2>9. Follows(m, y) /\ Keeps(m, y)
      BY <1>2, <1>6, <1>8, <2>8, FollowsTransitive, KeepsTransitive DEF Good
    <2>10. Watched(y, stalled')
      BY <1>4, <1>9, <2>3 DEF Watched
    <2>11. QED
      BY <1>1, <1>2, <2>2, <2>6, <2>7, <2>9, <2>10, FollowingStep
  <1>10. CASE ~m.retiring
    <2>1. PICK y : y = Connecting(x)
      OBVIOUS
    <2>2. Save(y) \/ Forget(y)
      BY <1>3, <1>10, <2>1 DEF Configure, Written
    <2>3. /\ Good(y) /\ Joins(y)
          /\ Follows(x, y) /\ Keeps(x, y)
          /\ y.retiring = x.retiring
          /\ Joined(x, y)
      BY <1>1, <1>4, <1>7, <1>10, <2>1, ConnectingSound
    <2>4. Follows(m, y) /\ Keeps(m, y)
      BY <1>2, <1>6, <1>8, <2>3, FollowsTransitive, KeepsTransitive DEF Good
    <2>5. Queued(m) # {} => stalled
      BY <1>1, <1>10 DEF AgentInv, Watched
    <2>6. Watched(y, stalled')
      BY <1>1, <1>4, <1>5, <2>3, <2>5 DEF Watched, Joined, Tended
    <2>7. QED
      BY <1>1, <1>2, <2>2, <2>3, <2>4, <2>6, FollowingStep
  <1>11. QED
    BY <1>9, <1>10

-----------------------------------------------------------------------------
(* Runs and connections. *)

\* The run of an input that was drained onto the active connection.
LEMMA ContinueStep ==
  ASSUME AgentInv, NEW s \in Inputs, Continue(s)
  PROVE  StepOK
  <1>1. up /\ m.run[s].at = "ready" /\ UNCHANGED <<up, removal, faults, stalled>>
    BY DEF Continue
  <1>2. PICK y : y = Requested(m, s)
    OBVIOUS
  <1>3. Save(y) \/ Forget(y)
    BY <1>2 DEF Continue, Written
  <1>4. Good(m) /\ Joins(m)
    BY <1>1, GoodManager
  <1>5. /\ TurningIn(m, s)
        /\ m.active # NoConnection /\ m.run[s].conn = m.active
        /\ m.state[m.active] # "starting"
    BY <1>1, <1>4 DEF TurningIn, Good, Seats
  <1>6. /\ Good(y)
        /\ Follows(m, y)
        /\ Joins(y)
        /\ removal = "no" => Keeps(m, y) /\ Tended(y)
    BY <1>2, <1>4, <1>5, RequestedSound DEF Good
  <1>7. removal = "no" => Watched(y, stalled')
    BY <1>6 DEF Tended, Watched
  <1>8. QED
    BY <1>1, <1>3, <1>6, <1>7, Unchanging, FollowingStep

\* A connection that starts is the one in use, and nothing is retired.
LEMMA StartingFacts ==
  ASSUME AgentInv, up, NEW c \in Connections, m.state[c] = "starting"
  PROVE  /\ c = m.active /\ ~m.retiring /\ m.closing = NoConnection
         /\ m.configuring # "parked"
         /\ \A d \in Connections : m.state[d] # "closed" => d = c
         /\ \A s \in Inputs : TurningIn(m, s) => m.run[s].conn = c /\ m.run[s].at = "starting"
  <1>1. Core(m) /\ Seats(m) /\ Joins(m)
    BY DEF AgentInv
  <1>2. c = m.active /\ ~m.retiring /\ m.closing = NoConnection
    BY <1>1, AgentAssumption DEF Core
  <1>3. m.configuring # "parked"
    BY <1>1, <1>2 DEF Joins
  <1>4. \A d \in Connections : m.state[d] # "closed" => d = c
    BY <1>1, <1>2, AgentAssumption DEF Core
  <1>5. \A s \in Inputs : TurningIn(m, s) => m.run[s].conn = c /\ m.run[s].at = "starting"
    BY <1>1, <1>2 DEF Seats
  <1>6. QED
    BY <1>2, <1>3, <1>4, <1>5

\* y is m but for the state, and the turn, of the connection c.
Moved(y, c, st) ==
    /\ y \in Manager
    /\ y.phase = m.phase /\ y.subs = m.subs /\ y.receipts = m.receipts
    /\ y.active = m.active /\ y.state = [m.state EXCEPT ![c] = st]
    /\ y.retiring = m.retiring /\ y.closing = m.closing
    /\ y.run = m.run
    /\ y.configuring = m.configuring /\ y.choice = m.choice

\* The connection has started, or failed to.
LEMMA MovedSound ==
  ASSUME AgentInv, up, NEW c \in Connections, m.state[c] = "starting",
         NEW st \in {"open", "broken"}, NEW y, Moved(y, c, st)
  PROVE  /\ Core(y)
         /\ removal = "no" => Books(y) /\ Ledger(y)
         /\ Follows(m, y) /\ Keeps(m, y)
         /\ Queued(y) = Queued(m) /\ Busy(y) = Busy(m)
         /\ \A s \in Inputs : TurningIn(y, s) <=> TurningIn(m, s)
         /\ Losing(y, c)
         /\ y.state[c] = st /\ y.active = c
  <1>1. /\ c = m.active /\ ~m.retiring /\ m.closing = NoConnection
        /\ \A d \in Connections : m.state[d] # "closed" => d = c
    BY StartingFacts
  <1>2. Core(m)
    BY DEF AgentInv
  <1>3. \A d \in Connections : y.state[d] = IF d = c THEN st ELSE m.state[d]
    BY <1>2 DEF Moved, Core, Manager
  <1>4. /\ Queued(y) = Queued(m) /\ Running(y) = Running(m) /\ Busy(y) = Busy(m)
        /\ \A s \in Inputs : TurningIn(y, s) <=> TurningIn(m, s)
    BY DEF Moved, Queued, Running, Busy, TurningIn
  <1>5. Core(y)
    BY <1>1, <1>2, <1>3, <1>4 DEF Core, Moved
  <1>6. removal = "no" => Books(y) /\ Ledger(y)
    BY <1>4 DEF AgentInv, Books, Ledger
  <1>7. Follows(m, y) /\ Keeps(m, y)
    BY <1>4 DEF Follows, Keeps, Moved
  <1>8. Losing(y, c)
    BY <1>1, <1>3 DEF Losing, Moved
  <1>9. QED
    BY <1>1, <1>3, <1>4, <1>5, <1>6, <1>7, <1>8 DEF Moved

\* A change of the state of a connection alone.
LEMMA StateMoves ==
  ASSUME m \in Manager, NEW c \in Connections, NEW st \in {"open", "broken"},
         NEW y, y = [m EXCEPT !.state[c] = st]
  PROVE  Moved(y, c, st)
  BY DEF Manager, Moved

OpenedUp(c) == [m EXCEPT !.state[c] = "open", !.turn[c] = Ready(@)]

\* ... and of its turn.
LEMMA OpenedUpMoves ==
  ASSUME m \in Manager, NEW c \in Connections, NEW y, y = OpenedUp(c)
  PROVE  Moved(y, c, "open")
  <1>1. PICK t : t = Ready(m.turn[c])
    OBVIOUS
  <1>2. t \in Turns
    BY <1>1, TurnTypes DEF Manager
  <1>3. PICK z : z = [m EXCEPT !.state[c] = "open"]
    OBVIOUS
  <1>4. Moved(z, c, "open")
    BY <1>3, StateMoves
  <1>5. y = [z EXCEPT !.turn[c] = t]
    BY <1>1, <1>3 DEF OpenedUp
  <1>6. Turned(z, y)
    <2>1. z \in Manager
      BY <1>4 DEF Moved
    <2>2. QED
      BY <1>2, <1>5, <2>1, TurnSet
  <1>7. QED
    BY <1>4, <1>6 DEF Turned, Moved

\* The run that waited for the connection goes on with it.
LEMMA BegunRun ==
  ASSUME AgentInv, up, NEW c \in Connections, m.state[c] = "starting",
         NEW x, x = OpenedUp(c), NEW runs, runs = Waiting(m, c, {"starting"}),
         NEW z, z = IF runs = {} THEN x ELSE Requested(x, First(runs))
  PROVE  /\ Good(z)
         /\ Follows(m, z)
         /\ removal = "no" => Keeps(m, z)
         /\ z.configuring = m.configuring /\ z.choice = m.choice
         /\ removal = "no" =>
               \/ Tended(z)
               \/ Queued(z) = Queued(m) /\ Busy(z) = Busy(m)
  <1>1. m \in Manager
    BY GoodManager
  <1>2. Moved(x, c, "open")
    BY <1>1, OpenedUpMoves
  <1>3. /\ Core(x)
        /\ removal = "no" => Books(x) /\ Ledger(x)
        /\ Follows(m, x) /\ Keeps(m, x)
        /\ Queued(x) = Queued(m) /\ Busy(x) = Busy(m)
        /\ \A s \in Inputs : TurningIn(x, s) <=> TurningIn(m, s)
        /\ x.state[c] = "open" /\ x.active = c
    BY <1>2, MovedSound
  <1>4. \A s \in Inputs : s \in runs <=> TurningIn(x, s) /\ x.run[s].conn = c
    <2>1. \A s \in Inputs : TurningIn(x, s) =>
              x.run[s].conn = c /\ x.run[s].at = "starting"
      BY <1>2, <1>3, StartingFacts DEF Moved
    <2>2. QED
      BY <1>2, <2>1 DEF Waiting, TurningIn, Moved
  <1>5. CASE runs = {}
    <2>1. \A s \in Inputs : ~TurningIn(x, s)
      BY <1>2, <1>3, <1>4, <1>5, StartingFacts DEF Moved
    <2>2. Good(x)
      BY <1>3, <2>1 DEF Good, Seats
    <2>3. QED
      BY <1>2, <1>3, <1>5, <2>2 DEF Moved
  <1>6. CASE runs # {}
    <2>1. PICK s : s = First(runs)
      OBVIOUS
    <2>2. runs \in SUBSET Nat /\ runs \subseteq Inputs
      BY DEF Waiting, Inputs
    <2>3. s \in runs
      BY <1>6, <2>1, <2>2, FirstIsLeast
    <2>4. s \in Inputs /\ TurningIn(x, s) /\ x.run[s].conn = c
      BY <1>4, <2>2, <2>3
    <2>5. z = Requested(x, s)
      BY <1>6, <2>1
    <2>6. c # NoConnection
      BY AgentAssumption
    <2>7. /\ Good(z)
          /\ Follows(x, z)
          /\ z.configuring = x.configuring /\ z.choice = x.choice
          /\ removal = "no" => Keeps(x, z) /\ Tended(z)
      BY <1>3, <2>4, <2>5, <2>6, RequestedSound
    <2>8. Follows(m, z)
      BY <1>3, <2>7, FollowsTransitive
    <2>9. removal = "no" => Keeps(m, z)
      BY <1>3, <2>7, KeepsTransitive DEF AgentInv
    <2>10. QED
      BY <1>2, <2>7, <2>8, <2>9 DEF Moved
  <1>7. QED
    BY <1>5, <1>6

\* A connection that has started: the run, then configure().
LEMMA BegunStep ==
  ASSUME AgentInv, up, removal = "no", NEW c \in Connections, m.state[c] = "starting",
         Save(Begun(m, c)), UNCHANGED <<up, removal, faults, stalled>>
  PROVE  StepOK
  <1>1. PICK x : x = OpenedUp(c)
    OBVIOUS
  <1>2. PICK runs : runs = Waiting(m, c, {"starting"})
    OBVIOUS
  <1>3. PICK z : z = IF runs = {} THEN x ELSE Requested(x, First(runs))
    OBVIOUS
  <1>4. PICK y : y = IF m.configuring = "starting" THEN Configured(z, c) ELSE z
    OBVIOUS
  <1>5. Save(y)
    BY <1>1, <1>2, <1>3, <1>4 DEF Begun, OpenedUp
  <1>6. /\ Good(z)
        /\ Follows(m, z) /\ Keeps(m, z)
        /\ z.configuring = m.configuring /\ z.choice = m.choice
        /\ \/ Tended(z)
           \/ Queued(z) = Queued(m) /\ Busy(z) = Busy(m)
    BY <1>1, <1>2, <1>3, BegunRun
  <1>7. ~m.retiring /\ m.configuring # "parked"
    BY StartingFacts
  <1>8. Watched(m, stalled) /\ stalled' = stalled /\ Core(m)
    BY DEF AgentInv
  <1>9. CASE m.configuring = "starting"
    <2>1. /\ Good(y)
          /\ Follows(z, y) /\ Keeps(z, y)
          /\ y.configuring = "none" /\ y.retiring = z.retiring
          /\ Joins(y)
          /\ \/ Tended(y)
             \/ z.choice /\ Queued(y) = Queued(z) /\ Busy(y) = Busy(z)
      BY <1>4, <1>6, <1>9, ConfiguredSound
    <2>2. Follows(m, y) /\ Keeps(m, y)
      BY <1>6, <1>8, <2>1, FollowsTransitive, KeepsTransitive DEF Good
    <2>3. Watched(y, stalled')
      BY <1>6, <1>7, <1>8, <2>1 DEF Watched, Tended
    <2>4. QED
      BY <1>5, <2>1, <2>2, <2>3, Unchanging, FollowingStep
  <1>10. CASE m.configuring # "starting"
    <2>1. y = z
      BY <1>4, <1>10
    <2>2. Joins(y)
      BY <1>6, <1>7, <1>10, <2>1 DEF Joins
    <2>3. Watched(y, stalled')
      BY <1>6, <1>7, <1>8, <1>10, <2>1 DEF Watched, Tended
    <2>4. QED
      BY <1>5, <1>6, <2>1, <2>2, <2>3, Unchanging, FollowingStep
  <1>11. QED
    BY <1>9, <1>10

\* configure() stops waiting for a connection.
LEMMA UnjoinedSound ==
  ASSUME NEW x, Good(x), NEW v \in {"none", "parked"}, v = "parked" => x.retiring,
         NEW y, y = [x EXCEPT !.configuring = v]
  PROVE  /\ Good(y) /\ Joins(y)
         /\ Follows(x, y) /\ Keeps(x, y)
         /\ y.retiring = x.retiring
         /\ Queued(y) = Queued(x) /\ Busy(y) = Busy(x)
  <1>1. /\ y \in Manager
        /\ y.phase = x.phase /\ y.subs = x.subs /\ y.receipts = x.receipts
        /\ y.active = x.active /\ y.state = x.state
        /\ y.retiring = x.retiring /\ y.closing = x.closing
        /\ y.run = x.run
        /\ y.configuring = v /\ y.choice = x.choice
    BY DEF Good, Core, Manager
  <1>2. /\ Queued(y) = Queued(x) /\ Running(y) = Running(x) /\ Busy(y) = Busy(x)
        /\ \A s : TurningIn(y, s) <=> TurningIn(x, s)
    BY <1>1 DEF Queued, Running, Busy, TurningIn
  <1>3. Core(y) /\ Seats(y)
    BY <1>1, <1>2 DEF Good, Core, Seats
  <1>4. Good(y)
    BY <1>2, <1>3 DEF Good, Books
  <1>5. Joins(y)
    BY <1>1 DEF Joins
  <1>6. Follows(x, y) /\ Keeps(x, y)
    BY <1>1, <1>2 DEF Follows, Keeps
  <1>7. QED
    BY <1>1, <1>2, <1>4, <1>5, <1>6

\* Everything that waits on a connection that started, or failed to, is rejected.
LEMMA LostMoved ==
  ASSUME AgentInv, up, NEW c \in Connections, m.state[c] = "starting",
         NEW st \in {"open", "broken"}, NEW x, Moved(x, c, st),
         NEW z, z = FailedOn(x, c)
  PROVE  /\ Good(z)
         /\ Follows(m, z)
         /\ removal = "no" => Keeps(m, z)
         /\ Waiting(m, c, {"starting"}) # {} => z.retiring
         /\ z.configuring = m.configuring
  <1>1. Core(m)
    BY DEF AgentInv
  <1>2. /\ Core(x)
        /\ removal = "no" => Ledger(x)
        /\ Follows(m, x) /\ Keeps(m, x)
        /\ \A s \in Inputs : TurningIn(x, s) <=> TurningIn(m, s)
        /\ Losing(x, c)
    BY MovedSound
  <1>3. \A s \in Inputs : TurningIn(x, s) =>
            x.run[s].conn = c /\ x.run[s].at # "ready" /\ Losing(x, c)
    BY <1>2, StartingFacts DEF Moved
  <1>4. /\ Good(z)
        /\ Follows(x, z)
        /\ removal = "no" => Keeps(x, z)
        /\ z.configuring = x.configuring
        /\ Waiting(x, c, {"starting", "prompting"}) # {} => z.retiring
    BY <1>2, <1>3, FailedOnSound
  <1>5. Follows(m, z)
    BY <1>2, <1>4, FollowsTransitive
  <1>6. removal = "no" => Keeps(m, z)
    BY <1>1, <1>2, <1>4, KeepsTransitive
  <1>7. Waiting(m, c, {"starting"}) # {} => z.retiring
    BY <1>4 DEF Waiting, Moved
  <1>8. QED
    BY <1>4, <1>5, <1>6, <1>7 DEF Moved

\* ... and configure() with it.
LEMMA LostStart ==
  ASSUME AgentInv, up, NEW c \in Connections, m.state[c] = "starting",
         NEW st \in {"open", "broken"}, NEW x, Moved(x, c, st),
         NEW z, z = FailedOn(x, c),
         NEW y, y = [z EXCEPT !.configuring = "none"]
  PROVE  /\ Good(y) /\ Joins(y)
         /\ Follows(m, y)
         /\ removal = "no" => Keeps(m, y)
         /\ Waiting(m, c, {"starting"}) # {} => y.retiring
         /\ z.configuring = m.configuring
  <1>1. /\ Good(z)
        /\ Follows(m, z)
        /\ removal = "no" => Keeps(m, z)
        /\ Waiting(m, c, {"starting"}) # {} => z.retiring
        /\ z.configuring = m.configuring
    BY LostMoved
  <1>2. /\ Good(y) /\ Joins(y)
        /\ Follows(z, y) /\ Keeps(z, y)
        /\ y.retiring = z.retiring
    BY <1>1, UnjoinedSound
  <1>3. Follows(m, y)
    BY <1>1, <1>2, FollowsTransitive
  <1>4. removal = "no" => Keeps(m, y)
    BY <1>1, <1>2, KeepsTransitive DEF Good, AgentInv
  <1>5. QED
    BY <1>1, <1>2, <1>3, <1>4

\* start() resolves,
LEMMA StartResolvesStep ==
  ASSUME AgentInv, NEW c \in Connections, StartResolves(c)
  PROVE  StepOK
  <1>1. up /\ m.state[c] = "starting" /\ UNCHANGED <<up, removal, faults, stalled>>
    BY DEF StartResolves, Undisturbed
  <1>2. CASE removal = "no"
    <2>1. Save(Begun(m, c))
      BY <1>2 DEF StartResolves
    <2>2. QED
      BY <1>1, <1>2, <2>1, BegunStep
  <1>3. CASE removal # "no"
    <2>1. PICK x : x = [m EXCEPT !.state[c] = "open"]
      OBVIOUS
    <2>2. PICK z : z = FailedOn(x, c)
      OBVIOUS
    <2>3. PICK y : y = [z EXCEPT !.configuring = "none"]
      OBVIOUS
    <2>4. Forget(y)
      BY <1>3, <2>1, <2>2, <2>3 DEF StartResolves, Unwanted
    <2>5. Moved(x, c, "open")
      BY <1>1, <2>1, GoodManager, StateMoves
    <2>6. Good(y) /\ Joins(y) /\ Follows(m, y)
      BY <1>1, <2>2, <2>3, <2>5, LostStart
    <2>7. QED
      BY <1>1, <1>3, <2>4, <2>6, Unchanging, FollowingStep
  <1>4. QED
    BY <1>2, <1>3

\* ... or rejects.
LEMMA StartRejectsStep ==
  ASSUME AgentInv, NEW c \in Connections, StartRejects(c)
  PROVE  StepOK
  <1>1. /\ up /\ m.state[c] = "starting"
        /\ faults < MaxFaults /\ faults' = faults + 1
        /\ stalled' = (stalled \/ (Waiting(m, c, {"starting"}) = {} /\ Queued(m) # {}))
        /\ UNCHANGED <<up, removal>>
    BY DEF StartRejects, Undisturbed
  <1>2. PICK x : x = [m EXCEPT !.state[c] = "broken"]
    OBVIOUS
  <1>3. PICK z : z = FailedOn(x, c)
    OBVIOUS
  <1>4. PICK y : y = [z EXCEPT !.configuring = "none"]
    OBVIOUS
  <1>5. /\ Good(y) /\ Joins(y)
        /\ Follows(m, y)
        /\ removal = "no" => Keeps(m, y)
        /\ Waiting(m, c, {"starting"}) # {} => y.retiring
        /\ z.configuring = m.configuring
    <2>1. Moved(x, c, "broken")
      BY <1>1, <1>2, GoodManager, StateMoves
    <2>2. QED
      BY <1>1, <1>3, <1>4, <2>1, LostStart
  <1>6. z.configuring \in {"none", "starting"}
    BY <1>1, <1>5, StartingFacts, GoodManager DEF Manager
  <1>7. Forget(y)
    <2>1. Forget([z EXCEPT !.configuring = IF @ = "starting" THEN "none" ELSE @])
      BY <1>2, <1>3 DEF StartRejects
    <2>2. PICK v : v = IF z.configuring = "starting" THEN "none" ELSE z.configuring
      OBVIOUS
    <2>3. v = "none"
      BY <1>6, <2>2
    <2>4. Forget([z EXCEPT !.configuring = v])
      BY <2>1, <2>2
    <2>5. QED
      BY <1>4, <2>3, <2>4
  <1>8. Watched(y, stalled')
    BY <1>1, <1>5 DEF Watched, Follows
  <1>9. faults' \in 0..MaxFaults /\ up' \in BOOLEAN /\ stalled' \in BOOLEAN
    BY <1>1, GoodManager, AgentAssumption DEF AgentInv, TypeOK
  <1>10. QED
    BY <1>1, <1>5, <1>7, <1>8, <1>9, FollowingStep

\* A request is rejected.
LEMMA RejectStep ==
  ASSUME AgentInv, NEW s \in Inputs, Reject(s)
  PROVE  StepOK
  <1>1. /\ up /\ m.run[s].at = "prompting"
        /\ UNCHANGED <<up, removal, stalled>>
        /\ (faults < MaxFaults /\ faults' = faults + 1) \/ UNCHANGED faults
    BY DEF Reject, Undisturbed
  <1>2. PICK y : y = Failed(m, s)
    OBVIOUS
  <1>3. Forget(y)
    BY <1>2 DEF Reject
  <1>4. Core(m) /\ Seats(m) /\ Joins(m) /\ TurningIn(m, s)
    BY <1>1 DEF AgentInv, TurningIn
  <1>5. PICK c \in Connections : /\ c = m.active /\ m.run[s].conn = c
                                 /\ m.state[c] # "starting"
    BY <1>1, <1>4 DEF Seats, Core, Manager, SomeConnection
  <1>6. Losing(m, c)
    BY <1>4, <1>5, AgentAssumption DEF Core, Losing
  <1>7. removal = "no" => Ledger(m)
    BY <1>1 DEF AgentInv, Books, Ledger
  <1>8. /\ Good(y)
        /\ Follows(m, y)
        /\ removal = "no" => Keeps(m, y)
        /\ y.retiring
        /\ y.configuring = m.configuring
    BY <1>2, <1>4, <1>5, <1>6, <1>7, FailedSound
  <1>9. Joins(y)
    BY <1>4, <1>6, <1>8 DEF Joins, Losing
  <1>10. Watched(y, stalled')
    BY <1>8 DEF Watched
  <1>11. faults' \in 0..MaxFaults /\ up' \in BOOLEAN /\ stalled' \in BOOLEAN
    BY <1>1, GoodManager, AgentAssumption DEF AgentInv, TypeOK
  <1>12. QED
    BY <1>1, <1>3, <1>8, <1>9, <1>10, <1>11, FollowingStep

Recancelled(q, s, outcome) == [q EXCEPT ![s].cancelled = @ \/ outcome = "cancelled"]

\* A cancellation leaves the statuses.
LEMMA RecancelledFields ==
  ASSUME NEW q \in Seq(Submission), NEW s \in DOMAIN q, NEW outcome,
         NEW p, p = Recancelled(q, s, outcome)
  PROVE  /\ p \in Seq(Submission)
         /\ Len(p) = Len(q)
         /\ \A r \in DOMAIN q : p[r].status = q[r].status
  <1>1. s \in 1..Len(q) /\ q[s] \in Submission
    OBVIOUS
  <1>2. PICK d \in Submission : d = q[s]
    BY <1>1
  <1>3. PICK k \in BOOLEAN : k = (d.cancelled \/ outcome = "cancelled")
    OBVIOUS
  <1>4. PICK e : e = [d EXCEPT !.cancelled = k]
    OBVIOUS
  <1>5. e \in Submission /\ e.status = d.status
    BY <1>4 DEF Submission
  <1>6. p = [q EXCEPT ![s] = e]
    BY <1>2, <1>3, <1>4 DEF Recancelled
  <1>7. p \in Seq(Submission) /\ Len(p) = Len(q)
    BY <1>1, <1>5, <1>6, ExceptSeq
  <1>8. QED
    BY <1>1, <1>2, <1>5, <1>6, <1>7

\* The input that was answered.
LEMMA AnsweredFields ==
  ASSUME NEW x \in Manager, NEW s \in Inputs, s \in DOMAIN x.subs,
         x.run[s].conn \in Connections, NEW outcome,
         NEW v, v = IF outcome = "completed" THEN "completed" ELSE "failed",
         NEW y, y = Answered(x, s, outcome)
  PROVE  /\ Leaves(x, y, s, v, "idle", "none", NoConnection)
         /\ StaysOn(x, y)
  <1>1. PICK z : z = Ended(x, s)
    OBVIOUS
  <1>2. Reseated(x, z, s, "none", NoConnection)
    BY <1>1, RestedFields DEF Ended
  <1>3. PICK w : w = Finished(z, x.run[s].conn)
    OBVIOUS
  <1>4. Turned(z, w)
    <2>1. z \in Manager
      BY <1>2 DEF Reseated
    <2>2. QED
      BY <1>3, <2>1, FinishedTurns
  <1>5. w \in Manager /\ w.subs = x.subs /\ x.subs \in Seq(Submission)
    BY <1>2, <1>4 DEF Reseated, Turned, Manager
  <1>6. PICK p : p = MarkedAs(x.subs, s, v)
    OBVIOUS
  <1>7. /\ p \in Seq(Submission) /\ Len(p) = Len(x.subs) /\ DOMAIN p = DOMAIN x.subs
        /\ \A r \in DOMAIN x.subs : p[r].status = IF r = s THEN v ELSE x.subs[r].status
    <2>1. v \in Statuses
      BY DEF Statuses
    <2>2. QED
      BY <1>5, <1>6, <2>1, Marked
  <1>9. PICK q : q = Recancelled(p, s, outcome)
    OBVIOUS
  <1>10. /\ q \in Seq(Submission) /\ Len(q) = Len(x.subs)
         /\ \A r \in DOMAIN x.subs : q[r].status = IF r = s THEN v ELSE x.subs[r].status
    BY <1>7, <1>9, RecancelledFields
  <1>11. y = [w EXCEPT !.subs[s].status = v,
                       !.subs[s].cancelled = @ \/ outcome = "cancelled",
                       !.phase = "idle"]
    BY <1>1, <1>3 DEF Answered
  <1>12. y.subs = q
    BY <1>5, <1>6, <1>9, <1>11 DEF MarkedAs, Recancelled, Manager
  <1>13. y \in Manager
    BY <1>5, <1>10, <1>11, <1>12 DEF Manager, Phases
  <1>14. /\ y.phase = "idle" /\ y.run = w.run
         /\ y.receipts = w.receipts
         /\ y.configuring = w.configuring /\ y.choice = w.choice
         /\ y.active = w.active /\ y.state = w.state
         /\ y.retiring = w.retiring /\ y.closing = w.closing
    BY <1>5, <1>11 DEF Manager
  <1>15. QED
    BY <1>2, <1>4, <1>10, <1>12, <1>13, <1>14 DEF Leaves, StaysOn, Reseated, Turned

\* A request is answered.
LEMMA AnswerStep ==
  ASSUME AgentInv, NEW s \in Inputs, NEW outcome, Answer(s, outcome)
  PROVE  StepOK
  <1>1. /\ up /\ m.run[s].at = "prompting"
        /\ UNCHANGED <<up, removal, faults, stalled>>
    BY DEF Answer, Undisturbed
  <1>2. m \in Manager /\ Core(m) /\ Seats(m) /\ Joins(m) /\ TurningIn(m, s)
    BY <1>1 DEF AgentInv, TurningIn, Core
  <1>3. m.run[s].conn \in Connections
    BY <1>2 DEF Seats, Manager, SomeConnection
  <1>4. CASE removal = "no"
    <2>1. PICK v : v = IF outcome = "completed" THEN "completed" ELSE "failed"
      OBVIOUS
    <2>2. PICK x : x = Answered(m, s, outcome)
      OBVIOUS
    <2>3. PICK y : y = Drained(x)
      OBVIOUS
    <2>4. Save(y)
      BY <1>4, <2>2, <2>3 DEF Answer
    <2>5. Books(m) /\ s \in Running(m) /\ s \in DOMAIN m.subs
      BY <1>1, <1>2, <1>4 DEF AgentInv, Books, Running
    <2>6. Leaves(m, x, s, v, "idle", "none", NoConnection) /\ StaysOn(m, x)
      BY <1>2, <1>3, <2>1, <2>2, <2>5, AnsweredFields
    <2>7. Good(x) /\ Follows(m, x) /\ Keeps(m, x) /\ Joins(x)
      <3>1. v \in {"completed", "failed"}
        BY <2>1
      <3>2. QED
        BY <1>2, <1>4, <2>5, <2>6, <3>1, LeftSound
    <2>8. Good(y) /\ Drains(x, y) /\ Joins(y) /\ Tended(y)
      BY <1>4, <2>3, <2>7, DrainedSound
    <2>9. Follows(m, y) /\ Keeps(m, y)
      BY <1>2, <2>7, <2>8, FollowsTransitive, KeepsTransitive DEF Drains, Good
    <2>10. Watched(y, stalled')
      BY <2>8 DEF Watched, Tended
    <2>11. QED
      BY <1>1, <2>4, <2>8, <2>9, <2>10, Unchanging, FollowingStep
  <1>5. CASE removal # "no"
    <2>1. PICK y : y = Ended(m, s)
      OBVIOUS
    <2>2. Forget(y)
      BY <1>5, <2>1 DEF Answer
    <2>3. Reseated(m, y, s, "none", NoConnection)
      BY <1>2, <2>1, RestedFields DEF Ended
    <2>4. Good(y) /\ Follows(m, y) /\ Joins(y)
      BY <1>2, <1>5, <2>3, RestedSound
    <2>5. QED
      BY <1>1, <1>5, <2>2, <2>4, Unchanging, FollowingStep
  <1>6. QED
    BY <1>4, <1>5

-----------------------------------------------------------------------------
(* Connections that are closed. *)

\* A closed connection leaves its failed run at rest.
LEMMA RetiredSound ==
  ASSUME AgentInv, up, m.retiring, NEW x, x = Retired(m)
  PROVE  /\ Good(x)
         /\ Follows(m, x) /\ Keeps(m, x)
         /\ ~x.retiring
         /\ x.configuring = m.configuring /\ m.configuring # "starting"
  <1>1. m \in Manager /\ Core(m) /\ Seats(m) /\ Joins(m) /\ m.active = NoConnection
    BY DEF AgentInv, Core
  <1>2. PICK st : st = [c \in Connections |-> IF c = m.closing THEN "closed" ELSE m.state[c]]
    OBVIOUS
  <1>3. PICK ru : ru = [s \in Inputs |-> IF m.run[s].at = "failing" THEN AtRest ELSE m.run[s]]
    OBVIOUS
  <1>4. x = [m EXCEPT !.retiring = FALSE, !.closing = NoConnection, !.state = st, !.run = ru]
    BY <1>2, <1>3 DEF Retired
  <1>5. st \in [Connections -> {"starting", "open", "broken", "closed"}]
    BY <1>1, <1>2 DEF Manager
  <1>6. ru \in [Inputs -> [at : Stages, conn : SomeConnection]]
    <2>1. AtRest \in [at : Stages, conn : SomeConnection]
      BY DEF AtRest, Stages, SomeConnection
    <2>2. QED
      BY <1>1, <1>3, <2>1 DEF Manager
  <1>7. /\ x \in Manager
        /\ x.phase = m.phase /\ x.subs = m.subs /\ x.receipts = m.receipts
        /\ x.active = NoConnection /\ x.state = st
        /\ ~x.retiring /\ x.closing = NoConnection
        /\ x.run = ru
        /\ x.configuring = m.configuring /\ x.choice = m.choice
    BY <1>1, <1>4, <1>5, <1>6 DEF Manager, SomeConnection
  <1>8. \A s \in Inputs : ~TurningIn(m, s)
    BY <1>1 DEF Seats
  <1>9. \A s \in Inputs : x.run[s] = AtRest \/ (x.run[s] = m.run[s] /\ m.run[s].at # "failing")
    BY <1>3, <1>7
  <1>10. \A s \in Inputs : ~TurningIn(x, s) /\ x.run[s].at # "failing"
                           /\ (x.run[s].at = "none" => x.run[s].conn = NoConnection)
    BY <1>1, <1>8, <1>9 DEF TurningIn, AtRest, Core
  <1>11. \A c \in Connections : x.state[c] = "closed"
    BY <1>1, <1>2, <1>7, AgentAssumption DEF Core
  <1>12. Queued(x) = Queued(m) /\ Running(x) = Running(m) /\ Busy(x) = Busy(m)
    BY <1>7 DEF Queued, Running, Busy
  <1>13. Core(x)
    BY <1>1, <1>7, <1>10, <1>11 DEF Core
  <1>14. Seats(x)
    BY <1>10 DEF Seats
  <1>15. removal = "no" => Books(x)
    BY <1>8, <1>10, <1>12 DEF AgentInv, Books
  <1>16. Follows(m, x) /\ Keeps(m, x)
    BY <1>7, <1>12 DEF Follows, Keeps
  <1>17. m.configuring # "starting"
    BY <1>1, AgentAssumption DEF Core, Joins
  <1>18. QED
    BY <1>7, <1>13, <1>14, <1>15, <1>16, <1>17 DEF Good

\* retire() is done.
LEMMA ClosedStep ==
  ASSUME AgentInv, Closed
  PROVE  StepOK
  <1>1. up /\ m.retiring /\ UNCHANGED <<up, removal, faults, stalled>> /\ Core(m)
    BY DEF Closed, Undisturbed, AgentInv
  <1>2. PICK x : x = Retired(m)
    OBVIOUS
  <1>3. /\ Good(x)
        /\ Follows(m, x) /\ Keeps(m, x)
        /\ ~x.retiring
        /\ x.configuring = m.configuring /\ m.configuring # "starting"
    BY <1>1, <1>2, RetiredSound
  <1>4. PICK z : z = Drained(x)
    OBVIOUS
  <1>5. /\ Good(z) /\ Drains(x, z)
        /\ z.configuring = x.configuring
        /\ removal = "no" => Tended(z)
    BY <1>3, <1>4, DrainedSound
  <1>6. Follows(m, z) /\ Keeps(m, z) /\ ~z.retiring
    BY <1>1, <1>3, <1>5, FollowsTransitive, KeepsTransitive DEF Drains, Good
  <1>7. CASE m.configuring = "parked"
    <2>1. PICK y : y = Connecting(z)
      OBVIOUS
    <2>2. Save(y)
      BY <1>2, <1>4, <1>7, <2>1 DEF Closed
    <2>3. /\ Good(y) /\ Joins(y)
          /\ Follows(z, y) /\ Keeps(z, y)
          /\ y.retiring = z.retiring
          /\ removal = "no" => Joined(z, y)
      BY <1>5, <1>6, <2>1, ConnectingSound
    <2>4. Follows(m, y) /\ Keeps(m, y)
      BY <1>1, <1>5, <1>6, <2>3, FollowsTransitive, KeepsTransitive DEF Good
    <2>5. removal = "no" => Watched(y, stalled')
      BY <1>5, <2>3 DEF Watched, Joined, Tended
    <2>6. QED
      BY <1>1, <2>2, <2>3, <2>4, <2>5, Unchanging, FollowingStep
  <1>8. CASE m.configuring # "parked"
    <2>1. Save(z)
      BY <1>2, <1>4, <1>8 DEF Closed
    <2>2. Joins(z)
      BY <1>3, <1>5, <1>8 DEF Joins
    <2>3. removal = "no" => Watched(z, stalled')
      BY <1>5 DEF Watched, Tended
    <2>4. QED
      BY <1>1, <1>5, <1>6, <2>1, <2>2, <2>3, Unchanging, FollowingStep
  <1>9. QED
    BY <1>7, <1>8

-----------------------------------------------------------------------------
(* Connections that are lost. *)

\* What settling writes keeps the outcomes the file has.
LEMMA RecordSound ==
  ASSUME NEW x, Core(x), Receipted(x), Kept(x, file),
         NEW z, z = Settled(x), NEW g, g = SavedRecord(z)
  PROVE  /\ g \in Record /\ Len(g.subs) <= MaxInputs
         /\ Receipted(z) /\ Kept(z, g) /\ Kept(z, file)
         /\ Receipted(g) /\ Final(file, g)
  <1>1. Core(z)
    BY SettledSound
  <1>2. /\ Receipted(z)
        /\ \A o \in Operations :
               x.receipts[o].outcome # "open" => z.receipts[o] = x.receipts[o]
    BY SettledReceipts
  <1>3. g \in Record /\ g.subs = z.subs /\ g.receipts = z.receipts
    BY <1>1, SavedRecordFields
  <1>4. Receipted(g) /\ Len(g.subs) <= MaxInputs /\ Kept(z, g)
    BY <1>1, <1>2, <1>3 DEF Receipted, Core, Kept
  <1>5. Kept(z, file)
    BY <1>2 DEF Kept
  <1>6. Final(file, g)
    BY <1>3, <1>4, <1>5 DEF Final, Kept, Receipted
  <1>7. QED
    BY <1>2, <1>3, <1>4, <1>5, <1>6

\* y is m without the connection c.
ClosedOff(y, c) ==
    /\ y \in Manager
    /\ y.subs = m.subs /\ y.receipts = m.receipts
    /\ y.active = IF m.active = c THEN NoConnection ELSE m.active
    /\ y.state = [m.state EXCEPT ![c] = "closed"]
    /\ y.retiring = m.retiring /\ y.closing = m.closing
    /\ y.run = m.run
    /\ y.configuring = m.configuring /\ y.choice = m.choice

\* The run that has its turn has it on the connection that is lost.
LEMMA ClosedOffSound ==
  ASSUME AgentInv, Undisturbed, NEW c \in Connections,
         m.active = c \/ m.state[c] # "closed",
         NEW x, ClosedOff(x, c)
  PROVE  /\ Core(x)
         /\ removal = "no" => Ledger(x)
         /\ Follows(m, x) /\ Keeps(m, x)
         /\ \A s \in Inputs : TurningIn(x, s) =>
                x.run[s].conn = c /\ x.run[s].at # "ready" /\ Losing(x, c)
  <1>1. up /\ Core(m) /\ Seats(m) /\ \A s \in Inputs : m.run[s].at # "ready"
    BY DEF AgentInv, Undisturbed
  <1>2. \A d \in Connections : x.state[d] = IF d = c THEN "closed" ELSE m.state[d]
    BY <1>1 DEF ClosedOff, Core, Manager
  <1>3. /\ Queued(x) = Queued(m) /\ Running(x) = Running(m)
        /\ \A s \in Inputs : TurningIn(x, s) <=> TurningIn(m, s)
    BY DEF ClosedOff, Queued, Running, TurningIn
  <1>4. Core(x)
    BY <1>1, <1>2, <1>3 DEF Core, ClosedOff
  <1>5. removal = "no" => Ledger(x)
    BY <1>1, <1>3 DEF AgentInv, Books, Ledger
  <1>6. Follows(m, x) /\ Keeps(m, x)
    BY <1>3 DEF Follows, Keeps, ClosedOff
  <1>7. ASSUME NEW s \in Inputs, TurningIn(m, s)
        PROVE  m.run[s].conn = c /\ Losing(x, c)
    <2>1. m.active # NoConnection /\ m.run[s].conn = m.active
      BY <1>1, <1>7 DEF Seats
    <2>2. ~m.retiring /\ m.closing = NoConnection
      BY <1>1, <2>1 DEF Core
    <2>3. \A d \in Connections : m.state[d] # "closed" => d = m.active
      BY <1>1, <2>2, AgentAssumption DEF Core
    <2>4. m.active = c
      BY <2>3
    <2>5. Losing(x, c)
      BY <1>1, <1>2, <2>2, <2>3, <2>4 DEF Losing, ClosedOff
    <2>6. QED
      BY <2>1, <2>4, <2>5
  <1>8. QED
    BY <1>1, <1>3, <1>4, <1>5, <1>6, <1>7 DEF ClosedOff

\* Settled or not, what waits on it is rejected.
LEMMA LostConnection ==
  ASSUME AgentInv, Undisturbed, NEW c \in Connections,
         m.active = c \/ m.state[c] # "closed",
         NEW x, ClosedOff(x, c), NEW g, g = x \/ g = Settled(x),
         NEW z, z = FailedOn(g, c)
  PROVE  /\ Good(z)
         /\ Follows(g, z)
         /\ removal = "no" => Keeps(g, z)
         /\ Core(g) /\ Queued(g) = Queued(m) /\ Running(g) = Running(m)
         /\ z.configuring = m.configuring
         /\ m.retiring => z.retiring
         /\ Waiting(m, c, {"starting", "prompting"}) # {} => z.retiring
  <1>1. /\ Core(x)
        /\ removal = "no" => Ledger(x)
        /\ \A s \in Inputs : TurningIn(x, s) =>
               x.run[s].conn = c /\ x.run[s].at # "ready" /\ Losing(x, c)
    BY ClosedOffSound
  <1>2. /\ Core(g) /\ g.subs = x.subs /\ g.run = x.run /\ g.state = x.state
        /\ g.retiring = x.retiring /\ g.configuring = x.configuring
    BY <1>1, SettledFields, SettledSound DEF Core
  <1>3. removal = "no" => Ledger(g)
    BY <1>1, <1>2 DEF Ledger, TurningIn, Running
  <1>4. \A s \in Inputs : TurningIn(g, s) =>
            g.run[s].conn = c /\ g.run[s].at # "ready" /\ Losing(g, c)
    BY <1>1, <1>2 DEF TurningIn, Losing
  <1>5. /\ Good(z)
        /\ Follows(g, z)
        /\ removal = "no" => Keeps(g, z)
        /\ z.configuring = g.configuring
        /\ Waiting(g, c, {"starting", "prompting"}) = {} => z = g
        /\ Waiting(g, c, {"starting", "prompting"}) # {} => z.retiring
    BY <1>2, <1>3, <1>4, FailedOnSound
  <1>6. Waiting(g, c, {"starting", "prompting"}) = Waiting(m, c, {"starting", "prompting"})
    BY <1>2 DEF Waiting, ClosedOff
  <1>7. Queued(g) = Queued(m) /\ Running(g) = Running(m)
    BY <1>2 DEF ClosedOff, Queued, Running
  <1>8. QED
    BY <1>2, <1>5, <1>6, <1>7 DEF ClosedOff

\* onExit
LEMMA ExitFields ==
  ASSUME m \in Manager, NEW c \in Connections, NEW x,
         x = [m EXCEPT !.state[c] = "closed",
                       !.active = IF m.active = c THEN NoConnection ELSE @,
                       !.phase = IF m.active = c THEN "failed" ELSE @]
  PROVE  ClosedOff(x, c)
  BY DEF Manager, ClosedOff, SomeConnection, Phases

\* The process of a connection exits.
LEMMA ExitStep ==
  ASSUME AgentInv, NEW c \in Connections, Exit(c)
  PROVE  StepOK
  <1>1. /\ up /\ m.state[c] # "closed" /\ Undisturbed
        /\ faults < MaxFaults /\ faults' = faults + 1
        /\ stalled' = (stalled \/ (Queued(m) # {} /\ Waiting(m, c, {"starting", "prompting"}) = {}))
        /\ UNCHANGED <<up, removal>>
    BY DEF Exit, Undisturbed
  <1>2. PICK x : x = [m EXCEPT !.state[c] = "closed",
                               !.active = IF m.active = c THEN NoConnection ELSE @,
                               !.phase = IF m.active = c THEN "failed" ELSE @]
    OBVIOUS
  <1>3. PICK g : g = Settled(x)
    OBVIOUS
  <1>4. PICK z : z = FailedOn(g, c)
    OBVIOUS
  <1>5. PICK v : v = IF z.configuring = "starting" /\ m.state[c] = "starting"
                     THEN "none" ELSE z.configuring
    OBVIOUS
  <1>6. PICK y : y = [z EXCEPT !.configuring = v]
    OBVIOUS
  <1>7. PICK r : r = SavedRecord(g)
    OBVIOUS
  <1>8. /\ m' = y
        /\ file' = IF m.active = c /\ removal = "no" THEN r ELSE file
    BY <1>2, <1>3, <1>4, <1>5, <1>6, <1>7 DEF Exit
  <1>9. ClosedOff(x, c)
    BY <1>1, <1>2, GoodManager, ExitFields
  <1>10. /\ Good(z)
         /\ Follows(g, z)
         /\ removal = "no" => Keeps(g, z)
         /\ Core(g) /\ Queued(g) = Queued(m) /\ Running(g) = Running(m)
         /\ z.configuring = m.configuring
         /\ m.retiring => z.retiring
         /\ Waiting(m, c, {"starting", "prompting"}) # {} => z.retiring
    BY <1>1, <1>3, <1>4, <1>9, LostConnection
  <1>11. v \in {"none", "parked"} /\ (v = "parked" => z.retiring)
    <2>1. m.configuring \in {"none", "parked", "starting"} /\ Core(m) /\ Joins(m)
      BY <1>1, GoodManager DEF AgentInv, Manager
    <2>2. m.configuring = "starting" => m.state[c] = "starting"
      <3>1. ASSUME NEW d \in Connections, m.state[d] = "starting"
            PROVE  c = d
        BY <1>1, <3>1, StartingFacts
      <3>2. QED
        BY <2>1, <3>1 DEF Joins
    <2>3. QED
      BY <1>5, <1>10, <2>1, <2>2 DEF Joins
  <1>12. /\ Good(y) /\ Joins(y)
         /\ Follows(z, y) /\ Keeps(z, y)
         /\ y.retiring = z.retiring
    BY <1>6, <1>10, <1>11, UnjoinedSound
  <1>13. Follows(g, y)
    BY <1>10, <1>12, FollowsTransitive
  <1>14. Orderly(m, y)
    BY <1>10, <1>13 DEF Orderly, Follows
  <1>15. /\ file' \in Record /\ Len(file'.subs) <= MaxInputs
         /\ Receipted(file') /\ Final(file, file')
         /\ removal = "no" => Receipted(y) /\ Kept(y, file')
    <2>1. /\ file \in Record /\ Len(file.subs) <= MaxInputs
          /\ Receipted(file) /\ Final(file, file)
      BY FinalReflexive DEF AgentInv, TypeOK
    <2>2. CASE removal # "no"
      BY <1>8, <2>1, <2>2
    <2>3. CASE removal = "no"
      <3>1. Core(m) /\ Receipted(m) /\ Kept(m, file)
        BY <1>1, <2>3 DEF AgentInv
      <3>2. Core(x) /\ Follows(m, x) /\ Keeps(m, x)
        BY <1>1, <1>9, ClosedOffSound
      <3>3. Receipted(x) /\ Kept(x, file)
        BY <3>1, <3>2, FollowsReceipts
      <3>4. /\ r \in Record /\ Len(r.subs) <= MaxInputs
            /\ Receipted(g) /\ Kept(g, r) /\ Kept(g, file)
            /\ Receipted(r) /\ Final(file, r)
        BY <1>3, <1>7, <3>2, <3>3, RecordSound
      <3>5. Core(y) /\ Keeps(g, y)
        BY <1>10, <1>12, <2>3, KeepsTransitive DEF Good
      <3>6. Receipted(y) /\ Kept(y, r) /\ Kept(y, file)
        BY <1>10, <1>13, <3>4, <3>5, FollowsReceipts
      <3>7. QED
        BY <1>8, <2>1, <3>4, <3>6
    <2>4. QED
      BY <2>2, <2>3
  <1>16. Results(y, m', file, file')
    BY <1>8, <1>12, <1>15 DEF Results, Good
  <1>17. Watched(y, stalled')
    <2>1. Queued(y) \subseteq Queued(m)
      BY <1>10, <1>13 DEF Follows
    <2>2. QED
      BY <1>1, <1>10, <1>12, <2>1 DEF Watched
  <1>18. faults' \in 0..MaxFaults /\ up' \in BOOLEAN /\ stalled' \in BOOLEAN
    BY <1>1, GoodManager, AgentAssumption DEF AgentInv, TypeOK
  <1>19. QED
    BY <1>1, <1>14, <1>16, <1>17, <1>18, StepSound

-----------------------------------------------------------------------------
(* The removal of a Thread. *)

\* remove() is asked for,
LEMMA RemoveStep ==
  ASSUME AgentInv, Remove
  PROVE  StepOK
  <1>1. removal' = "asked" /\ UNCHANGED <<up, m, file, faults, stalled>>
    BY DEF Remove
  <1>2. AgentInv'
    BY <1>1 DEF AgentInv, TypeOK, Core, Seats, Joins, Receipted, TurningIn
  <1>3. QED
    BY <1>1, <1>2, FinalReflexive DEF StepOK, Orderly

\* The file of a Thread that has none.
LEMMA NoFileFields ==
  /\ NoFile \in Record /\ Len(NoFile.subs) <= MaxInputs
  /\ NoFile.subs = <<>> /\ NoFile.receipts = NoReceipts
  /\ Receipted(NoFile)
  <1>1. NoReceipts \in [Operations -> Receipt]
    BY DEF NoReceipts, Receipt, Outcomes
  <1>2. NoFile.subs = <<>> /\ NoFile.receipts = NoReceipts
    BY DEF NoFile
  <1>3. NoFile \in Record
    BY <1>1 DEF NoFile, Record, Phases
  <1>4. Receipted(NoFile)
    BY <1>2 DEF Receipted, NoReceipts
  <1>5. QED
    BY <1>2, <1>3, <1>4, AgentAssumption

\* A Thread that is being removed, with what its connection leaves behind.
LEMMA RemovingStep ==
  ASSUME AgentInv, removal' # "no", removal' \in {"asked", "closing", "done"},
         Core(m'), Seats(m'), Joins(m'), Orderly(m, m'),
         UNCHANGED <<up, faults, stalled>>,
         file' = file \/ file' = NoFile
  PROVE  StepOK
  <1>1. /\ NoFile \in Record /\ Len(NoFile.subs) <= MaxInputs /\ Receipted(NoFile)
    BY NoFileFields
  <1>2. TypeOK'
    BY <1>1 DEF AgentInv, TypeOK, Core
  <1>3. AgentInv'
    BY <1>1, <1>2 DEF AgentInv, TypeOK
  <1>4. QED
    BY <1>3, FinalReflexive DEF StepOK

\* ... closes the connection,
LEMMA RemoveClosesStep ==
  ASSUME AgentInv, RemoveCloses
  PROVE  StepOK
  <1>1. /\ Undisturbed /\ removal = "asked" /\ removal' = "closing"
        /\ UNCHANGED <<up, faults, stalled>>
    BY DEF RemoveCloses
  <1>2. up /\ Core(m) /\ Seats(m) /\ Joins(m) /\ m \in Manager /\ Orderly(m, m)
    BY <1>1, GoodManager DEF AgentInv, Undisturbed
  <1>3. CASE m.active = NoConnection
    <2>1. m' = m /\ file' = file
      BY <1>3 DEF RemoveCloses, Forget
    <2>2. QED
      BY <1>1, <1>2, <2>1, RemovingStep
  <1>4. CASE m.active # NoConnection
    <2>1. PICK c \in Connections : c = m.active
      BY <1>2, <1>4 DEF Manager, SomeConnection
    <2>2. PICK x : x = [m EXCEPT !.active = NoConnection, !.state[c] = "closed"]
      OBVIOUS
    <2>3. PICK z : z = FailedOn(x, c)
      OBVIOUS
    <2>4. PICK y : y = [z EXCEPT !.configuring = "none"]
      OBVIOUS
    <2>5. m' = y /\ file' = file
      BY <1>4, <2>1, <2>2, <2>3, <2>4 DEF RemoveCloses, Forget
    <2>6. ClosedOff(x, c)
      BY <1>2, <2>1, <2>2 DEF Manager, ClosedOff, SomeConnection
    <2>7. Good(z) /\ Follows(x, z) /\ Queued(x) = Queued(m) /\ Running(x) = Running(m)
      BY <1>1, <2>1, <2>3, <2>6, LostConnection
    <2>8. Good(y) /\ Joins(y) /\ Follows(z, y)
      BY <2>4, <2>7, UnjoinedSound
    <2>9. Follows(x, y)
      BY <2>7, <2>8, FollowsTransitive
    <2>10. Orderly(m, y)
      BY <2>7, <2>9 DEF Orderly, Follows
    <2>11. QED
      BY <1>1, <2>5, <2>8, <2>10, RemovingStep DEF Good
  <1>5. QED
    BY <1>3, <1>4

\* ... and deletes the file.
LEMMA RemoveDoneStep ==
  ASSUME AgentInv, RemoveDone
  PROVE  StepOK
  <1>1. /\ up /\ removal' = "done" /\ file' = NoFile
        /\ UNCHANGED <<up, m, faults, stalled>>
    BY DEF RemoveDone
  <1>2. Core(m) /\ Seats(m) /\ Joins(m) /\ Orderly(m, m)
    BY <1>1, GoodManager DEF AgentInv
  <1>3. QED
    BY <1>1, <1>2, RemovingStep

-----------------------------------------------------------------------------
(* Restarts. *)

\* A record that was read has no connection and no turn.
LEMMA LoadedSound ==
  ASSUME NEW r \in Record, Len(r.subs) <= MaxInputs, NEW x, x = Loaded(r)
  PROVE  /\ Core(x) /\ Seats(x) /\ Joins(x)
         /\ x.phase = r.phase /\ x.subs = r.subs /\ x.receipts = r.receipts
         /\ ~x.retiring /\ x.configuring = "none" /\ x.choice = FALSE
         /\ \A s \in Inputs : ~TurningIn(x, s)
  <1>1. /\ x.phase = r.phase /\ x.subs = r.subs /\ x.receipts = r.receipts
        /\ x.active = NoConnection
        /\ x.state = [c \in Connections |-> "closed"]
        /\ x.retiring = FALSE /\ x.closing = NoConnection
        /\ x.run = [s \in Inputs |-> AtRest]
        /\ x.configuring = "none" /\ x.choice = FALSE
    BY DEF Loaded
  <1>2. x \in Manager
    <2>1. /\ r.phase \in Phases /\ r.subs \in Seq(Submission)
          /\ r.receipts \in [Operations -> Receipt]
      BY DEF Record
    <2>2. [c \in Connections |-> "idle"] \in [Connections -> Turns]
      BY DEF Turns
    <2>3. [s \in Inputs |-> AtRest] \in [Inputs -> [at : Stages, conn : SomeConnection]]
      BY DEF AtRest, Stages, SomeConnection
    <2>4. NoConnection \in SomeConnection
      BY DEF SomeConnection
    <2>5. [c \in Connections |-> "closed"]
              \in [Connections -> {"starting", "open", "broken", "closed"}]
      OBVIOUS
    <2>6. QED
      BY <2>1, <2>2, <2>3, <2>4, <2>5 DEF Loaded, Manager
  <1>3. \A s \in Inputs : x.run[s].at = "none" /\ x.run[s].conn = NoConnection
    BY <1>1 DEF AtRest
  <1>4. \A s \in Inputs : ~TurningIn(x, s)
    BY <1>3 DEF TurningIn
  <1>5. Core(x)
    BY <1>1, <1>2, <1>3, <1>4 DEF Core
  <1>6. Seats(x) /\ Joins(x)
    BY <1>1, <1>4 DEF Seats, Joins
  <1>7. QED
    BY <1>1, <1>4, <1>5, <1>6

\* The daemon dies,
LEMMA CrashStep ==
  ASSUME AgentInv, Crash
  PROVE  StepOK
  <1>1. /\ up' = FALSE /\ m' = Loaded(NoFile) /\ file' = file /\ stalled' = FALSE
        /\ removal' = IF removal = "done" THEN removal ELSE "no"
        /\ faults < MaxFaults /\ faults' = faults + 1
    BY DEF Crash
  <1>2. /\ Core(m') /\ Seats(m') /\ Joins(m') /\ m'.subs = <<>>
    BY <1>1, NoFileFields, LoadedSound
  <1>3. removal' \in {"no", "asked", "closing", "done"}
    BY <1>1
  <1>4. faults' \in 0..MaxFaults
    BY <1>1, AgentAssumption DEF AgentInv, TypeOK
  <1>5. AgentInv'
    BY <1>1, <1>2, <1>3, <1>4 DEF AgentInv, TypeOK, Core
  <1>6. Orderly(m, m')
    BY <1>2 DEF Orderly, Running
  <1>7. QED
    BY <1>1, <1>5, <1>6, FinalReflexive DEF StepOK

RequeuedAs(r, v) ==
    [s \in DOMAIN r.subs |-> IF s \in Unsettled(r) THEN [r.subs[s] EXCEPT !.status = v]
                                                   ELSE r.subs[s]]

\* What a daemon makes of the record an earlier one left: nothing runs,
\* and what was answered stays answered.
LEMMA RecoveredSound ==
  ASSUME NEW f \in Record, Len(f.subs) <= MaxInputs, NEW r, r = Recovered(f)
  PROVE  /\ r \in Record /\ Len(r.subs) = Len(f.subs) /\ DOMAIN r.subs = DOMAIN f.subs
         /\ r.receipts = f.receipts
         /\ Running(r) = {}
         /\ Keeps(f, r)
  <1>1. CASE ~(Busy(f) \/ Unsettled(f) # {})
    <2>1. r = f /\ Running(f) = {}
      BY <1>1 DEF Recovered, Unsettled
    <2>2. QED
      BY <2>1 DEF Keeps
  <1>2. CASE Busy(f) \/ Unsettled(f) # {}
    <2>1. PICK v \in {"queued", "failed"} : v = IF Durable THEN "queued" ELSE "failed"
      OBVIOUS
    <2>2. PICK q : q = RequeuedAs(f, v)
      OBVIOUS
    <2>3. PICK p \in {"idle", "failed"} : p = IF Durable THEN "idle" ELSE "failed"
      OBVIOUS
    <2>4. r = [f EXCEPT !.phase = p, !.subs = q]
      BY <1>2, <2>1, <2>2, <2>3 DEF Recovered, RequeuedAs
    <2>5. f.subs \in Seq(Submission)
      BY DEF Record
    <2>6. PICK n \in Nat : n = Len(f.subs)
      BY <2>5
    <2>7. DOMAIN f.subs = 1..n /\ \A s \in 1..n : f.subs[s] \in Submission
      BY <2>5, <2>6
    <2>8. \A s \in 1..n :
              /\ q[s] \in Submission
              /\ q[s].status = IF s \in Unsettled(f) THEN v ELSE f.subs[s].status
      <3>1. SUFFICES ASSUME NEW s \in 1..n
                     PROVE  /\ q[s] \in Submission
                            /\ q[s].status = IF s \in Unsettled(f) THEN v ELSE f.subs[s].status
        OBVIOUS
      <3>2. PICK e \in Submission : e = f.subs[s]
        BY <2>7
      <3>3. q[s] = IF s \in Unsettled(f) THEN [e EXCEPT !.status = v] ELSE e
        BY <2>2, <2>7, <3>2 DEF RequeuedAs
      <3>4. [e EXCEPT !.status = v] \in Submission /\ [e EXCEPT !.status = v].status = v
        BY DEF Submission, Statuses
      <3>5. QED
        BY <3>2, <3>3, <3>4
    <2>9. q \in Seq(Submission) /\ Len(q) = n /\ DOMAIN q = 1..n
      <3>1. q = [s \in 1..n |-> q[s]]
        BY <2>2, <2>7 DEF RequeuedAs
      <3>2. QED
        BY <2>8, <3>1
    <2>10. /\ r \in Record /\ r.subs = q /\ r.receipts = f.receipts
      BY <2>4, <2>9 DEF Record, Phases
    <2>11. Running(r) = {}
      <3>1. \A s \in 1..n : s \notin Unsettled(f) => f.subs[s].status # "running"
        BY <2>7 DEF Unsettled, Running
      <3>2. QED
        BY <2>8, <2>9, <2>10, <3>1 DEF Running
    <2>12. Keeps(f, r)
      BY <2>7, <2>8, <2>10 DEF Keeps, Unsettled, Queued, Running
    <2>13. QED
      BY <2>6, <2>7, <2>9, <2>10, <2>11, <2>12
  <1>3. QED
    BY <1>1, <1>2

\* ... and comes back.
LEMMA RestartStep ==
  ASSUME AgentInv, Restart
  PROVE  StepOK
  <1>1. /\ removal = "no" /\ up' = TRUE
        /\ UNCHANGED <<file, removal, faults, stalled>>
    BY DEF Restart
  <1>2. PICK r : r = Recovered(file)
    OBVIOUS
  <1>3. PICK x : x = Loaded(r)
    OBVIOUS
  <1>4. PICK g : g = Settled(x)
    OBVIOUS
  <1>5. PICK y : y = Resumed(g)
    OBVIOUS
  <1>6. m' = y
    BY <1>2, <1>3, <1>4, <1>5 DEF Restart
  <1>7. file \in Record /\ Len(file.subs) <= MaxInputs /\ Receipted(file)
    BY DEF AgentInv, TypeOK
  <1>8. /\ r \in Record /\ Len(r.subs) = Len(file.subs) /\ DOMAIN r.subs = DOMAIN file.subs
        /\ r.receipts = file.receipts
        /\ Running(r) = {}
        /\ Keeps(file, r)
    BY <1>2, <1>7, RecoveredSound
  <1>9. /\ Core(x) /\ Seats(x) /\ Joins(x)
        /\ x.subs = r.subs /\ x.receipts = r.receipts
        /\ ~x.retiring /\ x.configuring = "none" /\ x.choice = FALSE
        /\ \A s \in Inputs : ~TurningIn(x, s)
    BY <1>3, <1>7, <1>8, LoadedSound
  <1>10. Running(x) = {}
    BY <1>8, <1>9 DEF Running
  <1>11. Books(x)
    BY <1>9, <1>10 DEF Books
  <1>12. Receipted(x) /\ Kept(x, file)
    BY <1>7, <1>8, <1>9 DEF Receipted, Kept, Keeps
  <1>13. /\ Core(g) /\ Seats(g) /\ Joins(g) /\ Books(g)
         /\ Running(g) = {}
         /\ ~g.retiring /\ g.choice = FALSE
    BY <1>4, <1>9, <1>10, <1>11, SettledSound
  <1>14. Good(g)
    BY <1>13 DEF Good
  <1>15. Receipted(g) /\ Kept(g, file)
    <2>1. PICK h : h = SavedRecord(g)
      OBVIOUS
    <2>2. QED
      BY <1>4, <1>9, <1>12, <2>1, RecordSound
  <1>16. /\ Good(y) /\ Joins(y)
         /\ Follows(g, y) /\ Keeps(g, y)
         /\ Watched(y, stalled)
    <2>1. CASE Queued(g) = {}
      <3>1. y = g
        BY <1>5, <2>1 DEF Resumed
      <3>2. QED
        BY <1>13, <1>14, <2>1, <3>1, Reflexive DEF Watched
    <2>2. CASE Queued(g) # {}
      <3>1. y = Connecting(g)
        BY <1>5, <2>2 DEF Resumed
      <3>2. /\ Good(y) /\ Joins(y)
            /\ Follows(g, y) /\ Keeps(g, y)
            /\ Joined(g, y)
        BY <1>1, <1>13, <1>14, <3>1, ConnectingSound
      <3>3. Watched(y, stalled)
        BY <1>13, <3>2 DEF Joined, Watched, Tended
      <3>4. QED
        BY <3>2, <3>3
    <2>3. QED
      BY <2>1, <2>2
  <1>17. Receipted(y) /\ Kept(y, file)
    BY <1>13, <1>15, <1>16, FollowsReceipts DEF Good
  <1>18. Orderly(m, y)
    BY <1>13, <1>16 DEF Orderly, Follows
  <1>19. Books(y) /\ Core(y) /\ Seats(y)
    BY <1>1, <1>16 DEF Good
  <1>20. AgentInv'
    <2>1. TypeOK'
      BY <1>1, <1>6, <1>7, <1>19 DEF AgentInv, TypeOK, Core
    <2>2. QED
      BY <1>1, <1>6, <1>7, <1>16, <1>17, <1>19, <2>1 DEF AgentInv
  <1>21. QED
    BY <1>1, <1>6, <1>18, <1>20, FinalReflexive DEF StepOK

-----------------------------------------------------------------------------
(* The theorems. *)

\* The invariant holds at the start.
LEMMA AgentInvInit ==
  ASSUME Init
  PROVE  AgentInv
  <1>1. /\ up = TRUE /\ m = Loaded(NoFile) /\ file = NoFile /\ removal = "no"
        /\ faults = 0 /\ stalled = FALSE
    BY DEF Init
  <1>2. /\ Core(m) /\ Seats(m) /\ Joins(m)
        /\ m.subs = <<>> /\ m.receipts = NoReceipts
        /\ \A s \in Inputs : ~TurningIn(m, s)
    BY <1>1, NoFileFields, LoadedSound
  <1>3. Queued(m) = {} /\ Running(m) = {}
    BY <1>2 DEF Queued, Running
  <1>4. Books(m) /\ Watched(m, stalled)
    BY <1>2, <1>3 DEF Books, Watched
  <1>5. Receipted(m) /\ Kept(m, file)
    BY <1>1, <1>2, NoFileFields DEF Receipted, Kept, NoReceipts
  <1>6. 0 \in 0..MaxFaults
    BY AgentAssumption
  <1>7. TypeOK
    BY <1>1, <1>2, <1>6, NoFileFields DEF TypeOK, Core
  <1>8. QED
    BY <1>1, <1>2, <1>4, <1>5, <1>7, NoFileFields DEF AgentInv

\* Every action keeps it.
LEMMA AgentInvNext ==
  ASSUME AgentInv, Next
  PROVE  StepOK
  <1>1. ASSUME NEW op \in Batches, NEW n \in 1..2, Prompt(n, op)
        PROVE  StepOK
    BY <1>1, PromptStep DEF Batches
  <1>2. ASSUME NEW op \in Batches, NEW s \in Inputs, Retry(s, op)
        PROVE  StepOK
    BY <1>2, RetryStep DEF Batches
  <1>3. ASSUME NEW o \in Operations, Repeat(o)
        PROVE  StepOK
    BY <1>3, RepeatStep
  <1>4. CASE Cancel
    BY <1>4, CancelStep
  <1>5. CASE Permit
    BY <1>5, PermitStep
  <1>6. CASE Ask
    BY <1>6, AskStep
  <1>7. CASE Closed
    BY <1>7, ClosedStep
  <1>8. ASSUME NEW choice \in BOOLEAN, Configure(choice)
        PROVE  StepOK
    BY <1>8, ConfigureStep
  <1>9. ASSUME NEW c \in Connections, StartResolves(c)
        PROVE  StepOK
    BY <1>9, StartResolvesStep
  <1>10. ASSUME NEW c \in Connections, StartRejects(c)
         PROVE  StepOK
    BY <1>10, StartRejectsStep
  <1>11. ASSUME NEW c \in Connections, Exit(c)
         PROVE  StepOK
    BY <1>11, ExitStep
  <1>12. ASSUME NEW s \in Inputs, Continue(s)
         PROVE  StepOK
    BY <1>12, ContinueStep
  <1>13. ASSUME NEW s \in Inputs, Reject(s)
         PROVE  StepOK
    BY <1>13, RejectStep
  <1>14. ASSUME NEW s \in Inputs, NEW outcome \in {"completed", "cancelled", "incomplete"},
                Answer(s, outcome)
         PROVE  StepOK
    BY <1>14, AnswerStep
  <1>15. CASE Remove
    BY <1>15, RemoveStep
  <1>16. CASE RemoveCloses
    BY <1>16, RemoveClosesStep
  <1>17. CASE RemoveDone
    BY <1>17, RemoveDoneStep
  <1>18. CASE Crash
    BY <1>18, CrashStep
  <1>19. CASE Restart
    BY <1>19, RestartStep
  <1>20. QED
    BY <1>1, <1>2, <1>3, <1>4, <1>5, <1>6, <1>7, <1>8, <1>9, <1>10, <1>11, <1>12, <1>13,
       <1>14, <1>15, <1>16, <1>17, <1>18, <1>19 DEF Next

\* So does a step that changes nothing.
LEMMA AgentInvStutters ==
  ASSUME AgentInv, UNCHANGED vars
  PROVE  AgentInv'
  <1>1. up' = up /\ m' = m /\ file' = file /\ removal' = removal
        /\ faults' = faults /\ stalled' = stalled
    BY DEF vars
  <1>2. TypeOK'
    BY <1>1 DEF AgentInv, TypeOK
  <1>3. QED
    BY <1>1, <1>2 DEF AgentInv

\* The inductive invariant holds in every reachable state.
THEOREM AgentInvariant == Spec => []AgentInv
  <1>1. Init => AgentInv
    BY AgentInvInit
  <1>2. AgentInv /\ [Next]_vars => AgentInv'
    BY AgentInvNext, AgentInvStutters DEF StepOK
  <1>3. QED
    BY <1>1, <1>2, PTL DEF Spec

\* The manager's memory and the Thread's file have the shape of the records
\* of thread-agent.ts, and hold no more inputs than were accepted.
THEOREM AgentTypes == Spec => []TypeOK
  <1>1. AgentInv => TypeOK
    BY DEF AgentInv
  <1>2. QED
    BY <1>1, AgentInvariant, PTL

\* Two inputs of a Thread never have a turn at once, however requests,
\* answers, exits and restarts interleave, and the one that has its turn is
\* the one the record calls running.
THEOREM OneTurn == Spec => []OneTurnAtATime
  <1>1. AgentInv => OneTurnAtATime
    BY DEF AgentInv, Core, Books, TurningIn, OneTurnAtATime, Turning
  <1>2. QED
    BY <1>1, AgentInvariant, PTL

\* A queue that nobody works on waits for a connection that is closed or
\* starts, or is one whose connection failed to start.
THEOREM WatchedQueue == Spec => []QueueIsWatched
  <1>1. AgentInv => QueueIsWatched
    BY DEF AgentInv, Watched, QueueIsWatched
  <1>2. QED
    BY <1>1, AgentInvariant, PTL

\* No harness process is lost: each that runs is in use or being closed.
THEOREM NoLeaks == Spec => []NoConnectionLeaks
  <1>1. AgentInv => NoConnectionLeaks
    BY DEF AgentInv, Core, NoConnectionLeaks
  <1>2. QED
    BY <1>1, AgentInvariant, PTL

\* An input that gets its turn was sent before every input that still waits.
THEOREM InOrder == Spec => StartsInOrder
  <1>1. AgentInv /\ [Next]_vars =>
            [\A s \in Inputs :
                s \in Running(m') /\ (s \in DOMAIN m.subs => s \notin Running(m))
                    => \A r \in Queued(m') : s < r]_m
    <2>1. SUFFICES ASSUME AgentInv, Next, NEW s \in Inputs, s \in Running(m'),
                          s \in DOMAIN m.subs => s \notin Running(m)
                   PROVE  \A r \in Queued(m') : s < r
      BY DEF vars
    <2>2. Orderly(m, m')
      BY <2>1, AgentInvNext DEF StepOK
    <2>3. s \notin Running(m)
      BY <2>1 DEF Running
    <2>4. QED
      BY <2>1, <2>2, <2>3 DEF Orderly
  <1>2. QED
    BY <1>1, AgentInvariant, PTL DEF Spec, StartsInOrder

\* The outcome of an operation, once it is in the Thread's file, stays, and
\* a completed operation is about answered inputs.
THEOREM FinalReceipts == Spec => ReceiptsAreFinal
  <1>1. AgentInv /\ [Next]_vars =>
            [\A o \in Operations :
                LET was == file.receipts[o] IN
                was.outcome # "open" /\ file' # NoFile =>
                    /\ file'.receipts[o] = was
                    /\ was.outcome = "completed" =>
                          \A s \in was.batch : file'.subs[s].status = "completed"]_file
    <2>1. SUFFICES ASSUME AgentInv, Next, file' # NoFile, NEW o \in Operations,
                          file.receipts[o].outcome # "open"
                   PROVE  /\ file'.receipts[o] = file.receipts[o]
                          /\ file.receipts[o].outcome = "completed" =>
                                \A s \in file.receipts[o].batch :
                                    file'.subs[s].status = "completed"
      BY DEF vars
    <2>2. Final(file, file')
      BY <2>1, AgentInvNext DEF StepOK
    <2>3. QED
      BY <2>1, <2>2 DEF Final
  <1>2. QED
    BY <1>1, AgentInvariant, PTL DEF Spec, ReceiptsAreFinal
=============================================================================
