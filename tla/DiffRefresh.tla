------------------------------ MODULE DiffRefresh ------------------------------
(***************************************************************************)
(* How the review of a diff follows what it reviews (daemon/src/api.ts,    *)
(* diff-watcher.ts, pr-poller.ts).                                         *)
(*                                                                         *)
(* A live review follows a working tree of git, a pinned one a submitted   *)
(* change of jj, a pr one a pull request.  What is outside moves on its    *)
(* own.  A capture of it yields the event loop: it starts, reads or fails, *)
(* and lands in two turns of the daemon, between which the Thread may be   *)
(* revised, resolved, deleted or captured again.  A watcher starts         *)
(* captures of a working tree; a poll of a pull request only records that  *)
(* it moved.  The agent revises with a text of its own, which it captured  *)
(* at some moment before.  The change is the one of the working copy.      *)
(***************************************************************************)
EXTENDS Naturals, FiniteSets

CONSTANTS
    Patches,      \* texts of a diff
    MaxMoves,     \* bound: how often the outside moves
    MaxRefreshes, \* bound: explicit refreshes
    MaxRevisions, \* bound: revisions by the agent
    MaxRestarts   \* bound: restarts of the daemon

VARIABLES
    kind,        \* "live" | "pinned" | "pr"
    review,      \* the Thread: status, text, the outside version it records
    outside,     \* the tree or pull request: version and text
    draft,       \* the text that the agent captured, to submit as a revision
    tracked,     \* watched by DiffWatcher, or polled by PrReviewPoller
    wake,        \* a debounced refresh is scheduled
    generation,  \* diffRefreshGenerations of this Thread
    captures,    \* the captures in flight
    lastRefs,    \* the poller's lastRefs
    polls,       \* per slot, the version an answer under way has read, or 0
    offered,     \* prRefresh*: the version offered to the reviewer, or 0
    spent,       \* refreshes, revisions and restarts so far
    asOf,        \* history variable: the version the text was read at
    overtaken,   \* history variable: a refresh landed an older head than a poll
    behind       \* history variable: the last capture failed, or a revision
                 \* submitted an old text, and none has started since

refreshGhosts == <<asOf, overtaken, behind>>

refreshVars == <<kind, review, outside, draft, tracked, wake, generation, captures,
                 lastRefs, polls, offered, spent, refreshGhosts>>

Unread == [version |-> 0, text |-> CHOOSE p \in Patches : TRUE]

Capture(g) == [gen |-> g, seen |-> Unread, crossed |-> FALSE]

Pending == review.status = "pending"

\* isWorkingTreeDiffSession: without a change of jj, it is of the working tree.
OfTheTree ==
    /\ Pending
    /\ \/ kind = "live"
       \/ kind = "pinned" /\ review.version = 0

RefreshInit ==
    /\ kind \in {"live", "pinned", "pr"}
    /\ outside = [Unread EXCEPT !.version = 1]
    /\ review = [status |-> "pending", text |-> outside.text, version |-> 1]
    /\ draft = outside
    /\ tracked = (kind # "pinned")
    /\ wake = (kind = "live")
    /\ generation = 0
    /\ captures = {}
    /\ lastRefs = 1
    /\ polls = {}
    /\ offered = 0
    /\ spent = [refreshes |-> 0, revisions |-> 0, restarts |-> 0]
    /\ asOf = 1
    /\ overtaken = FALSE
    /\ behind = FALSE

-----------------------------------------------------------------------------
(* The outside: a file, commit or push.  A watched tree schedules a        *)
(* refresh; its debounce restarts with every event.                        *)
MoveOutside(p) ==
    /\ outside.version < 1 + MaxMoves
    /\ outside' = [version |-> outside.version + 1, text |-> p]
    /\ wake' = (wake \/ (tracked /\ kind # "pr"))
    /\ UNCHANGED <<kind, review, draft, tracked, generation, captures, lastRefs,
                   polls, offered, spent, refreshGhosts>>

-----------------------------------------------------------------------------
(* Captures: sessionRefreshDiff and sessionRefreshPrDiff *)

StartCapture ==
    /\ generation' = generation + 1
    /\ captures' = captures \cup {Capture(generation + 1)}
    /\ behind' = FALSE

\* Mutant of WatcherRefresh: nothing is captured while a capture is under way.
WatcherSkips ==
    /\ wake
    /\ wake' = FALSE
    /\ IF OfTheTree /\ captures = {}
       THEN StartCapture
       ELSE UNCHANGED <<generation, captures, behind>>
    /\ UNCHANGED <<kind, review, outside, draft, tracked, lastRefs, polls,
                   offered, spent, asOf, overtaken>>

\* refreshDiffsForRepo, after the debounce: pending reviews of a tree only.
WatcherRefresh ==
    /\ wake
    /\ wake' = FALSE
    /\ IF OfTheTree
       THEN StartCapture
       ELSE UNCHANGED <<generation, captures, behind>>
    /\ UNCHANGED <<kind, review, outside, draft, tracked, lastRefs, polls,
                   offered, spent, asOf, overtaken>>

\* session.refreshDiff: mutable() refuses a resolved Thread.
ClientRefresh ==
    /\ Pending
    /\ spent.refreshes < MaxRefreshes
    /\ spent' = [spent EXCEPT !.refreshes = @ + 1]
    /\ StartCapture
    /\ UNCHANGED <<kind, review, outside, draft, tracked, wake, lastRefs, polls,
                   offered, asOf, overtaken>>

\* The subprocess reads the tree or asks for the pull request.
ReadOutside(c) ==
    /\ c.seen.version = 0
    /\ captures' = (captures \ {c}) \cup {[c EXCEPT !.seen = outside]}
    /\ UNCHANGED <<kind, review, outside, draft, tracked, wake, generation,
                   lastRefs, polls, offered, spent, refreshGhosts>>

\* A subprocess that fails keeps the diff there is, and the generation: the
\* watcher swallows what a client's refresh is told.
CaptureFails(c) ==
    /\ c.seen.version = 0
    /\ captures' = captures \ {c}
    /\ behind' = (behind \/ c.gen = generation)
    /\ UNCHANGED <<kind, review, outside, draft, tracked, wake, generation,
                   lastRefs, polls, offered, spent, asOf, overtaken>>

\* Mutant of Current: a capture is current as long as the Thread is open.
CurrentIfOpen(c) == Pending

\* A newer capture has not started and the Thread is still open.
Current(c) == c.gen = generation /\ Pending

\* What a landing finds changed: a live tree of git has no source identity.
Changed(c) ==
    \/ c.seen.text # review.text
    \/ kind # "live" /\ c.seen.version # review.version
    \/ kind = "pr" /\ offered # 0

Land(c) ==
    /\ c.seen.version # 0
    /\ captures' = captures \ {c}
    /\ IF Current(c) /\ Changed(c)
       THEN /\ review' = [review EXCEPT !.text = c.seen.text, !.version = c.seen.version]
            /\ offered' = 0
            /\ asOf' = c.seen.version
            /\ overtaken' = (overtaken \/ c.seen.version < lastRefs)
       ELSE UNCHANGED <<review, offered, asOf, overtaken>>
    /\ UNCHANGED <<kind, outside, draft, tracked, wake, generation, lastRefs, polls,
                   spent, behind>>

-----------------------------------------------------------------------------
(* The pull request's poll: an interval and an answer that may be late *)

\* The head is asked for; the answer is on its way.
PollReads(v) ==
    /\ kind = "pr"
    /\ tracked
    /\ v = outside.version
    /\ polls' = polls \cup {v}
    /\ UNCHANGED <<kind, review, outside, draft, tracked, wake, generation,
                   captures, lastRefs, offered, spent, refreshGhosts>>

\* markPrRefreshAvailable
Offer(v) ==
    offered' = IF Pending /\ v # review.version THEN v ELSE offered

\* Mutant of PollLands: only a head older than the last one is reported.
PollForgets(v) ==
    /\ v \in polls
    /\ polls' = polls \ {v}
    /\ lastRefs' = IF tracked THEN v ELSE lastRefs
    /\ IF tracked /\ v < lastRefs THEN Offer(v) ELSE UNCHANGED offered
    /\ UNCHANGED <<kind, review, outside, draft, tracked, wake, generation,
                   captures, spent, refreshGhosts>>

\* refreshHead after its await: only a move off the last refs is reported.
PollLands(v) ==
    /\ v \in polls
    /\ polls' = polls \ {v}
    /\ IF tracked /\ v # lastRefs
       THEN lastRefs' = v /\ Offer(v)
       ELSE UNCHANGED <<lastRefs, offered>>
    /\ UNCHANGED <<kind, review, outside, draft, tracked, wake, generation,
                   captures, spent, refreshGhosts>>

-----------------------------------------------------------------------------
(* The Thread *)

\* The agent, or the client that it calls, captures the text it will submit.
Draft ==
    /\ spent.revisions < MaxRevisions
    /\ draft' = outside
    /\ UNCHANGED <<kind, review, outside, tracked, wake, generation, captures,
                   lastRefs, polls, offered, spent, refreshGhosts>>

(* The identity a revision leaves: a pull request keeps the head that it   *)
(* was reviewed at; that of a change is the client's, who has none for a   *)
(* text that is not what is there now, and the review is then of the tree. *)
SourcesOf(d) ==
    IF kind = "pr" THEN {review.version}
    ELSE {v \in {0, d.version} : v = 0 => kind = "pinned"}

(* sessionSubmitRevision: the agent submits what it has captured, however  *)
(* long ago, and the Thread is pending again.  Neither the generation nor  *)
(* the watch changes.                                                      *)
Revise ==
    /\ review.status # "deleted"
    /\ spent.revisions < MaxRevisions
    /\ spent' = [spent EXCEPT !.revisions = @ + 1]
    /\ \E v \in SourcesOf(draft) :
           review' = [status |-> "pending", text |-> draft.text, version |-> v]
    /\ asOf' = draft.version
    /\ captures' = {[c EXCEPT !.crossed = TRUE] : c \in captures}
    /\ behind' = (draft.text # outside.text)
    /\ UNCHANGED <<kind, outside, draft, tracked, wake, generation, lastRefs, polls,
                   offered, overtaken>>

\* untrackLiveDiffSession closes the watch and its debounce, or the poll.
Untrack == tracked' = FALSE /\ wake' = FALSE

\* A resolving Message.
Resolve ==
    /\ Pending
    /\ review' = [review EXCEPT !.status = "resolved"]
    /\ Untrack
    /\ UNCHANGED <<kind, outside, draft, generation, captures, lastRefs, polls,
                   offered, spent, refreshGhosts>>

\* sessionDelete forgets the generation.
DeleteReview ==
    /\ review.status # "deleted"
    /\ review' = [review EXCEPT !.status = "deleted"]
    /\ Untrack
    /\ generation' = 0
    /\ UNCHANGED <<kind, outside, draft, captures, lastRefs, polls, offered, spent,
                   refreshGhosts>>

\* A new process tracks what is pending; a new watch starts with a refresh.
Restart ==
    /\ spent.restarts < MaxRestarts
    /\ spent' = [spent EXCEPT !.restarts = @ + 1]
    /\ generation' = 0
    /\ captures' = {}
    /\ polls' = {}
    /\ tracked' = (OfTheTree \/ (Pending /\ kind = "pr"))
    /\ wake' = OfTheTree
    /\ lastRefs' = review.version
    /\ UNCHANGED <<kind, review, outside, draft, offered, refreshGhosts>>

CaptureProceeds == \E c \in captures : ReadOutside(c) \/ Land(c)
PollAsks        == \E v \in 1..(1 + MaxMoves) : PollReads(v)
PollAnswers     == \E v \in 1..(1 + MaxMoves) : PollLands(v)

RefreshNext ==
    \/ \E p \in Patches : MoveOutside(p)
    \/ WatcherRefresh
    \/ ClientRefresh
    \/ \E c \in captures : ReadOutside(c) \/ CaptureFails(c) \/ Land(c)
    \/ PollAsks
    \/ PollAnswers
    \/ Draft
    \/ Revise
    \/ Resolve
    \/ DeleteReview
    \/ Restart

RefreshSpec == RefreshInit /\ [][RefreshNext]_refreshVars

-----------------------------------------------------------------------------
\* Subprocesses end, the debounce fires, the poll's interval comes round.
RefreshFairness ==
    /\ WF_refreshVars(WatcherRefresh)
    /\ WF_refreshVars(CaptureProceeds)
    /\ WF_refreshVars(PollAsks)
    /\ WF_refreshVars(PollAnswers)

RefreshFairSpec == RefreshSpec /\ RefreshFairness

(* The daemon never sets a review back in time: what a capture puts in its *)
(* place was read later than what was shown, however captures overlap,     *)
(* fail and are overtaken by resolutions, deletions and restarts.  A       *)
(* revision may be as old as the text its agent captured; and a capture    *)
(* that had started when one was submitted replaces it by what it had      *)
(* read, since a revision does not start a generation.                     *)
NeverBackInTime ==
    [][asOf' < asOf =>
          \/ spent'.revisions = spent.revisions + 1 /\ review'.text = draft.text
          \/ \E c \in captures : c.crossed /\ c.seen.version = asOf']_refreshVars

(* A tracked live review ends up showing the tree: no move is lost between *)
(* events, debounces, overlapping captures, revisions and restarts.        *)
(* Except while nothing has followed a capture that failed, or a revision  *)
(* with a text that was no longer the tree's.                              *)
FollowsTheTree ==
    <>[](kind = "live" /\ Pending /\ tracked /\ ~behind) => <>[](review.text = outside.text)

(* A pull request that has moved off what a polled review shows is offered *)
(* to the reviewer in the end, unless a refresh that had read an older     *)
(* head landed after the poll's answer: it withdraws the offer, and the    *)
(* poll, which compares with its own last answer, does not repeat it.      *)
MovesAreOffered ==
    <>[](kind = "pr" /\ Pending /\ tracked /\ review.version # outside.version /\ ~overtaken)
        => <>[](offered # 0)
=============================================================================
