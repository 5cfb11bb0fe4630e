----------------------------- MODULE ThreadRecord -----------------------------
(***************************************************************************)
(* One Thread's record under the artifact-editing requests of DaemonCore   *)
(* (daemon/src/api.ts).                                                    *)
(*                                                                         *)
(* The record keeps the history tree and, materialized beside it, what the *)
(* current path shows: the artifact text, the reviewer's working copy, the *)
(* open comments and the shelved ones.  Some handlers change the tree and  *)
(* fold the record from it again (refreshView); the others change both by  *)
(* hand.  Each handler is synchronous and ends in one upsert, so it is one *)
(* action.  A forked Thread is independent of its source: after a fork the *)
(* model goes on with either of them.                                      *)
(***************************************************************************)
EXTENDS ThreadHistory, FiniteSets

CONSTANTS
    Comments,   \* comment ids
    Texts,      \* artifact texts
    NoText,     \* "no working copy"
    Branches,   \* branch names besides main
    MaxEntries, \* bound: entries of the history
    MaxAsides,  \* bound: Messages and summaries among them
    MaxEdits    \* bound: how often a comment's text changes

ASSUME RecordAssumption ==
    /\ Texts # {}
    /\ NoText \notin Texts
    /\ Main \notin Branches
    /\ MaxEntries \in Nat \ {0}
    /\ MaxAsides \in Nat
    /\ MaxEdits \in Nat

VARIABLES
    history,    \* the SessionHistory
    status,     \* "pending" | "resolved"
    content,    \* artifact.content
    workingCopy, \* the reviewer's text, or NoText
    shown,      \* annotations: comment id -> its text (a version)
    shelved,    \* shelvedAnnotations, the last of one id
    shareLink,  \* the branch the share link follows
    latest,     \* history variable: per comment, the newest text accepted
    shadowed,   \* history variable: removed comments an edit brought back
    beside      \* history variable: a revision landed beside the path

recordVars == <<history, status, content, workingCopy, shown, shelved, shareLink,
                latest, shadowed, beside>>

viewVars  == <<content, workingCopy, shown, shelved>>
ghostVars == <<latest, shadowed>>

-----------------------------------------------------------------------------
RecordInit ==
    /\ content = CHOOSE t \in Texts : TRUE
    /\ history = [entries |-> <<Entry("agent", content)>>,
                  tips |-> [b \in {Main} |-> 1], branch |-> Main]
    /\ workingCopy = NoText
    /\ status = "pending"
    /\ shown = <<>>
    /\ shelved = <<>>
    /\ shareLink = Main
    /\ latest = <<>>
    /\ shadowed = {}
    /\ beside = FALSE

\* mutable(): a resolved Thread refuses every edit.
Mutable == status = "pending"

Room(n) == Len(history.entries) + n <= MaxEntries

RoomAside ==
    /\ Room(1)
    /\ Cardinality({i \in DOMAIN history.entries :
           history.entries[i].type \in {"message", "summary"}}) < MaxAsides

\* record(): an entry on the current branch.
RecordEntry(e) ==
    /\ Room(1)
    /\ history' = AppendEntry(history, history.branch, e)

With(f, c, x) == [d \in DOMAIN f \cup {c} |-> IF d = c THEN x ELSE f[d]]
Without(f, c) == [d \in DOMAIN f \ {c} |-> f[d]]

\* Every comment the record holds; the shelved object of an id wins.
KnownComments(on, off) ==
    [c \in DOMAIN on \cup DOMAIN off |-> IF c \in DOMAIN off THEN off[c] ELSE on[c]]

\* refreshView: store the moved history, fold the record from its path.
RefreshView(h, on) ==
    LET view == ViewOfPath(h, KnownComments(on, shelved))
    IN  /\ history' = h
        /\ content' = view.content
        /\ workingCopy' = IF view.text = view.content THEN NoText ELSE view.text
        /\ shown' = view.shown
        /\ shelved' = view.shelved
        /\ beside' = FALSE

-----------------------------------------------------------------------------
(* Comments *)

\* sessionAnnotate with a new id ...
AddComment(c) ==
    /\ Mutable
    /\ c \notin DOMAIN latest
    /\ RecordEntry(Entry("comment", c))
    /\ shown' = With(shown, c, 0)
    /\ latest' = With(latest, c, 0)
    /\ UNCHANGED <<status, content, workingCopy, shelved, shareLink, shadowed, beside>>

(* ... and with a known one: an edit.  The client that sends it may not    *)
(* have seen that the comment was removed, or that the tree has moved: an  *)
(* id the record does not show becomes a new comment of that id.           *)
EditComment(c) ==
    /\ Mutable
    /\ c \in DOMAIN latest
    /\ latest[c] < MaxEdits
    /\ LET text == latest[c] + 1
       IN  /\ shown' = With(shown, c, text)
           /\ latest' = With(latest, c, text)
    /\ IF c \in DOMAIN shown
       THEN UNCHANGED <<history, shadowed>>
       ELSE /\ RecordEntry(Entry("comment", c))
            /\ shadowed' = shadowed \cup {c}
    /\ UNCHANGED <<status, content, workingCopy, shelved, shareLink, beside>>

\* sessionRemoveAnnotation: nothing is deleted, the comment is shelved.
RemoveComment(c) ==
    /\ Mutable
    /\ c \in DOMAIN shown
    /\ RecordEntry(Entry("removed", c))
    /\ shown' = Without(shown, c)
    /\ shelved' = With(shelved, c, shown[c])
    /\ UNCHANGED <<status, content, workingCopy, shareLink, ghostVars, beside>>

\* sessionMergeShared: the comments the record lacks, then the removals it
\* has not recorded, on the branch the share follows.
LinkBranch == IF HasBranch(history, shareLink) THEN shareLink ELSE Main

MergedEntries(new, gone) ==
    SetToSeq({Entry("comment", c) : c \in new})
        \o SetToSeq({Entry("removed-there", c) : c \in gone})

RecordedRemovals ==
    {history.entries[i].of : i \in {i \in DOMAIN history.entries :
        history.entries[i].type = "removed-there"}}

MergeShared(notes, removals) ==
    LET known == DOMAIN shown \cup DOMAIN shelved
        new   == notes \ known
        gone  == {c \in removals : c \in known \cup new} \ RecordedRemovals
        moved == AppendAll(history, LinkBranch, MergedEntries(new, gone))
    IN  /\ Mutable
        /\ new \cup gone # {}
        /\ IsFiniteSet(new \cup gone)   \* a snapshot of a share is a list
        /\ Room(Cardinality(new) + Cardinality(gone))
        /\ RefreshView(moved, [c \in DOMAIN shown \cup new |->
                                   IF c \in new THEN 0 ELSE shown[c]])
        /\ latest' = [c \in DOMAIN latest \cup new |->
                          IF c \in new THEN 0 ELSE latest[c]]
        /\ UNCHANGED <<status, shareLink, shadowed>>

-----------------------------------------------------------------------------
(* The reviewer's text, and Messages *)

Shown == IF workingCopy = NoText THEN content ELSE workingCopy

\* Mutant of ApplyWorkingCopy: clearing the working copy leaves no entry.
ForgetRevert(text) ==
    /\ workingCopy' = IF text = content THEN NoText ELSE text
    /\ IF text \in {Shown, content} THEN UNCHANGED history
                                    ELSE RecordEntry(Entry("reviewer", text))

\* applyWorkingCopy: a changed text is a reviewer's revision.
ApplyWorkingCopy(text) ==
    /\ workingCopy' = IF text = content THEN NoText ELSE text
    /\ IF text = Shown THEN UNCHANGED history
                       ELSE RecordEntry(Entry("reviewer", text))

\* setWorkingCopy, cutBlock, restoreBlock and curate, each with its text.
EditText(text) ==
    /\ Mutable
    /\ ApplyWorkingCopy(text)
    /\ UNCHANGED <<status, content, shown, shelved, shareLink, ghostVars, beside>>

SendMessageEntry(resolves) ==
    /\ Mutable
    /\ RoomAside
    /\ RecordEntry(Entry("message", NoText))
    /\ status' = IF resolves THEN "resolved" ELSE status
    /\ UNCHANGED <<viewVars, shareLink, ghostVars, beside>>

\* The head of the current path is a revision of the reviewer.
Edited == history.entries[Max(OfType(history, PathOf(history), Revisions))].type = "reviewer"

\* sessionSubmitRevision: on main, wherever its tip and the reviewer are,
\* and whatever the status is.
SubmitText(text) ==
    /\ Room(1)
    /\ history' = AppendEntry(history, Main, Entry("agent", text))
    /\ status' = "pending"
    /\ content' = text
    /\ workingCopy' = NoText
    /\ beside' = (beside \/ history.branch # Main)
    /\ UNCHANGED <<shown, shelved, shareLink, ghostVars>>

-----------------------------------------------------------------------------
(* A live diff is captured again: main's last agent revision is replaced   *)
(* in place, and a working copy stays as it is (sessionRefreshDiff).       *)
RecaptureTree(text) ==
    /\ Mutable
    /\ text # content
    /\ history' = RecaptureMainHead(history, text)
    /\ content' = text
    /\ beside' = (beside \/ history.branch # Main \/ Edited)
    /\ UNCHANGED <<status, workingCopy, shown, shelved, shareLink, ghostVars>>

(* A submitted change or a pull request captured again is a revision on    *)
(* main, which keeps the working copy and needs an open Thread.            *)
ReviseByCapture(text) ==
    /\ Mutable
    /\ Room(1)
    /\ history' = AppendEntry(history, Main, Entry("agent", text))
    /\ content' = text
    /\ beside' = (beside \/ history.branch # Main \/ workingCopy # NoText)
    /\ UNCHANGED <<status, workingCopy, shown, shelved, shareLink, ghostVars>>

-----------------------------------------------------------------------------
(* Moving through the tree *)

Navigate(target, summarised, b) ==
    /\ Mutable
    /\ HasBranch(history, b)
    /\ LET standing == SwitchBranch(history, b)
       IN  /\ CanNavigate(standing, target)
           /\ summarised => RoomAside
           /\ RefreshView(NavigateTo(standing, target, summarised), shown)
    /\ UNCHANGED <<status, shareLink, ghostVars>>

StartBranch(b) ==
    /\ Mutable
    /\ ~HasBranch(history, b)
    /\ RefreshView(CreateBranch(history, b), shown)
    /\ UNCHANGED <<status, shareLink, ghostVars>>

Switch(b) ==
    /\ Mutable
    /\ HasBranch(history, b)
    /\ RefreshView(SwitchBranch(history, b), shown)
    /\ UNCHANGED <<status, shareLink, ghostVars>>

\* sessionSetShares: the link names the branch it follows.
SetShares(b) ==
    /\ Mutable
    /\ HasBranch(history, b)
    /\ shareLink' = b
    /\ UNCHANGED <<history, status, viewVars, ghostVars, beside>>

(* sessionFork: a new record of the copied path.  Comments the path does   *)
(* not show, the share and the reviewer's edits do not travel.             *)
Fork ==
    LET copy  == ForkHistory(history)
        known == KnownComments(shown, shelved)
        view  == ViewOfPath(copy, known)
    IN  /\ history' = copy
        /\ status' = "pending"
        /\ content' = view.content
        /\ workingCopy' = NoText
        /\ shown' = view.shown
        /\ shelved' = <<>>
        /\ shareLink' = Main
        /\ latest' = view.shown
        /\ shadowed' = {}
        /\ beside' = FALSE

-----------------------------------------------------------------------------
RecordNext ==
    \/ \E c \in Comments : AddComment(c) \/ EditComment(c) \/ RemoveComment(c)
    \/ \E notes, removals \in SUBSET Comments : MergeShared(notes, removals)
    \/ \E t \in Texts : EditText(t) \/ SubmitText(t) \/ RecaptureTree(t) \/ ReviseByCapture(t)
    \/ \E r \in BOOLEAN : SendMessageEntry(r)
    \/ \E b \in Branches \cup {Main} :
          \/ \E i \in 1..MaxEntries, s \in BOOLEAN : Navigate(i, s, b)
          \/ StartBranch(b)
          \/ Switch(b)
          \/ SetShares(b)
    \/ Fork

RecordSpec == RecordInit /\ [][RecordNext]_recordVars

-----------------------------------------------------------------------------
\* What the record shows is what its current path says.
ShowsPath ==
    LET view == ViewOfPath(history, KnownComments(shown, shelved))
    IN  /\ content = view.content
        /\ Shown = view.text
        /\ DOMAIN shown = DOMAIN view.shown

(* The record by hand and the record folded from the tree agree: after any *)
(* sequence of edits, merges, moves, forks and revisions the artifact      *)
(* text, the working copy and the open comments are those of the current   *)
(* path, unless since the last fold a revision has landed on main while    *)
(* the reviewer stood on another branch, or a capture has replaced the     *)
(* text beneath the reviewer's own.                                        *)
ShowsItsPathUnlessBeside == beside \/ ShowsPath

(* "Shelved, never dropped": the newest text of every comment the daemon   *)
(* accepted is in the record, on the path or off it, wherever the tips     *)
(* moved, except for a comment that an edit from a stale client brought    *)
(* back after its removal: its old object on the shelf can win.            *)
CommentsSurvive ==
    \A c \in DOMAIN latest :
        LET known == KnownComments(shown, shelved)
        IN  c \in DOMAIN known /\ (c \in shadowed \/ known[c] = latest[c])
=============================================================================
