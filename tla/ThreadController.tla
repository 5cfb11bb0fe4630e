---------------------------- MODULE ThreadController ----------------------------
(***************************************************************************)
(* What a reviewer's window shows of the Threads                           *)
(* (client/src/thread/thread-controller.ts), over one connection to the    *)
(* daemon (daemon/src/client.ts, server.ts): requests are served in order, *)
(* and answers and events arrive in order.  Some changes are shown before  *)
(* they are answered; the record an answer carries replaces what is shown. *)
(* Decisions on hunks and share links travel as whole lists, comments one  *)
(* by one.  Shares live at the gateway, reached apart from the daemon.     *)
(*                                                                         *)
(* A record is what these steps tell apart: status, rejected hunks,        *)
(* comments, links, and the comments that its history lacks because the    *)
(* window shows them unanswered.  The connection stays up and the gateway  *)
(* answers; what it is asked takes effect at once, except uploads and      *)
(* pulls, which take their time.                                           *)
(***************************************************************************)
EXTENDS Naturals, Sequences

CONSTANTS
    Sessions,    \* ids, a fork's among them
    NoSession,
    Hunks,      \* of a diff under review
    Comments,      \* ids of comments, each used once
    Links,      \* ids the gateway mints, each used once
    MaxActs     \* bound: what the reviewer and everybody else do

ASSUME ControllerAssumption ==
    NoSession \notin Sessions /\ MaxActs \in Nat

VARIABLES
    records,     \* the daemon's Threads
    deleting,   \* Threads whose agent is being removed before they are
    asked,      \* requests on their way to the daemon
    back,       \* answers and events on their way back
    first,      \* the list connect() holds until it can show the Thread too
    viewing,    \* viewingId
    shown,      \* the id of snapshot.session
    view,       \* the rest of it
    inbox,      \* snapshot.inbox, by id
    uploads,    \* shares being published: the Thread, its comments, the link
    pulls,      \* links being pulled
    share,      \* the gateway's blobs, by link
    acts,       \* what was done so far
    kin,        \* history: a Thread and what it was forked from; {} is unused
    home,       \* history: the Thread a comment was written on
    accepted,   \* history: comments the daemon took
    strayed     \* history: Threads given the links of another one

daemonState == <<records, deleting, kin, accepted>>
window == <<first, viewing, shown, view, inbox>>
gateway == <<uploads, pulls, share, home, strayed>>
viewVars == <<daemonState, asked, back, window, gateway, acts>>

Blank == [status |-> "none", rejected |-> {}, notes |-> {}, guessed |-> {}, links |-> {}]
NoShare == [of |-> NoSession, live |-> FALSE, notes |-> {}, mirrored |-> {}, theirs |-> {}]
Pending == [Blank EXCEPT !.status = "pending"]
NoRows == [t \in Sessions |-> Blank]

IsThere(t) == records[t].status # "none"
IsPending(t) == records[t].status = "pending"
Rows == [t \in Sessions |-> IF IsPending(t) THEN records[t] ELSE Blank]
Unused == {t \in Sessions : kin[t] = {}}
Unwritten == {n \in Comments : home[n] = NoSession}

Request(op, t, with, links) == [op |-> op, of |-> t, with |-> with, links |-> links]
Ask(op, t, with, links) == asked' = Append(asked, Request(op, t, with, links))
AskForGet(t) == Ask("get", t, {}, {})

ViewInit ==
    \E one, two \in Sessions, listed \in SUBSET Links :
        /\ records = [t \in Sessions |->
                       IF t = one THEN [Pending EXCEPT !.links = listed]
                       ELSE IF t = two THEN Pending ELSE Blank]
        /\ share = [l \in Links |->
                      IF l \in listed THEN [NoShare EXCEPT !.of = one, !.live = TRUE]
                      ELSE NoShare]
        /\ kin = [t \in Sessions |-> IF t \in {one, two} THEN {t} ELSE {}]
        /\ viewing \in {one, NoSession}
        /\ deleting = {} /\ back = <<>>
        /\ asked = <<Request("first", viewing, {}, {})>>
        /\ first = NoRows /\ inbox = NoRows
        /\ shown = NoSession /\ view = Blank
        /\ uploads = {} /\ pulls = {}
        /\ acts = 0
        /\ home = [n \in Comments |-> NoSession]
        /\ accepted = {} /\ strayed = {}

----------------------------------------------------------------------------
(* The daemon *)

Changes == {"curate", "comment", "uncomment", "send", "relink", "share", "merge"}

\* mutable() and sessionGet(); a share's notes only enter a Thread that
\* lists the share they come with (shareBranchOf).
Accepts(r) ==
    /\ r.op \in {"get", "firstget", "fork"} => IsThere(r.of)
    /\ r.op \in Changes => IsPending(r.of)
    /\ r.op = "merge" => r.links \subseteq records[r.of].links

Updated(r) ==
    LET old == records[r.of] IN
    CASE r.op = "curate" -> [old EXCEPT !.rejected = r.with]
      [] r.op \in {"comment", "merge"} -> [old EXCEPT !.notes = @ \cup r.with]
      [] r.op = "uncomment" -> [old EXCEPT !.notes = @ \ r.with]
      [] r.op \in {"relink", "share"} -> [old EXCEPT !.links = r.links]
      [] r.op = "send" -> [old EXCEPT !.status = "resolved"]
      [] OTHER -> old

\* Anything but session.updated may change the list.  What one change emits
\* is taken as one event.
Event(t, listed) == [op |-> "event", of |-> t, listed |-> listed]
Answer(r, ok, copy) ==
    [op |-> r.op, of |-> r.of, ok |-> ok, copy |-> copy,
     with |-> r.with, links |-> r.links]

Refuse(r) ==
    /\ ~Accepts(r)
    /\ back' = Append(back, Answer(r, FALSE, Blank))
    /\ UNCHANGED daemonState

Tell(r) ==
    /\ r.op \in {"list", "first", "get", "firstget"} /\ Accepts(r)
    /\ back' = Append(back, Answer(r, TRUE,
                 IF r.op \in {"list", "first"} THEN Rows ELSE records[r.of]))
    /\ UNCHANGED daemonState

Change(r) ==
    /\ r.op \in Changes /\ Accepts(r)
    /\ records' = [records EXCEPT ![r.of] = Updated(r)]
    /\ back' = back \o <<Event(r.of, r.op = "send"), Answer(r, TRUE, records'[r.of])>>
    /\ accepted' = IF r.op \in {"comment", "merge"} THEN accepted \cup r.with ELSE accepted
    /\ UNCHANGED <<deleting, kin>>

\* A fork takes the comments along; decisions, links and the outcome stay.
Bear(r) ==
    /\ r.op \in {"fork", "create"} /\ Accepts(r)
    /\ \E t \in Unused :
          LET copied == IF r.op = "fork" THEN records[r.of].notes ELSE {}
          IN  /\ records' = [records EXCEPT ![t] = [Pending EXCEPT !.notes = copied]]
              /\ back' = back \o <<Event(t, TRUE),
                                   [Answer(r, TRUE, records'[t]) EXCEPT !.of = t]>>
              /\ kin' = [kin EXCEPT ![t] = {t} \cup (IF r.op = "fork" THEN kin[r.of] ELSE {})]
    /\ UNCHANGED <<deleting, accepted>>

\* session.delete first waits for the agent's removal.
BeginDelete(r) ==
    /\ r.op = "delete"
    /\ deleting' = deleting \cup {r.of}
    /\ UNCHANGED <<records, kin, accepted, back>>

Serve ==
    /\ asked # <<>>
    /\ LET r == Head(asked)
       IN  Refuse(r) \/ Tell(r) \/ Change(r) \/ Bear(r) \/ BeginDelete(r)
    /\ asked' = Tail(asked)
    /\ UNCHANGED <<window, gateway, acts>>

FinishDelete ==
    /\ \E t \in deleting :
          /\ deleting' = deleting \ {t}
          /\ records' = [records EXCEPT ![t] = Blank]
          /\ back' = IF IsThere(t) THEN Append(back, Event(t, TRUE)) ELSE back
    /\ UNCHANGED <<asked, kin, accepted, window, gateway, acts>>

----------------------------------------------------------------------------
(* The window: what arrives *)

Show(t, copy) == shown' = t /\ view' = copy

Arrives(ops) == back # <<>> /\ Head(back).op \in ops /\ back' = Tail(back)

\* connect()'s listener: the shown Thread is read again, the list as well
\* unless the event is session.updated.
GetsEvent ==
    /\ Arrives({"event"})
    /\ LET e == Head(back)
           reads == IF e.of = shown THEN <<Request("get", shown, {}, {})>> ELSE <<>>
           lists == IF e.listed THEN <<Request("list", NoSession, {}, {})>> ELSE <<>>
       IN  asked' = asked \o reads \o lists
    /\ UNCHANGED <<daemonState, window, gateway, acts>>

GetsList ==
    /\ Arrives({"list"})
    /\ inbox' = Head(back).copy
    /\ UNCHANGED <<daemonState, asked, first, viewing, shown, view, gateway, acts>>

\* connect(): the list is held until the Thread is there as well.
GetsFirstList ==
    /\ Arrives({"first"})
    /\ IF viewing = NoSession
       THEN inbox' = Head(back).copy /\ UNCHANGED <<asked, first>>
       ELSE /\ first' = Head(back).copy
            /\ Ask("firstget", viewing, {}, {})
            /\ UNCHANGED inbox
    /\ UNCHANGED <<daemonState, viewing, shown, view, gateway, acts>>

GetsFirst ==
    /\ Arrives({"firstget"})
    /\ IF Head(back).ok
       THEN Show(Head(back).of, Head(back).copy) /\ inbox' = first
       ELSE UNCHANGED <<shown, view, inbox>>
    /\ first' = NoRows
    /\ UNCHANGED <<daemonState, asked, viewing, gateway, acts>>

\* refreshSession: of a Thread since left, nothing is shown.
GetsThread ==
    /\ Arrives({"get"})
    /\ IF Head(back).ok /\ Head(back).of = viewing
       THEN Show(viewing, Head(back).copy)
       ELSE UNCHANGED <<shown, view>>
    /\ UNCHANGED <<daemonState, asked, first, viewing, inbox, gateway, acts>>

Guesses == {"curate", "comment", "relink"}

\* mirrorAnnotation: the links as they were, once the comment is accepted.
Mirror(a) ==
    share' = [l \in Links |->
                IF a.op = "comment" /\ l \in a.links /\ share[l].live
                THEN [share[l] EXCEPT !.mirrored = @ \cup a.with] ELSE share[l]]

\* apply, applyOptimistic, submit, fork: the answer is what is shown next,
\* whatever is viewed.
GetsChanged ==
    /\ Arrives(Guesses \cup {"uncomment", "send", "fork"})
    /\ Head(back).ok
    /\ Show(Head(back).of, Head(back).copy)
    /\ Mirror(Head(back))
    /\ UNCHANGED <<daemonState, asked, first, viewing, inbox, uploads, pulls, home,
                   strayed, acts>>

GetsRefusedQuietly ==
    /\ Arrives(Guesses \cup {"uncomment", "send", "fork"})
    /\ ~Head(back).ok
    /\ UNCHANGED <<daemonState, asked, window, gateway, acts>>

\* A refused guess is replaced by the daemon's record.
GetsRefused ==
    /\ Arrives(Guesses \cup {"uncomment", "send", "fork"})
    /\ ~Head(back).ok
    /\ IF Head(back).op \in Guesses THEN AskForGet(Head(back).of) ELSE UNCHANGED asked
    /\ UNCHANGED <<daemonState, window, gateway, acts>>

GetsCreated ==
    /\ Arrives({"create"})
    /\ viewing' = Head(back).of
    /\ Show(Head(back).of, Head(back).copy)
    /\ UNCHANGED <<daemonState, asked, first, inbox, gateway, acts>>

GetsNothing ==
    /\ Arrives({"share", "merge"})
    /\ UNCHANGED <<daemonState, asked, window, gateway, acts>>

----------------------------------------------------------------------------
(* The reviewer *)

Act == acts < MaxActs /\ acts' = acts + 1
ActOnShown == Act /\ shown # NoSession

\* applyOptimistic: shown before it is asked.
Guess(copy) == view' = copy /\ UNCHANGED <<first, viewing, shown, inbox>>

\* open(): the sidebar's copy at once, the daemon's when it comes.
Open ==
    /\ Act
    /\ \E t \in Sessions :
          /\ inbox[t].status # "none"
          /\ viewing' = t
          /\ Show(t, inbox[t])
          /\ AskForGet(t)
    /\ UNCHANGED <<daemonState, back, first, inbox, gateway>>

CreateEmpty ==
    /\ Act
    /\ Ask("create", NoSession, {}, {})
    /\ UNCHANGED <<daemonState, back, window, gateway>>

\* toggleRejectHunk and curate.
Reject ==
    /\ ActOnShown /\ view.status # "resolved"
    /\ \E h \in Hunks :
          LET all == IF h \in view.rejected THEN view.rejected \ {h} ELSE view.rejected \cup {h}
          IN  Guess([view EXCEPT !.rejected = all]) /\ Ask("curate", shown, all, {})
    /\ UNCHANGED <<daemonState, back, gateway>>

Annotate ==
    /\ ActOnShown
    /\ \E n \in Unwritten :
          /\ home' = [home EXCEPT ![n] = shown]
          /\ Guess([view EXCEPT !.notes = @ \cup {n}, !.guessed = @ \cup {n}])
          /\ Ask("comment", shown, {n}, view.links)
    /\ UNCHANGED <<daemonState, back, uploads, pulls, share, strayed>>

RemoveNote ==
    /\ ActOnShown
    /\ \E n \in view.notes : Ask("uncomment", shown, {n}, {})
    /\ UNCHANGED <<daemonState, back, window, gateway>>

Submit ==
    /\ ActOnShown
    /\ Ask("send", shown, {}, {})
    /\ UNCHANGED <<daemonState, back, window, gateway>>

Fork ==
    /\ ActOnShown
    /\ Ask("fork", shown, {}, {})
    /\ UNCHANGED <<daemonState, back, window, gateway>>

\* Mutant of CreateShareLink: what is shown is uploaded as it is.
CreateShareLinkAsShown ==
    /\ ActOnShown
    /\ \E l \in Links :
          /\ share[l].of = NoSession /\ \A u \in uploads : u.link # l
          /\ uploads' = uploads \cup {[of |-> shown, notes |-> view.notes, link |-> l]}
    /\ UNCHANGED <<daemonState, asked, back, window, pulls, share, home, strayed>>

\* createShareLink, up to the upload of what is shown; it is folded from the
\* history (viewFollowing), which a comment enters with the answer.
CreateShareLink ==
    /\ ActOnShown
    /\ \E l \in Links :
          /\ share[l].of = NoSession /\ \A u \in uploads : u.link # l
          /\ uploads' = uploads \cup
                {[of |-> shown, notes |-> view.notes \ view.guessed, link |-> l]}
    /\ UNCHANGED <<daemonState, asked, back, window, pulls, share, home, strayed>>

\* The rest of it: the links are those of what is shown by now.
ShareLinkCreated ==
    /\ \E u \in uploads :
          /\ uploads' = uploads \ {u}
          /\ share' = [share EXCEPT ![u.link] =
                         [NoShare EXCEPT !.of = u.of, !.live = TRUE, !.notes = u.notes]]
          /\ Ask("share", u.of, {}, view.links \cup {u.link})
          /\ strayed' = IF \A l \in view.links : share[l].of = u.of THEN strayed
                        ELSE strayed \cup {u.of}
    /\ UNCHANGED <<daemonState, back, window, pulls, home, acts>>

Revoke(ls) == share' = [l \in Links |-> IF l \in ls THEN [share[l] EXCEPT !.live = FALSE]
                                        ELSE share[l]]

DeleteShareLink ==
    /\ ActOnShown
    /\ \E l \in view.links :
          /\ Revoke({l})
          /\ Guess([view EXCEPT !.links = @ \ {l}])
          /\ Ask("relink", shown, {}, view.links \ {l})
    /\ UNCHANGED <<daemonState, back, uploads, pulls, home, strayed>>

Unshare ==
    /\ ActOnShown /\ view.links # {}
    /\ Revoke(view.links)
    /\ Ask("share", shown, {}, {})
    /\ UNCHANGED <<daemonState, back, window, uploads, pulls, home, strayed>>

\* deleteSession: every link known of the Thread is revoked first.
DeleteSession ==
    /\ Act
    /\ \E t \in Sessions :
          /\ t = shown \/ inbox[t].status # "none"
          /\ Revoke(IF t = shown THEN view.links ELSE inbox[t].links)
          /\ Ask("delete", t, {}, {})
    /\ UNCHANGED <<daemonState, back, window, uploads, pulls, home, strayed>>

\* startShareSync and pullShared read the shares of what is shown; what a
\* pull brings is merged into what is shown by then.
Pull ==
    /\ ActOnShown
    /\ \E l \in view.links \ pulls : pulls' = pulls \cup {l}
    /\ UNCHANGED <<daemonState, asked, back, window, uploads, share, home, strayed>>

Pulled ==
    /\ \E l \in pulls :
          /\ pulls' = pulls \ {l}
          /\ IF share[l].live THEN Ask("merge", shown, share[l].theirs, {l})
             ELSE UNCHANGED asked
    /\ UNCHANGED <<daemonState, back, window, uploads, share, home, strayed, acts>>

----------------------------------------------------------------------------
(* Everybody else *)

OtherComments ==
    /\ Act
    /\ \E t \in Sessions, n \in Unwritten :
          /\ IsPending(t)
          /\ records' = [records EXCEPT ![t].notes = @ \cup {n}]
          /\ home' = [home EXCEPT ![n] = t]
          /\ accepted' = accepted \cup {n}
          /\ back' = Append(back, Event(t, FALSE))
    /\ UNCHANGED <<deleting, kin, asked, window, uploads, pulls, share, strayed>>

OtherResolves ==
    /\ Act
    /\ \E t \in Sessions :
          /\ IsPending(t)
          /\ records' = [records EXCEPT ![t].status = "resolved"]
          /\ back' = Append(back, Event(t, TRUE))
    /\ UNCHANGED <<deleting, kin, accepted, asked, window, gateway>>

Collaborate ==
    /\ Act
    /\ \E l \in Links, n \in Unwritten :
          /\ share[l].live
          /\ share' = [share EXCEPT ![l].theirs = @ \cup {n}]
          /\ home' = [home EXCEPT ![n] = share[l].of]
    /\ UNCHANGED <<daemonState, asked, back, window, uploads, pulls, strayed>>

Receive ==
    \/ GetsEvent \/ GetsList \/ GetsFirstList \/ GetsFirst \/ GetsThread
    \/ GetsChanged \/ GetsRefused \/ GetsCreated \/ GetsNothing

ViewNext ==
    \/ Serve \/ FinishDelete \/ Receive \/ ShareLinkCreated \/ Pulled
    \/ Open \/ CreateEmpty \/ Reject \/ Annotate \/ RemoveNote \/ Submit \/ Fork
    \/ CreateShareLink \/ DeleteShareLink \/ Unshare \/ DeleteSession \/ Pull
    \/ OtherComments \/ OtherResolves \/ Collaborate

ViewSpec == ViewInit /\ [][ViewNext]_viewVars

----------------------------------------------------------------------------
Quiet == asked = <<>> /\ back = <<>>

\* When nothing is on its way, the sidebar lists the Threads under review,
\* and the Thread being viewed is shown as the daemon has it, so no refused
\* guess, overtaken answer or stale sidebar copy is left on the screen.  A
\* fork that is shown is not the Thread being viewed and may be behind.
ShowsWhatIs ==
    Quiet =>
        /\ \A t \in Sessions : (inbox[t].status = "pending") = IsPending(t)
        /\ viewing = shown /\ shown # NoSession /\ IsThere(shown) => view = records[shown]

\* On the Thread it was written on, on a fork of that, or on a Thread that
\* was given the links of another one.
InPlace(n, t) == home[n] \in kin[t] \/ kin[t] \cap strayed # {}

\* A comment is found only on the Thread it was written on and what was
\* forked from it.  No share carries one that the daemon has not taken,
\* neither in the upload that creates it nor mirrored later, nor one of
\* another Thread.  Threads that were given the links of another one are
\* left out.  The text of an edit is not looked at.
NotesKeepTheirPlace ==
    /\ \A t \in Sessions : \A n \in records[t].notes : InPlace(n, t)
    /\ \A l \in Links :
          /\ share[l].notes \cup share[l].mirrored \subseteq accepted
          /\ \A n \in share[l].notes : InPlace(n, share[l].of)
          /\ \A n \in share[l].mirrored : home[n] \in {share[l].of} \cup strayed

\* A reviewer who stops sharing the Thread being viewed, with nothing on its
\* way and no upload under way, leaves no share of it.  A resolved Thread,
\* whose links are frozen, is left out.
UnshareStopsSharing ==
    [][Unshare /\ Quiet /\ uploads = {} /\ viewing = shown /\ IsPending(shown) =>
         \A l \in Links : share'[l].of = shown => ~share'[l].live]_viewVars
=============================================================================
