----------------------- MODULE ThreadController_proofs -----------------------
(***************************************************************************)
(* Proofs, for all Threads, hunks, comments, links and numbers of steps:   *)
(* comments stay with their Thread, in the daemon and in its shares        *)
(* (ViewIInv), and the window comes to show what the daemon has (ShowInv). *)
(***************************************************************************)
EXTENDS ThreadController, SequenceTheorems, TLAPS

MaybeSession == Sessions \cup {NoSession}

Copy == [status : {"none", "pending", "resolved"}, rejected : SUBSET Hunks,
         notes : SUBSET Comments, guessed : SUBSET Comments, links : SUBSET Links]

Share == [of : MaybeSession, live : BOOLEAN, notes : SUBSET Comments,
          mirrored : SUBSET Comments, theirs : SUBSET Comments]

Upload == [of : Sessions, notes : SUBSET Comments, link : Links]

----------------------------------------------------------------------------
(* What may be on its way and on the screen.  A Thread may list a link     *)
(* that shares it, or it is known to have been given another's.            *)
Lists(t, links) == \A l \in links : share[l].of = t \/ t \in strayed

\* Comments the daemon has, of this Thread.
Placed(t, notes) ==
    \A n \in notes : n \in accepted /\ home[n] \in Sessions /\ InPlace(n, t)

\* Apart from guesses, a copy of a Thread has its comments.
Own(t) == {c \in Copy : Lists(t, c.links) /\ Placed(t, c.notes \ c.guessed)}

OwnRows == {rows \in [Sessions -> Copy] : \A t \in Sessions : rows[t] \in Own(t)}

ThreadOps == {"get", "firstget", "curate", "comment", "uncomment", "send", "relink",
              "share", "merge", "fork"}

\* A comment is asked of the Thread it was written on, and its links are
\* that Thread's; what is merged is the share's it is said to come from.
FitsThread(r) ==
    /\ r.op = "curate" => r.with \subseteq Hunks
    /\ r.op \in {"comment", "merge"} => r.with \subseteq Comments
    /\ r.op = "comment" => \A n \in r.with : home[n] = r.of
    /\ r.op \in {"comment", "relink", "share"} => Lists(r.of, r.links)
    /\ r.op = "merge" =>
          /\ r.links # {}
          /\ \A l \in r.links : /\ share[l].of \in Sessions
                                /\ \A n \in r.with : home[n] = share[l].of

ThreadRequest == [op : ThreadOps \cup {"delete"}, of : Sessions,
                  with : SUBSET (Hunks \cup Comments), links : SUBSET Links]
ListRequest == [op : {"list", "first", "create"}, of : MaybeSession,
                with : {{}}, links : {{}}]

Asks == {r \in ThreadRequest : FitsThread(r)} \cup ListRequest

ThreadAnswer == [op : ThreadOps \cup {"create"}, of : Sessions, ok : BOOLEAN, copy : Copy,
                 with : SUBSET (Hunks \cup Comments), links : SUBSET Links]

FitsAnswer(a) ==
    /\ a.copy \in Own(a.of)
    /\ a.op = "comment" =>
          /\ a.with \subseteq Comments
          /\ \A n \in a.with : home[n] = a.of
          /\ Lists(a.of, a.links)
          /\ a.ok => a.with \subseteq accepted

ListAnswer == [op : {"list", "first"}, of : MaybeSession, ok : BOOLEAN, copy : OwnRows,
               with : {{}}, links : {{}}]
EventMessage == [op : {"event"}, of : Sessions, listed : BOOLEAN]

Tells == EventMessage \cup ListAnswer \cup {a \in ThreadAnswer : FitsAnswer(a)}

----------------------------------------------------------------------------
DaemonFits ==
    /\ records \in OwnRows
    /\ deleting \subseteq Sessions
    /\ kin \in [Sessions -> SUBSET Sessions]
    /\ accepted \subseteq Comments
    /\ \A n \in accepted : home[n] \in Sessions
    /\ \A t \in Sessions :
          /\ IsThere(t) => t \in kin[t]
          /\ Placed(t, records[t].notes)

WiresFit == asked \in Seq(Asks) /\ back \in Seq(Tells)

WindowFits ==
    /\ first \in OwnRows /\ inbox \in OwnRows
    /\ viewing \in MaybeSession /\ shown \in MaybeSession
    /\ view \in Copy
    /\ shown \in Sessions => view \in Own(shown)
    /\ shown = NoSession => pulls = {}

GatewayFits ==
    /\ share \in [Links -> Share]
    /\ home \in [Comments -> MaybeSession]
    /\ uploads \subseteq Upload
    /\ pulls \subseteq Links
    /\ strayed \subseteq Sessions
    /\ \A u \in uploads : share[u.link].of = NoSession
    /\ \A u, v \in uploads : u.link = v.link => u = v
    /\ \A u \in uploads : Placed(u.of, u.notes)
    /\ \A l \in Links :
          /\ share[l].notes # {} => share[l].of \in Sessions
          /\ Placed(share[l].of, share[l].notes)
          /\ share[l].live => share[l].of \in Sessions
          /\ \A n \in share[l].theirs : share[l].of \in Sessions /\ home[n] = share[l].of
          /\ \A n \in share[l].mirrored :
                n \in accepted /\ home[n] \in {share[l].of} \cup strayed

ViewIInv == DaemonFits /\ WiresFit /\ WindowFits /\ GatewayFits

----------------------------------------------------------------------------
(* What is on its way stays fitting, because a comment's Thread and a      *)
(* link's Thread are set once, and what was taken or strayed stays so.     *)
Steady ==
    /\ \A n \in Comments : home[n] # NoSession => home'[n] = home[n]
    /\ \A l \in Links : share[l].of # NoSession => share'[l].of = share[l].of
    /\ strayed \subseteq strayed'
    /\ accepted \subseteq accepted'
    /\ \A t \in Sessions : kin[t] \subseteq kin'[t]

LEMMA ListsStays ==
    ASSUME Steady, NEW t \in Sessions, NEW links \in SUBSET Links, Lists(t, links)
    PROVE  Lists(t, links)'
  BY ControllerAssumption DEF Steady, Lists

LEMMA PlacedStays ==
    ASSUME Steady, NEW t \in Sessions, NEW notes \in SUBSET Comments, Placed(t, notes)
    PROVE  Placed(t, notes)'
  BY ControllerAssumption DEF Steady, Placed, InPlace

LEMMA OwnStays ==
    ASSUME Steady, NEW t \in Sessions
    PROVE  Own(t) \subseteq Own(t)'
<1> SUFFICES ASSUME NEW c \in Own(t) PROVE c \in Own(t)'
  OBVIOUS
<1>1. /\ c \in Copy /\ c.links \in SUBSET Links /\ Lists(t, c.links)
      /\ c.notes \ c.guessed \in SUBSET Comments /\ Placed(t, c.notes \ c.guessed)
  BY DEF Own, Copy
<1>2. Lists(t, c.links)' /\ Placed(t, c.notes \ c.guessed)'
  BY <1>1, ListsStays, PlacedStays
<1> QED BY <1>1, <1>2 DEF Own

LEMMA RowsStay ==
    ASSUME Steady
    PROVE  OwnRows \subseteq OwnRows'
  BY OwnStays DEF OwnRows

LEMMA AsksStay ==
    ASSUME Steady
    PROVE  Asks \subseteq Asks'
<1> SUFFICES ASSUME NEW r \in ThreadRequest, FitsThread(r) PROVE FitsThread(r)'
  BY DEF Asks
<1>1. r.of \in Sessions /\ r.links \in SUBSET Links
  BY DEF ThreadRequest
<1>2. r.op = "comment" => \A n \in r.with : home'[n] = r.of
  BY <1>1, ControllerAssumption DEF FitsThread, Steady
<1>3. r.op \in {"comment", "relink", "share"} => Lists(r.of, r.links)'
  BY <1>1, ListsStays DEF FitsThread
<1>4. r.op = "merge" =>
        \A l \in r.links : /\ share'[l].of \in Sessions
                           /\ \A n \in r.with : home'[n] = share'[l].of
  BY <1>1, ControllerAssumption DEF FitsThread, Steady
<1> QED BY <1>2, <1>3, <1>4 DEF FitsThread

LEMMA TellsStay ==
    ASSUME Steady
    PROVE  Tells \subseteq Tells'
<1>1. ListAnswer \subseteq ListAnswer'
  BY RowsStay DEF ListAnswer
<1>2. ASSUME NEW a \in ThreadAnswer, FitsAnswer(a) PROVE FitsAnswer(a)'
  <2>1. a.of \in Sessions /\ a.links \in SUBSET Links
    BY DEF ThreadAnswer
  <2>2. a.copy \in Own(a.of)'
    BY <1>2, <2>1, OwnStays DEF FitsAnswer
  <2>3. a.op = "comment" => \A n \in a.with : home'[n] = a.of
    BY <1>2, <2>1, ControllerAssumption DEF FitsAnswer, Steady
  <2>4. a.op = "comment" => Lists(a.of, a.links)'
    BY <1>2, <2>1, ListsStays DEF FitsAnswer
  <2>5. a.op = "comment" /\ a.ok => a.with \subseteq accepted'
    BY <1>2 DEF FitsAnswer, Steady
  <2> QED BY <1>2, <2>2, <2>3, <2>4, <2>5 DEF FitsAnswer
<1> QED BY <1>1, <1>2 DEF Tells

LEMMA SeqGrows ==
    ASSUME NEW S, NEW T, S \subseteq T
    PROVE  Seq(S) \subseteq Seq(T)
  OBVIOUS

LEMMA WiresStay ==
    ASSUME Steady, WiresFit
    PROVE  asked \in Seq(Asks') /\ back \in Seq(Tells')
  BY AsksStay, TellsStay, SeqGrows DEF WiresFit

LEMMA DaemonStays ==
    ASSUME DaemonFits, Steady, UNCHANGED daemonState
    PROVE  DaemonFits'
<1>1. records' \in OwnRows'
  BY RowsStay DEF DaemonFits, daemonState
<1>2. \A n \in accepted' : home'[n] \in Sessions
  BY ControllerAssumption DEF DaemonFits, daemonState, Steady
<1>3. \A t \in Sessions : \A n \in records[t].notes : n \in Comments
  BY DEF DaemonFits, OwnRows, Copy
<1>4. ASSUME NEW t \in Sessions
      PROVE  (IsThere(t)' => t \in kin'[t]) /\ Placed(t, records[t].notes)'
  <2>1. IsThere(t)' => t \in kin'[t]
    BY DEF DaemonFits, daemonState, IsThere
  <2>2. PICK notes \in SUBSET Comments : notes = records[t].notes
    BY <1>3
  <2>3. Placed(t, notes)'
    BY <2>2, PlacedStays DEF DaemonFits
  <2> QED BY <2>1, <2>2, <2>3 DEF Placed, daemonState
<1> QED BY <1>1, <1>2, <1>4 DEF DaemonFits, daemonState

LEMMA WindowStays ==
    ASSUME WindowFits, Steady, UNCHANGED window, shown = NoSession => pulls' \subseteq pulls
    PROVE  WindowFits'
  BY RowsStay, OwnStays DEF WindowFits, window

\* What was uploaded, and what will be, keeps its place.
LEMMA PublishedStays ==
    ASSUME GatewayFits, Steady
    PROVE  /\ \A u \in uploads : \A n \in u.notes :
                 /\ n \in accepted' /\ home'[n] \in Sessions
                 /\ home'[n] \in kin'[u.of] \/ kin'[u.of] \cap strayed' # {}
           /\ \A l \in Links : \A n \in share[l].notes :
                 /\ n \in accepted' /\ home'[n] \in Sessions
                 /\ \/ home'[n] \in kin'[share[l].of]
                    \/ kin'[share[l].of] \cap strayed' # {}
<1>1. ASSUME NEW t \in Sessions, NEW notes \in SUBSET Comments, Placed(t, notes), NEW n \in notes
      PROVE  /\ n \in accepted' /\ home'[n] \in Sessions
             /\ home'[n] \in kin'[t] \/ kin'[t] \cap strayed' # {}
  <2>1. Placed(t, notes)'
    BY <1>1, PlacedStays
  <2> QED BY <1>1, <2>1 DEF Placed, InPlace
<1>2. \A u \in uploads : u.of \in Sessions /\ u.notes \in SUBSET Comments /\ Placed(u.of, u.notes)
  BY DEF GatewayFits, Upload
<1>3. \A l \in Links : /\ share[l].notes \in SUBSET Comments /\ Placed(share[l].of, share[l].notes)
                       /\ share[l].notes # {} => share[l].of \in Sessions
  BY DEF GatewayFits, Share
<1> QED BY <1>1, <1>2, <1>3

LEMMA GatewayStays ==
    ASSUME GatewayFits, UNCHANGED gateway, Steady
    PROVE  GatewayFits'
<1>1. \A u \in uploads' : Placed(u.of, u.notes)'
  BY PublishedStays DEF Placed, InPlace, gateway
<1>2. \A l \in Links : Placed(share[l].of, share[l].notes)'
  BY PublishedStays DEF Placed, InPlace, gateway
<1>3. \A l \in Links : \A n \in share[l].mirrored : n \in accepted'
  BY DEF GatewayFits, Steady
<1> QED BY <1>1, <1>2, <1>3 DEF GatewayFits, gateway

----------------------------------------------------------------------------
LEMMA BlankFits == Blank \in Copy /\ \A t \in Sessions : Blank \in Own(t)
  BY DEF Blank, Copy, Own, Lists, Placed

LEMMA NoRowsFit == NoRows \in OwnRows
  BY BlankFits DEF NoRows, OwnRows

LEMMA PendingFits == Pending \in Copy /\ \A t \in Sessions : Pending \in Own(t)
  BY DEF Pending, Blank, Copy, Own, Lists, Placed

LEMMA CopiesAreOwn ==
    ASSUME NEW rows \in OwnRows, NEW t \in Sessions
    PROVE  rows[t] \in Own(t) /\ rows[t] \in Copy
  BY DEF OwnRows, Own

LEMMA ViewInitFits == ViewInit => ViewIInv
<1> SUFFICES ASSUME ViewInit PROVE ViewIInv
  OBVIOUS
<1>1. PICK one \in Sessions, two \in Sessions, listed \in SUBSET Links :
        /\ records = [t \in Sessions |->
                       IF t = one THEN [Pending EXCEPT !.links = listed]
                       ELSE IF t = two THEN Pending ELSE Blank]
        /\ share = [l \in Links |->
                      IF l \in listed THEN [NoShare EXCEPT !.of = one, !.live = TRUE]
                      ELSE NoShare]
        /\ kin = [t \in Sessions |-> IF t \in {one, two} THEN {t} ELSE {}]
        /\ viewing \in {one, NoSession}
  BY DEF ViewInit
<1>2. DaemonFits
  <2>1. \A t \in Sessions : records[t] \in Own(t) /\ records[t] \in Copy
    <3>1. [Pending EXCEPT !.links = listed] \in Own(one)
      BY <1>1 DEF Own, Lists, Placed, Copy, Pending, Blank, NoShare
    <3> QED BY <1>1, <3>1, BlankFits, PendingFits DEF Own
  <2>2. \A t \in Sessions : IsThere(t) => t \in kin[t]
    BY <1>1 DEF IsThere, Blank
  <2>3. \A t \in Sessions : Placed(t, records[t].notes)
    BY <1>1 DEF Pending, Blank, Placed
  <2>4. records \in OwnRows
    BY <1>1, <2>1 DEF OwnRows
  <2> QED BY <1>1, <2>2, <2>3, <2>4 DEF DaemonFits, ViewInit
<1>3. WiresFit
  <2>1. Request("first", viewing, {}, {}) \in Asks
    BY <1>1 DEF Request, Asks, ListRequest, MaybeSession
  <2> QED BY <2>1 DEF WiresFit, ViewInit
<1>4. WindowFits
  BY <1>1, NoRowsFit, BlankFits, ControllerAssumption DEF WindowFits, ViewInit, MaybeSession
<1>5. GatewayFits
  <2>1. \A l \in Links :
           /\ share[l] \in Share
           /\ share[l].live => share[l].of \in Sessions
           /\ share[l].theirs = {} /\ share[l].mirrored = {} /\ share[l].notes = {}
    BY <1>1 DEF Share, NoShare, MaybeSession
  <2>2. home \in [Comments -> MaybeSession]
    BY DEF ViewInit, MaybeSession
  <2> QED BY <1>1, <2>1, <2>2 DEF GatewayFits, ViewInit, Placed
<1> QED BY <1>2, <1>3, <1>4, <1>5 DEF ViewIInv

----------------------------------------------------------------------------
(* The daemon serves a request *)

LEMMA RowsAreOwn == DaemonFits => Rows \in OwnRows
<1> SUFFICES ASSUME DaemonFits PROVE Rows \in OwnRows
  OBVIOUS
<1>1. \A t \in Sessions : Rows[t] \in Own(t) /\ Rows[t] \in Copy
  BY CopiesAreOwn, BlankFits DEF DaemonFits, Rows
<1> QED BY <1>1 DEF OwnRows, Rows

LEMMA RefuseFits ==
    ASSUME ViewIInv, NEW r \in Asks, Refuse(r)
    PROVE  Answer(r, FALSE, Blank) \in Tells
<1>1. r \in ThreadRequest /\ FitsThread(r) /\ r.op \in ThreadOps
  BY DEF Refuse, Accepts, Changes, Asks, ListRequest, ThreadRequest
<1>2. Answer(r, FALSE, Blank) \in ThreadAnswer
  BY <1>1, BlankFits DEF Answer, ThreadAnswer, ThreadRequest
<1>3. FitsAnswer(Answer(r, FALSE, Blank))
  BY <1>1, BlankFits DEF FitsAnswer, Answer, FitsThread, ThreadRequest
<1> QED BY <1>2, <1>3 DEF Tells

LEMMA TellFits ==
    ASSUME ViewIInv, NEW r \in Asks, Tell(r)
    PROVE  Answer(r, TRUE, IF r.op \in {"list", "first"} THEN Rows ELSE records[r.of]) \in Tells
<1>1. CASE r.op \in {"list", "first"}
  <2>1. r \in ListRequest
    BY <1>1 DEF Asks, ThreadRequest, ThreadOps
  <2>2. Answer(r, TRUE, Rows) \in ListAnswer
    BY <1>1, <2>1, RowsAreOwn DEF Answer, ListAnswer, ListRequest, ViewIInv
  <2> QED BY <1>1, <2>2 DEF Tells
<1>2. CASE r.op \in {"get", "firstget"}
  <2>1. r \in ThreadRequest
    BY <1>2 DEF Asks, ListRequest
  <2>2. records[r.of] \in Own(r.of) /\ records[r.of] \in Copy
    BY <2>1, CopiesAreOwn DEF ViewIInv, DaemonFits, ThreadRequest
  <2>3. Answer(r, TRUE, records[r.of]) \in ThreadAnswer
    BY <1>2, <2>1, <2>2 DEF Answer, ThreadAnswer, ThreadRequest
  <2>4. FitsAnswer(Answer(r, TRUE, records[r.of]))
    BY <1>2, <2>2 DEF FitsAnswer, Answer
  <2> QED BY <1>2, <2>3, <2>4 DEF Tells
<1> QED BY <1>1, <1>2 DEF Tell

\* The record a change leaves lists the Thread's links, and its comments are
\* of the Thread; those the daemon did not have came with the request.
LEMMA UpdatedFits ==
    ASSUME ViewIInv, NEW r \in Asks, r.op \in Changes, Accepts(r)
    PROVE  /\ r \in ThreadRequest /\ FitsThread(r)
           /\ Updated(r) \in Copy /\ Lists(r.of, Updated(r).links)
           /\ r.of \in kin[r.of]
           /\ \A n \in Updated(r).notes :
                 /\ n \in accepted \/ (r.op \in {"comment", "merge"} /\ n \in r.with)
                 /\ home[n] \in Sessions /\ InPlace(n, r.of)
<1>1. r \in ThreadRequest /\ FitsThread(r) /\ r.of \in Sessions
  BY DEF Changes, Asks, ListRequest, ThreadRequest
<1> DEFINE old == records[r.of]
<1>2. old \in Copy /\ Lists(r.of, old.links) /\ old.status = "pending"
  BY <1>1, CopiesAreOwn DEF ViewIInv, DaemonFits, Accepts, IsPending, Own
<1>3. r.of \in kin[r.of]
  BY <1>1, <1>2 DEF ViewIInv, DaemonFits, IsThere
<1>4. \A n \in old.notes : n \in accepted /\ home[n] \in Sessions /\ InPlace(n, r.of)
  BY <1>1 DEF ViewIInv, DaemonFits, Placed
<1> HIDE DEF old
<1>5. CASE r.op = "curate"
  <2>1. Updated(r) = [old EXCEPT !.rejected = r.with] /\ r.with \subseteq Hunks
    BY <1>1, <1>5 DEF Updated, old, FitsThread
  <2>2. Updated(r) \in Copy /\ Updated(r).notes = old.notes /\ Updated(r).links = old.links
    BY <1>2, <2>1 DEF Copy
  <2> QED BY <1>1, <1>2, <1>3, <1>4, <2>2
<1>6. CASE r.op \in {"comment", "merge"}
  <2>1. Updated(r) = [old EXCEPT !.notes = @ \cup r.with] /\ r.with \subseteq Comments
    BY <1>1, <1>6 DEF Updated, old, FitsThread
  <2>2. /\ Updated(r) \in Copy
        /\ Updated(r).notes = old.notes \cup r.with
        /\ Updated(r).links = old.links
    BY <1>2, <2>1 DEF Copy
  <2>3. \A n \in r.with : home[n] \in Sessions /\ (home[n] = r.of \/ r.of \in strayed)
    <3>1. CASE r.op = "comment"
      BY <1>1, <3>1 DEF FitsThread
    <3>2. CASE r.op = "merge"
      <4>1. PICK l \in r.links : l \in old.links
        BY <1>1, <3>2 DEF FitsThread, Accepts, old
      <4>2. share[l].of = r.of \/ r.of \in strayed
        BY <1>2, <4>1 DEF Lists
      <4> QED BY <1>1, <3>2, <4>1, <4>2 DEF FitsThread
    <3> QED BY <1>6, <3>1, <3>2
  <2>4. \A n \in r.with : InPlace(n, r.of)
    BY <1>3, <2>3 DEF InPlace
  <2> QED BY <1>1, <1>2, <1>3, <1>4, <1>6, <2>2, <2>3, <2>4
<1>7. CASE r.op = "uncomment"
  <2>1. Updated(r) = [old EXCEPT !.notes = @ \ r.with]
    BY <1>7 DEF Updated, old
  <2>2. Updated(r) \in Copy /\ Updated(r).notes \subseteq old.notes /\ Updated(r).links = old.links
    BY <1>2, <2>1 DEF Copy
  <2> QED BY <1>1, <1>2, <1>3, <1>4, <2>2
<1>8. CASE r.op \in {"relink", "share"}
  <2>1. Updated(r) = [old EXCEPT !.links = r.links] /\ r.links \in SUBSET Links
    BY <1>1, <1>8 DEF Updated, old, ThreadRequest
  <2>2. Updated(r) \in Copy /\ Updated(r).notes = old.notes /\ Updated(r).links = r.links
    BY <1>2, <2>1 DEF Copy
  <2>3. Lists(r.of, r.links)
    BY <1>1, <1>8 DEF FitsThread
  <2> QED BY <1>1, <1>3, <1>4, <2>2, <2>3
<1>9. CASE r.op = "send"
  <2>1. Updated(r) = [old EXCEPT !.status = "resolved"]
    BY <1>9 DEF Updated, old
  <2>2. Updated(r) \in Copy /\ Updated(r).notes = old.notes /\ Updated(r).links = old.links
    BY <1>2, <2>1 DEF Copy
  <2> QED BY <1>1, <1>2, <1>3, <1>4, <2>2
<1> QED BY <1>5, <1>6, <1>7, <1>8, <1>9 DEF Changes

LEMMA ChangeKeeps ==
    ASSUME ViewIInv, NEW r \in Asks, Change(r), UNCHANGED <<window, gateway>>
    PROVE  Steady /\ DaemonFits' /\ back' \in Seq(Tells')
<1>1. Steady
  BY DEF Steady, Change, gateway
<1>2. /\ r \in ThreadRequest /\ FitsThread(r) /\ r.of \in Sessions
      /\ Updated(r) \in Copy /\ Lists(r.of, Updated(r).links)
      /\ r.of \in kin[r.of]
      /\ \A n \in Updated(r).notes :
            /\ n \in accepted \/ (r.op \in {"comment", "merge"} /\ n \in r.with)
            /\ home[n] \in Sessions /\ InPlace(n, r.of)
  BY UpdatedFits DEF Change, ThreadRequest
<1>3. PICK made \in Copy :
        /\ made = Updated(r)
        /\ records' = [records EXCEPT ![r.of] = made]
        /\ records'[r.of] = made
        /\ \A t \in Sessions : t # r.of => records'[t] = records[t]
  BY <1>2 DEF Change, ViewIInv, DaemonFits, OwnRows
<1>4. Placed(r.of, made.notes)' /\ made \in Own(r.of)'
  <2>1. Placed(r.of, made.notes)'
    BY <1>2, <1>3 DEF Placed, InPlace, Change, gateway
  <2>2. Lists(r.of, made.links)'
    BY <1>2, <1>3 DEF Lists, gateway
  <2>3. Placed(r.of, made.notes \ made.guessed)'
    BY <2>1 DEF Placed
  <2> QED BY <2>1, <2>2, <2>3 DEF Own
<1>5. DaemonFits'
  <2>1. \A t \in Sessions : records[t] \in Own(t)' /\ records[t] \in Copy
    BY <1>1, CopiesAreOwn, OwnStays DEF ViewIInv, DaemonFits
  <2>2. \A t \in Sessions : records'[t] \in Own(t)' /\ records'[t] \in Copy
    BY <1>3, <1>4, <2>1
  <2>3. records' \in OwnRows'
    BY <1>3, <2>2 DEF OwnRows, ViewIInv, DaemonFits
  <2>4. accepted' \subseteq Comments /\ \A n \in accepted' : home'[n] \in Sessions
    BY <1>2 DEF Change, ViewIInv, DaemonFits, FitsThread, gateway
  <2>5. ASSUME NEW t \in Sessions
        PROVE  (IsThere(t)' => t \in kin'[t]) /\ Placed(t, records[t].notes)'
    <3>1. CASE t = r.of
      BY <1>2, <1>3, <1>4, <3>1 DEF Placed, Change
    <3>2. CASE t # r.of
      <4>1. PICK notes \in SUBSET Comments : notes = records[t].notes
        BY <2>1 DEF Copy
      <4>2. Placed(t, notes)'
        BY <1>1, <4>1, PlacedStays DEF ViewIInv, DaemonFits
      <4>3. IsThere(t)' => t \in kin'[t]
        BY <1>3, <3>2 DEF IsThere, Change, ViewIInv, DaemonFits
      <4> QED BY <1>3, <3>2, <4>1, <4>2, <4>3 DEF Placed
    <3> QED BY <3>1, <3>2
  <2> QED BY <2>3, <2>4, <2>5 DEF DaemonFits, Change, ViewIInv
<1>6. back' \in Seq(Tells')
  <2>1. PICK event \in EventMessage : event = Event(r.of, r.op = "send")
    <3>1. PICK listed \in BOOLEAN : listed = (r.op = "send")
      OBVIOUS
    <3>2. Event(r.of, listed) \in EventMessage
      BY <1>2 DEF Event, EventMessage
    <3> QED BY <3>1, <3>2
  <2>2. PICK answer \in ThreadAnswer : answer = Answer(r, TRUE, made)
    BY <1>2 DEF Change, Changes, ThreadRequest, ThreadOps, Answer, ThreadAnswer
  <2>3. answer.copy \in Own(answer.of)'
    BY <1>4, <2>2 DEF Answer
  <2>4. FitsAnswer(answer)'
    <3>1. CASE r.op = "comment"
      <4>1. Lists(r.of, r.links)'
        BY <1>1, <1>2, <3>1, ListsStays DEF FitsThread, ThreadRequest
      <4>2. r.with \subseteq Comments /\ r.with \subseteq accepted' /\ \A n \in r.with : home'[n] = r.of
        BY <1>2, <3>1 DEF FitsThread, Change, gateway
      <4> QED BY <2>2, <2>3, <3>1, <4>1, <4>2 DEF FitsAnswer, Answer
    <3> QED BY <2>2, <2>3, <3>1 DEF FitsAnswer, Answer
  <2>5. answer \in Tells' /\ event \in Tells'
    BY <2>1, <2>2, <2>4 DEF Tells
  <2>6. back \in Seq(Tells')
    BY <1>1, WiresStay DEF ViewIInv
  <2>7. back' = back \o <<event, answer>>
    BY <1>3, <2>1, <2>2 DEF Change
  <2>8. <<event, answer>> \in Seq(Tells')
    BY <2>5
  <2> QED BY <2>6, <2>7, <2>8, ConcatProperties
<1> QED BY <1>1, <1>5, <1>6

LEMMA BearKeeps ==
    ASSUME ViewIInv, NEW r \in Asks, Bear(r), UNCHANGED <<window, gateway>>
    PROVE  Steady /\ DaemonFits' /\ back' \in Seq(Tells')
<1> DEFINE copied == IF r.op = "fork" THEN records[r.of].notes ELSE {}
           born == [Pending EXCEPT !.notes = copied]
<1>1. PICK t \in Unused :
        /\ records' = [records EXCEPT ![t] = born]
        /\ back' = back \o <<Event(t, TRUE), [Answer(r, TRUE, records'[t]) EXCEPT !.of = t]>>
        /\ kin' = [kin EXCEPT ![t] = {t} \cup (IF r.op = "fork" THEN kin[r.of] ELSE {})]
  BY DEF Bear
<1>2. t \in Sessions /\ kin[t] = {}
  BY <1>1 DEF Unused
<1>3. Steady
  BY <1>1, <1>2 DEF Steady, Bear, gateway, ViewIInv, DaemonFits
<1>4. r.op = "fork" => r.of \in Sessions /\ r \in ThreadRequest
  BY DEF Asks, ListRequest, ThreadRequest
<1>5. copied \subseteq Comments
  BY <1>4 DEF ViewIInv, DaemonFits, OwnRows, Copy
<1>6. /\ born \in Copy
      /\ born.notes = copied /\ born.guessed = {} /\ born.links = {}
  BY <1>5 DEF Pending, Blank, Copy
<1> HIDE DEF born
<1>7. PICK made \in Copy :
         made = born /\ made.notes = copied /\ made.guessed = {} /\ made.links = {}
  BY <1>6
<1>8. /\ records'[t] = made
      /\ kin'[t] = {t} \cup (IF r.op = "fork" THEN kin[r.of] ELSE {})
      /\ \A s \in Sessions : s # t => records'[s] = records[s] /\ kin'[s] = kin[s]
      /\ kin' \in [Sessions -> SUBSET Sessions]
  BY <1>1, <1>2, <1>4, <1>7 DEF ViewIInv, DaemonFits, OwnRows
<1>9. Placed(t, made.notes)' /\ made \in Own(t)'
  <2>1. Placed(t, made.notes)'
    <3>1. ASSUME NEW n \in made.notes
          PROVE  /\ n \in accepted /\ home[n] \in Sessions
                 /\ home[n] \in kin'[t] \/ kin'[t] \cap strayed # {}
      <4>1. r.op = "fork" /\ r.of \in Sessions /\ n \in records[r.of].notes
        BY <1>4, <1>7, <3>1
      <4> QED BY <1>8, <4>1 DEF ViewIInv, DaemonFits, Placed, InPlace
    <3> QED BY <3>1 DEF Placed, InPlace, Bear, gateway
  <2>2. Lists(t, made.links)'
    BY <1>7 DEF Lists
  <2>3. Placed(t, made.notes \ made.guessed)'
    BY <2>1 DEF Placed
  <2> QED BY <1>7, <2>1, <2>2, <2>3 DEF Own
<1>10. DaemonFits'
  <2>1. \A s \in Sessions : records[s] \in Own(s)' /\ records[s] \in Copy
    BY <1>3, CopiesAreOwn, OwnStays DEF ViewIInv, DaemonFits
  <2>2. \A s \in Sessions : records'[s] \in Own(s)' /\ records'[s] \in Copy
    BY <1>8, <1>9, <2>1
  <2>3. records' \in OwnRows'
    BY <1>1, <2>2 DEF OwnRows, ViewIInv, DaemonFits
  <2>4. ASSUME NEW s \in Sessions
        PROVE  (IsThere(s)' => s \in kin'[s]) /\ Placed(s, records[s].notes)'
    <3>1. CASE s = t
      BY <1>8, <1>9, <3>1 DEF Placed
    <3>2. CASE s # t
      <4>1. PICK old \in SUBSET Comments : old = records[s].notes
        BY <2>1 DEF Copy
      <4>2. Placed(s, old)'
        BY <1>3, <4>1, PlacedStays DEF ViewIInv, DaemonFits
      <4>3. IsThere(s)' => s \in kin'[s]
        BY <1>8, <3>2 DEF IsThere, ViewIInv, DaemonFits
      <4> QED BY <1>8, <3>2, <4>1, <4>2, <4>3 DEF Placed
    <3> QED BY <3>1, <3>2
  <2> QED BY <1>8, <2>3, <2>4 DEF DaemonFits, Bear, ViewIInv, gateway
<1>11. back' \in Seq(Tells')
  <2>1. PICK event \in EventMessage : event = Event(t, TRUE)
    BY <1>2 DEF Event, EventMessage
  <2>2. PICK answer \in ThreadAnswer : answer = [Answer(r, TRUE, made) EXCEPT !.of = t]
    <3>1. r.op \in {"fork", "create"} /\ r.with \in SUBSET (Hunks \cup Comments) /\ r.links \in SUBSET Links
      BY DEF Bear, Asks, ThreadRequest, ListRequest
    <3> QED BY <1>2, <3>1 DEF Answer, ThreadAnswer, ThreadOps
  <2>3. answer.copy \in Own(answer.of)' /\ answer.op # "comment"
    BY <1>9, <2>2 DEF Answer, Bear
  <2>4. event \in Tells' /\ answer \in Tells'
    <3>1. FitsAnswer(answer)'
      BY <2>3 DEF FitsAnswer
    <3> QED BY <2>1, <2>2, <3>1 DEF Tells
  <2>5. back \in Seq(Tells')
    BY <1>3, WiresStay DEF ViewIInv
  <2>6. back' = back \o <<event, answer>>
    BY <1>1, <1>8, <2>1, <2>2
  <2>7. <<event, answer>> \in Seq(Tells')
    BY <2>4
  <2> QED BY <2>5, <2>6, <2>7, ConcatProperties
<1> QED BY <1>3, <1>10, <1>11

LEMMA ServeKeeps == ViewIInv /\ Serve => ViewIInv'
<1> SUFFICES ASSUME ViewIInv, Serve PROVE ViewIInv'
  OBVIOUS
<1> DEFINE r == Head(asked)
<1>1. asked \in Seq(Asks) /\ asked # <<>> /\ asked' = Tail(asked)
  BY DEF ViewIInv, WiresFit, Serve
<1>2. r \in Asks /\ asked' \in Seq(Asks)
  BY <1>1, HeadTailProperties
<1>3. UNCHANGED <<window, gateway>> /\ (Refuse(r) \/ Tell(r) \/ Change(r) \/ Bear(r) \/ BeginDelete(r))
  BY DEF Serve
<1> HIDE DEF r
<1>4. Steady /\ DaemonFits' /\ back' \in Seq(Tells')
  <2>1. CASE Change(r)
    BY <1>2, <1>3, <2>1, ChangeKeeps
  <2>2. CASE Bear(r)
    BY <1>2, <1>3, <2>2, BearKeeps
  <2>3. CASE Refuse(r) \/ Tell(r)
    <3>1. Steady /\ UNCHANGED daemonState
      BY <1>3, <2>3 DEF Refuse, Tell, Steady, gateway, daemonState
    <3>2. DaemonFits'
      BY <3>1, DaemonStays DEF ViewIInv
    <3>3. PICK a \in Tells : back' = Append(back, a)
      BY <1>2, <2>3, RefuseFits, TellFits DEF Refuse, Tell
    <3>4. back \in Seq(Tells)
      BY DEF ViewIInv, WiresFit
    <3> QED BY <3>1, <3>2, <3>3, <3>4, TellsStay, SeqGrows, AppendProperties
  <2>4. CASE BeginDelete(r)
    <3>1. Steady
      BY <1>3, <2>4 DEF BeginDelete, Steady, gateway
    <3>2. r.of \in Sessions
      BY <1>2, <2>4 DEF BeginDelete, Asks, ListRequest, ThreadRequest
    <3>3. DaemonFits'
      BY <1>3, <2>4, <3>1, <3>2, RowsStay
         DEF BeginDelete, ViewIInv, DaemonFits, gateway, IsThere, Placed, InPlace
    <3>4. back' \in Seq(Tells')
      BY <2>4, <3>1, WiresStay DEF BeginDelete, ViewIInv
    <3> QED BY <3>1, <3>3, <3>4
  <2> QED BY <1>3, <2>1, <2>2, <2>3, <2>4
<1>5. asked' \in Seq(Asks')
  BY <1>2, <1>4, AsksStay, SeqGrows
<1>6. WindowFits'
  BY <1>3, <1>4, WindowStays DEF ViewIInv, gateway
<1>7. GatewayFits'
  BY <1>3, <1>4, GatewayStays DEF ViewIInv
<1> QED BY <1>4, <1>5, <1>6, <1>7 DEF ViewIInv, WiresFit

LEMMA FinishDeleteKeeps == ViewIInv /\ FinishDelete => ViewIInv'
<1> SUFFICES ASSUME ViewIInv, FinishDelete PROVE ViewIInv'
  OBVIOUS
<1>1. PICK t \in deleting :
        /\ deleting' = deleting \ {t}
        /\ records' = [records EXCEPT ![t] = Blank]
        /\ back' = IF IsThere(t) THEN Append(back, Event(t, TRUE)) ELSE back
  BY DEF FinishDelete
<1>2. Steady /\ t \in Sessions
  BY DEF FinishDelete, Steady, gateway, ViewIInv, DaemonFits
<1>3. DaemonFits'
  <2>1. records' \in OwnRows
    BY <1>1, <1>2, BlankFits DEF ViewIInv, DaemonFits, OwnRows
  <2>2. \A s \in Sessions : records'[s] = IF s = t THEN Blank ELSE records[s]
    BY <1>1, <1>2 DEF ViewIInv, DaemonFits, OwnRows
  <2>3. Blank.status = "none" /\ Blank.notes = {}
    BY DEF Blank
  <2>4. \A s \in Sessions :
           (IsThere(s)' => s \in kin'[s]) /\ Placed(s, records[s].notes)'
    BY <2>2, <2>3 DEF FinishDelete, ViewIInv, DaemonFits, gateway, IsThere, Placed, InPlace
  <2> QED BY <1>1, <1>2, <2>1, <2>4, RowsStay DEF FinishDelete, ViewIInv, DaemonFits, gateway
<1>4. WiresFit'
  <2>1. Event(t, TRUE) \in Tells
    BY <1>2 DEF Event, EventMessage, Tells
  <2>2. back' \in Seq(Tells)
    BY <1>1, <2>1, AppendProperties DEF ViewIInv, WiresFit
  <2> QED BY <1>2, <2>2, AsksStay, TellsStay, SeqGrows DEF FinishDelete, ViewIInv, WiresFit
<1>5. WindowFits'
  BY <1>2, WindowStays DEF ViewIInv, FinishDelete, gateway
<1>6. GatewayFits'
  BY <1>2, GatewayStays DEF ViewIInv, FinishDelete
<1> QED BY <1>3, <1>4, <1>5, <1>6 DEF ViewIInv

----------------------------------------------------------------------------
(* What arrives in the window *)

\* What is taken from the daemon's side was told, and the rest still is.
LEMMA ArrivesFits ==
    ASSUME WiresFit, NEW ops, Arrives(ops)
    PROVE  /\ Head(back) \in Tells /\ Head(back).op \in ops
           /\ back' \in Seq(Tells)
  BY HeadTailProperties DEF WiresFit, Arrives

LEMMA AskedFits ==
    ASSUME WiresFit, NEW r \in Asks
    PROVE  Append(asked, r) \in Seq(Asks)
  BY AppendProperties DEF WiresFit

LEMMA GetFits ==
    ASSUME NEW t \in Sessions, NEW op \in {"get", "firstget"}
    PROVE  Request(op, t, {}, {}) \in Asks
  BY DEF Request, Asks, ThreadRequest, ThreadOps, FitsThread

\* A step of the window alone.
LEMMA WindowMoves ==
    ASSUME ViewIInv, UNCHANGED <<daemonState, gateway>>,
           asked' \in Seq(Asks), back' \in Seq(Tells),
           first' \in OwnRows, inbox' \in OwnRows,
           viewing' \in MaybeSession, shown' \in MaybeSession, view' \in Copy,
           shown' \in Sessions => view' \in Own(shown'),
           shown' = NoSession => shown = NoSession
    PROVE  ViewIInv'
<1>1. Steady
  BY DEF Steady, daemonState, gateway
<1>2. WiresFit'
  BY <1>1, AsksStay, TellsStay, SeqGrows DEF WiresFit
<1>3. WindowFits'
  <2>1. first' \in OwnRows' /\ inbox' \in OwnRows'
    BY <1>1, RowsStay
  <2>2. \A t \in Sessions : Own(t) \subseteq Own(t)'
    BY <1>1, OwnStays
  <2>3. shown' \in Sessions => view' \in Own(shown)'
    <3>1. PICK t : t = shown'
      OBVIOUS
    <3>2. PICK c : c = view'
      OBVIOUS
    <3>3. t \in Sessions => c \in Own(t)'
      BY <2>2, <3>1, <3>2
    <3> QED BY <3>1, <3>2, <3>3 DEF Own, Lists, Placed, InPlace
  <2> QED BY <2>1, <2>3 DEF WindowFits, ViewIInv, gateway
<1> QED BY <1>1, <1>2, <1>3, DaemonStays, GatewayStays DEF ViewIInv

LEMMA ListArrives ==
    ASSUME ViewIInv, NEW ops \in SUBSET {"list", "first"}, Arrives(ops)
    PROVE  Head(back) \in ListAnswer /\ back' \in Seq(Tells)
<1>1. Head(back) \in Tells /\ Head(back).op \in ops /\ back' \in Seq(Tells)
  BY ArrivesFits DEF ViewIInv
<1> QED BY <1>1 DEF Tells, EventMessage, ThreadAnswer, ThreadOps

LEMMA GetsEventKeeps == ViewIInv /\ GetsEvent => ViewIInv'
<1> SUFFICES ASSUME ViewIInv, GetsEvent PROVE ViewIInv'
  OBVIOUS
<1>1. Head(back) \in EventMessage /\ back' \in Seq(Tells)
  <2>1. Arrives({"event"})
    BY DEF GetsEvent
  <2>2. Head(back) \in Tells /\ Head(back).op \in {"event"} /\ back' \in Seq(Tells)
    BY <2>1, ArrivesFits DEF ViewIInv
  <2> QED BY <2>2 DEF Tells, ListAnswer, ThreadAnswer, ThreadOps
<1> DEFINE e == Head(back)
           reads == IF e.of = shown THEN <<Request("get", shown, {}, {})>> ELSE <<>>
           lists == IF e.listed THEN <<Request("list", NoSession, {}, {})>> ELSE <<>>
<1>2. asked' = asked \o reads \o lists
  BY DEF GetsEvent
<1>3. reads \in Seq(Asks)
  <2>1. CASE e.of = shown
    <3>1. Request("get", shown, {}, {}) \in Asks
      BY <1>1, <2>1, GetFits DEF EventMessage
    <3> QED BY <2>1, <3>1
  <2> QED BY <2>1
<1>4. lists \in Seq(Asks)
  <2>1. Request("list", NoSession, {}, {}) \in Asks
    BY DEF Request, Asks, ListRequest, MaybeSession
  <2> QED BY <2>1
<1> HIDE DEF reads, lists
<1>5. asked' \in Seq(Asks)
  BY <1>2, <1>3, <1>4, ConcatProperties DEF ViewIInv, WiresFit
<1> QED BY <1>1, <1>5, WindowMoves DEF GetsEvent, ViewIInv, WindowFits, window

LEMMA GetsListKeeps == ViewIInv /\ GetsList => ViewIInv'
<1> SUFFICES ASSUME ViewIInv, GetsList PROVE ViewIInv'
  OBVIOUS
<1>1. Head(back) \in ListAnswer /\ back' \in Seq(Tells)
  BY ListArrives DEF GetsList
<1> QED BY <1>1, WindowMoves DEF GetsList, ViewIInv, WindowFits, WiresFit, ListAnswer

LEMMA GetsFirstListKeeps == ViewIInv /\ GetsFirstList => ViewIInv'
<1> SUFFICES ASSUME ViewIInv, GetsFirstList PROVE ViewIInv'
  OBVIOUS
<1>1. Head(back) \in ListAnswer /\ back' \in Seq(Tells)
  BY ListArrives DEF GetsFirstList
<1>2. first' \in OwnRows /\ inbox' \in OwnRows
  BY <1>1 DEF GetsFirstList, ViewIInv, WindowFits, ListAnswer
<1>3. asked' \in Seq(Asks)
  <2>1. CASE viewing = NoSession
    BY <2>1 DEF GetsFirstList, ViewIInv, WiresFit
  <2>2. CASE viewing # NoSession
    <3>1. Request("firstget", viewing, {}, {}) \in Asks
      BY <2>2, GetFits DEF ViewIInv, WindowFits, MaybeSession
    <3> QED BY <2>2, <3>1, AskedFits DEF GetsFirstList, ViewIInv, Ask
  <2> QED BY <2>1, <2>2
<1> QED BY <1>1, <1>2, <1>3, WindowMoves DEF GetsFirstList, ViewIInv, WindowFits

LEMMA ThreadArrives ==
    ASSUME ViewIInv, NEW ops \in SUBSET (ThreadOps \cup {"create"}), Arrives(ops)
    PROVE  /\ Head(back) \in ThreadAnswer /\ FitsAnswer(Head(back))
           /\ Head(back).of \in Sessions /\ Head(back).of \in MaybeSession
           /\ Head(back).of # NoSession
           /\ Head(back).copy \in Copy /\ Head(back).copy \in Own(Head(back).of)
           /\ back' \in Seq(Tells)
<1>1. Head(back) \in Tells /\ Head(back).op \in ops /\ back' \in Seq(Tells)
  BY ArrivesFits DEF ViewIInv
<1>2. Head(back) \in ThreadAnswer /\ FitsAnswer(Head(back))
  BY <1>1 DEF Tells, EventMessage, ListAnswer, ThreadOps
<1> QED BY <1>1, <1>2, ControllerAssumption DEF ThreadAnswer, FitsAnswer, MaybeSession

LEMMA GetsThreadsKeep == ViewIInv /\ (GetsFirst \/ GetsThread \/ GetsCreated) => ViewIInv'
<1> SUFFICES ASSUME ViewIInv, GetsFirst \/ GetsThread \/ GetsCreated PROVE ViewIInv'
  OBVIOUS
<1>1. /\ Head(back).of \in Sessions /\ Head(back).of \in MaybeSession
      /\ Head(back).of # NoSession
      /\ Head(back).copy \in Copy /\ Head(back).copy \in Own(Head(back).of)
      /\ back' \in Seq(Tells)
  <2>1. PICK ops \in SUBSET (ThreadOps \cup {"create"}) : Arrives(ops)
    BY DEF GetsFirst, GetsThread, GetsCreated, ThreadOps
  <2> QED BY <2>1, ThreadArrives
<1>2. UNCHANGED <<daemonState, gateway, asked>>
  BY DEF GetsFirst, GetsThread, GetsCreated
<1>3. CASE GetsFirst
  BY <1>1, <1>2, <1>3, NoRowsFit, WindowMoves
     DEF GetsFirst, Show, ViewIInv, WindowFits, WiresFit
<1>4. CASE GetsThread
  BY <1>1, <1>2, <1>4, WindowMoves DEF GetsThread, Show, ViewIInv, WindowFits, WiresFit
<1>5. CASE GetsCreated
  BY <1>1, <1>2, <1>5, WindowMoves DEF GetsCreated, Show, ViewIInv, WindowFits, WiresFit
<1> QED BY <1>3, <1>4, <1>5

\* A comment is mirrored once it is taken, and to its Thread's links.
LEMMA MirrorFits ==
    ASSUME GatewayFits, NEW a \in ThreadAnswer, FitsAnswer(a), a.ok, Mirror(a),
           UNCHANGED <<uploads, pulls, home, strayed, accepted, kin>>
    PROVE  /\ GatewayFits'
           /\ \A l \in Links : share'[l].of = share[l].of
<1>1. /\ share' \in [Links -> Share]
      /\ \A l \in Links :
            /\ share'[l].of = share[l].of
            /\ share'[l].live = share[l].live
            /\ share'[l].notes = share[l].notes
            /\ share'[l].theirs = share[l].theirs
            /\ share'[l].mirrored = IF a.op = "comment" /\ l \in a.links /\ share[l].live
                                    THEN share[l].mirrored \cup a.with ELSE share[l].mirrored
  <2>1. \A l \in Links : share[l] \in Share
    BY DEF GatewayFits
  <2>2. a.op = "comment" => a.with \subseteq Comments
    BY DEF FitsAnswer
  <2> QED BY <2>1, <2>2 DEF Mirror, Share
<1>2. ASSUME NEW l \in Links, NEW n \in share'[l].mirrored
      PROVE  n \in accepted /\ home[n] \in {share[l].of} \cup strayed
  <2>1. CASE n \in share[l].mirrored
    BY <2>1 DEF GatewayFits
  <2>2. CASE n \notin share[l].mirrored
    <3>1. a.op = "comment" /\ l \in a.links /\ n \in a.with
      BY <1>1, <1>2, <2>2
    <3>2. n \in accepted /\ home[n] = a.of
      BY <3>1 DEF FitsAnswer
    <3>3. share[l].of = a.of \/ a.of \in strayed
      BY <3>1 DEF FitsAnswer, Lists
    <3> QED BY <3>2, <3>3
  <2> QED BY <2>1, <2>2
<1>3. \A u \in uploads : u.link \in Links
  BY DEF GatewayFits, Upload
<1>4. /\ \A u \in uploads' : Placed(u.of, u.notes)'
      /\ \A l \in Links : Placed(share[l].of, share[l].notes)'
  BY <1>1 DEF GatewayFits, Placed, InPlace
<1> QED BY <1>1, <1>2, <1>3, <1>4 DEF GatewayFits

LEMMA GetsChangedKeeps == ViewIInv /\ GetsChanged => ViewIInv'
<1> SUFFICES ASSUME ViewIInv, GetsChanged PROVE ViewIInv'
  OBVIOUS
<1>1. Arrives(Guesses \cup {"uncomment", "send", "fork"})
  BY DEF GetsChanged
<1>2. /\ Head(back) \in ThreadAnswer /\ FitsAnswer(Head(back))
      /\ Head(back).of \in Sessions /\ Head(back).of \in MaybeSession
      /\ Head(back).of # NoSession
      /\ Head(back).copy \in Copy /\ Head(back).copy \in Own(Head(back).of)
      /\ back' \in Seq(Tells)
  <2>1. Guesses \cup {"uncomment", "send", "fork"} \in SUBSET (ThreadOps \cup {"create"})
    BY DEF Guesses, ThreadOps
  <2> QED BY <1>1, <2>1, ThreadArrives
<1>3. /\ UNCHANGED daemonState
      /\ UNCHANGED <<asked, first, viewing, inbox, uploads, pulls, home, strayed>>
      /\ shown' = Head(back).of /\ view' = Head(back).copy
      /\ Head(back).ok /\ Mirror(Head(back))
  BY DEF GetsChanged, Show
<1>4. GatewayFits' /\ \A l \in Links : share'[l].of = share[l].of
  BY <1>2, <1>3, MirrorFits DEF ViewIInv, daemonState
<1>5. Steady
  BY <1>3, <1>4 DEF Steady, daemonState
<1>6. DaemonFits'
  BY <1>3, <1>5, DaemonStays DEF ViewIInv
<1>7. WiresFit'
  BY <1>2, <1>3, <1>5, AsksStay, TellsStay, SeqGrows DEF ViewIInv, WiresFit
<1>8. WindowFits'
  <2>1. first' \in OwnRows' /\ inbox' \in OwnRows'
    BY <1>3, <1>5, RowsStay DEF ViewIInv, WindowFits
  <2>2. view' \in Own(shown)'
    <3>1. PICK t \in Sessions : t = shown'
      BY <1>2, <1>3
    <3>2. PICK c \in Own(t) : c = view'
      BY <1>2, <1>3, <3>1
    <3>3. c \in Own(t)'
      BY <1>5, <3>2, OwnStays
    <3> QED BY <3>1, <3>2, <3>3 DEF Own, Lists, Placed, InPlace
  <2> QED BY <1>2, <1>3, <2>1, <2>2 DEF ViewIInv, WindowFits
<1> QED BY <1>4, <1>6, <1>7, <1>8 DEF ViewIInv

LEMMA GetsRefusedKeeps == ViewIInv /\ GetsRefused => ViewIInv'
<1> SUFFICES ASSUME ViewIInv, GetsRefused PROVE ViewIInv'
  OBVIOUS
<1>1. Head(back).of \in Sessions /\ back' \in Seq(Tells)
  <2>1. PICK ops \in SUBSET (ThreadOps \cup {"create"}) : Arrives(ops)
    BY DEF GetsRefused, Guesses, ThreadOps
  <2> QED BY <2>1, ThreadArrives
<1>2. asked' \in Seq(Asks)
  <2>1. Request("get", Head(back).of, {}, {}) \in Asks
    BY <1>1, GetFits
  <2> QED BY <2>1, AskedFits DEF GetsRefused, AskForGet, Ask, ViewIInv, WiresFit
<1> QED BY <1>1, <1>2, WindowMoves DEF GetsRefused, ViewIInv, WindowFits, window

LEMMA GetsNothingKeeps == ViewIInv /\ GetsNothing => ViewIInv'
<1> SUFFICES ASSUME ViewIInv, GetsNothing PROVE ViewIInv'
  OBVIOUS
<1>1. back' \in Seq(Tells)
  BY ArrivesFits DEF GetsNothing, ViewIInv
<1> QED BY <1>1, WindowMoves DEF GetsNothing, ViewIInv, WindowFits, WiresFit, window

----------------------------------------------------------------------------
(* The reviewer *)

LEMMA ShownFits ==
    ASSUME WindowFits, shown # NoSession
    PROVE  /\ shown \in Sessions
           /\ view \in Copy /\ view.links \in SUBSET Links /\ view.notes \subseteq Comments
           /\ view.rejected \subseteq Hunks /\ Lists(shown, view.links)
           /\ Placed(shown, view.notes \ view.guessed)
  BY DEF WindowFits, MaybeSession, Own, Copy

LEMMA OpenKeeps == ViewIInv /\ Open => ViewIInv'
<1> SUFFICES ASSUME ViewIInv, Open PROVE ViewIInv'
  OBVIOUS
<1>1. PICK t \in Sessions : viewing' = t /\ Show(t, inbox[t]) /\ AskForGet(t)
  BY DEF Open
<1>2. asked' \in Seq(Asks)
  BY <1>1, GetFits, AskedFits DEF ViewIInv, AskForGet, Ask
<1>3. inbox[t] \in Own(t) /\ inbox[t] \in Copy
  BY CopiesAreOwn DEF ViewIInv, WindowFits
<1> QED BY <1>1, <1>2, <1>3, ControllerAssumption, WindowMoves
        DEF Open, Show, ViewIInv, WindowFits, WiresFit, MaybeSession

\* Requests that leave the window as it is.
LEMMA OnlyAsks ==
    ASSUME ViewIInv, NEW r \in Asks, asked' = Append(asked, r),
           UNCHANGED <<daemonState, back, window, gateway>>
    PROVE  ViewIInv'
  BY AskedFits, WindowMoves DEF ViewIInv, WiresFit, WindowFits, window

LEMMA AskingKeeps ==
    ViewIInv /\ (CreateEmpty \/ RemoveNote \/ Submit \/ Fork) => ViewIInv'
<1>1. ASSUME ViewIInv, CreateEmpty PROVE ViewIInv'
  <2>1. Request("create", NoSession, {}, {}) \in Asks
    BY DEF Request, Asks, ListRequest, MaybeSession
  <2> QED BY <1>1, <2>1, OnlyAsks DEF CreateEmpty, Ask
<1>2. ASSUME ViewIInv, RemoveNote PROVE ViewIInv'
  <2>1. PICK n \in view.notes : asked' = Append(asked, Request("uncomment", shown, {n}, {}))
    BY <1>2 DEF RemoveNote, Ask
  <2>2. Request("uncomment", shown, {n}, {}) \in Asks
    BY <1>2, ShownFits
       DEF RemoveNote, ActOnShown, ViewIInv, Request, Asks, ThreadRequest, ThreadOps, FitsThread
  <2> QED BY <1>2, <2>1, <2>2, OnlyAsks DEF RemoveNote
<1>3. ASSUME ViewIInv, NEW op \in {"send", "fork"}, ActOnShown, Ask(op, shown, {}, {}),
             UNCHANGED <<daemonState, back, window, gateway>>
      PROVE  ViewIInv'
  <2>1. Request(op, shown, {}, {}) \in Asks
    BY <1>3, ShownFits
       DEF ActOnShown, ViewIInv, Request, Asks, ThreadRequest, ThreadOps, FitsThread
  <2> QED BY <1>3, <2>1, OnlyAsks DEF Ask
<1> QED BY <1>1, <1>2, <1>3 DEF Submit, Fork

LEMMA RejectKeeps == ViewIInv /\ Reject => ViewIInv'
<1> SUFFICES ASSUME ViewIInv, Reject PROVE ViewIInv'
  OBVIOUS
<1>1. PICK all \in SUBSET Hunks :
        /\ view' = [view EXCEPT !.rejected = all]
        /\ asked' = Append(asked, Request("curate", shown, all, {}))
  <2>1. PICK h \in Hunks :
          LET all == IF h \in view.rejected THEN view.rejected \ {h} ELSE view.rejected \cup {h}
          IN  Guess([view EXCEPT !.rejected = all]) /\ Ask("curate", shown, all, {})
    BY DEF Reject
  <2>2. view.rejected \subseteq Hunks
    BY ShownFits DEF ViewIInv, Reject, ActOnShown
  <2> QED BY <2>1, <2>2 DEF Guess, Ask
<1>2. /\ shown \in Sessions /\ view \in Copy /\ Lists(shown, view.links)
      /\ Placed(shown, view.notes \ view.guessed)
  BY ShownFits DEF ViewIInv, Reject, ActOnShown
<1>3. Request("curate", shown, all, {}) \in Asks
  BY <1>2 DEF Request, Asks, ThreadRequest, ThreadOps, FitsThread
<1>4. view' \in Copy /\ view' \in Own(shown)
  BY <1>1, <1>2 DEF Copy, Own
<1> QED BY <1>1, <1>3, <1>4, AskedFits, WindowMoves
        DEF Reject, Guess, ViewIInv, WindowFits, WiresFit

\* A comment is new, so nothing that is under way speaks of it.
LEMMA AnnotateKeeps == ViewIInv /\ Annotate => ViewIInv'
<1> SUFFICES ASSUME ViewIInv, Annotate PROVE ViewIInv'
  OBVIOUS
<1>1. PICK n \in Unwritten :
        /\ home' = [home EXCEPT ![n] = shown]
        /\ view' = [view EXCEPT !.notes = @ \cup {n}, !.guessed = @ \cup {n}]
        /\ asked' = Append(asked, Request("comment", shown, {n}, view.links))
  BY DEF Annotate, Guess, Ask
<1>2. /\ UNCHANGED <<daemonState, back, uploads, pulls, share, strayed>>
      /\ UNCHANGED <<first, viewing, shown, inbox>>
  BY DEF Annotate, Guess
<1>3. n \in Comments /\ home[n] = NoSession
  BY <1>1 DEF Unwritten
<1>4. /\ shown \in Sessions /\ view \in Copy /\ view.links \in SUBSET Links
      /\ Lists(shown, view.links) /\ Placed(shown, view.notes \ view.guessed)
  BY ShownFits DEF ViewIInv, Annotate, ActOnShown
<1>5. /\ home' \in [Comments -> MaybeSession]
      /\ home'[n] = shown
      /\ \A c \in Comments : c # n => home'[c] = home[c]
  BY <1>1, <1>3, <1>4 DEF ViewIInv, GatewayFits, MaybeSession
<1>6. Steady
  BY <1>2, <1>3, <1>5 DEF Steady, daemonState
<1>7. DaemonFits'
  BY <1>2, <1>6, DaemonStays DEF ViewIInv
<1>8. WiresFit'
  <2>1. PICK r \in ThreadRequest : r = Request("comment", shown, {n}, view.links)
    BY <1>3, <1>4 DEF Request, ThreadRequest, ThreadOps
  <2>2. Lists(r.of, r.links)'
    BY <1>4, <1>6, <2>1, ListsStays DEF Request
  <2>3. FitsThread(r)'
    BY <1>3, <1>5, <2>1, <2>2 DEF FitsThread, Request
  <2>4. r \in Asks'
    BY <2>1, <2>3 DEF Asks
  <2>5. asked \in Seq(Asks') /\ back \in Seq(Tells')
    BY <1>6, WiresStay DEF ViewIInv
  <2> QED BY <1>1, <1>2, <2>1, <2>4, <2>5, AppendProperties DEF WiresFit
<1>9. WindowFits'
  <2>1. first' \in OwnRows' /\ inbox' \in OwnRows'
    BY <1>2, <1>6, RowsStay DEF ViewIInv, WindowFits
  <2>2. /\ view' \in Copy /\ view'.links = view.links
        /\ view'.notes \ view'.guessed \subseteq view.notes \ view.guessed
    BY <1>1, <1>3, <1>4 DEF Copy
  <2>3. Placed(shown, view.notes \ view.guessed)'
    <3>1. PICK t \in Sessions : t = shown
      BY <1>4
    <3>2. PICK notes \in SUBSET Comments : notes = view.notes \ view.guessed
      BY <1>4 DEF Copy
    <3>3. PICK now \in SUBSET notes : now = view'.notes \ view'.guessed
      BY <2>2, <3>2
    <3>4. Placed(t, notes)'
      BY <1>4, <1>6, <3>1, <3>2, PlacedStays
    <3>5. Placed(t, now)'
      BY <3>4 DEF Placed
    <3> QED BY <1>2, <3>1, <3>3, <3>5 DEF Placed, InPlace
  <2>4. view' \in Own(shown)'
    BY <1>2, <1>4, <2>2, <2>3 DEF Own, Lists
  <2> QED BY <1>2, <2>1, <2>2, <2>4 DEF ViewIInv, WindowFits
<1>10. GatewayFits'
  <2>1. \A l \in Links : share[l].theirs \subseteq Comments /\ share[l].mirrored \subseteq Comments
    BY DEF ViewIInv, GatewayFits, Share
  <2>2. ASSUME NEW l \in Links
        PROVE  /\ \A c \in share[l].theirs : share[l].of \in Sessions /\ home'[c] = share[l].of
               /\ \A c \in share[l].mirrored :
                     c \in accepted /\ home'[c] \in {share[l].of} \cup strayed
    <3>1. \A c \in share[l].theirs : c # n
      BY <1>3, ControllerAssumption DEF ViewIInv, GatewayFits
    <3>2. \A c \in share[l].mirrored : c # n
      BY <1>3, ControllerAssumption DEF ViewIInv, GatewayFits, DaemonFits
    <3> QED BY <1>5, <2>1, <3>1, <3>2 DEF ViewIInv, GatewayFits
  <2>3. /\ \A u \in uploads' : Placed(u.of, u.notes)'
        /\ \A l \in Links : Placed(share[l].of, share[l].notes)'
    BY <1>2, <1>6, PublishedStays DEF Placed, InPlace, ViewIInv
  <2> QED BY <1>2, <1>5, <2>2, <2>3 DEF ViewIInv, GatewayFits, daemonState
<1> QED BY <1>7, <1>8, <1>9, <1>10 DEF ViewIInv

\* What is uploaded has no guesses, so the daemon has it.
LEMMA CreateShareLinkKeeps == ViewIInv /\ CreateShareLink => ViewIInv'
<1> SUFFICES ASSUME ViewIInv, CreateShareLink PROVE ViewIInv'
  OBVIOUS
<1> DEFINE said == view.notes \ view.guessed
<1>1. PICK l \in Links :
        /\ share[l].of = NoSession /\ \A u \in uploads : u.link # l
        /\ uploads' = uploads \cup {[of |-> shown, notes |-> said, link |-> l]}
  BY DEF CreateShareLink
<1>2. shown \in Sessions /\ said \subseteq Comments /\ Placed(shown, said)
  BY ShownFits DEF ViewIInv, CreateShareLink, ActOnShown
<1> HIDE DEF said
<1> DEFINE made == [of |-> shown, notes |-> said, link |-> l]
<1>3. PICK up \in Upload :
        up = made /\ up.of = shown /\ up.notes = said /\ up.link = l
  <2>1. made \in Upload /\ made.of = shown /\ made.notes = said /\ made.link = l
    BY <1>2 DEF Upload
  <2> HIDE DEF made
  <2> QED BY <2>1
<1>4. UNCHANGED <<daemonState, asked, back, window, pulls, share, home, strayed>>
  BY DEF CreateShareLink
<1>5. Steady
  BY <1>4 DEF Steady, daemonState
<1>6. GatewayFits'
  <2>1. uploads' = uploads \cup {up}
    BY <1>1, <1>3
  <2>2. \A u \in uploads' : Placed(u.of, u.notes)
    BY <1>2, <1>3, <2>1 DEF ViewIInv, GatewayFits
  <2>3. /\ \A u \in uploads' : Placed(u.of, u.notes)'
        /\ \A k \in Links : Placed(share[k].of, share[k].notes)'
    BY <1>4, <2>2 DEF Placed, InPlace, daemonState, ViewIInv, GatewayFits
  <2> QED BY <1>1, <1>3, <1>4, <2>1, <2>3 DEF ViewIInv, GatewayFits, daemonState
<1>7. WiresFit'
  BY <1>4, <1>5, AsksStay, TellsStay, SeqGrows DEF ViewIInv, WiresFit
<1> QED BY <1>4, <1>5, <1>6, <1>7, DaemonStays, WindowStays DEF ViewIInv

\* The upload had its link to itself, so no list and no request had it.
LEMMA ShareLinkCreatedKeeps == ViewIInv /\ ShareLinkCreated => ViewIInv'
<1> SUFFICES ASSUME ViewIInv, ShareLinkCreated PROVE ViewIInv'
  OBVIOUS
<1>1. PICK u \in uploads :
        /\ uploads' = uploads \ {u}
        /\ share' = [share EXCEPT ![u.link] =
                       [NoShare EXCEPT !.of = u.of, !.live = TRUE, !.notes = u.notes]]
        /\ asked' = Append(asked, Request("share", u.of, {}, view.links \cup {u.link}))
        /\ strayed' = IF \A l \in view.links : share[l].of = u.of THEN strayed
                      ELSE strayed \cup {u.of}
  BY DEF ShareLinkCreated, Ask
<1>2. UNCHANGED <<daemonState, back, window, pulls, home>>
  BY DEF ShareLinkCreated
<1>3. u.of \in Sessions /\ u.link \in Links /\ u.notes \subseteq Comments
      /\ share[u.link].of = NoSession
  BY DEF ViewIInv, GatewayFits, Upload
<1> DEFINE made == [NoShare EXCEPT !.of = u.of, !.live = TRUE, !.notes = u.notes]
<1>4. /\ made \in Share /\ made.of = u.of /\ made.notes = u.notes
      /\ made.theirs = {} /\ made.mirrored = {}
  BY <1>3 DEF NoShare, Share, MaybeSession
<1> HIDE DEF made
<1>5. /\ share' \in [Links -> Share]
      /\ share'[u.link] = made
      /\ \A l \in Links : l # u.link => share'[l] = share[l]
  BY <1>1, <1>3, <1>4 DEF ViewIInv, GatewayFits, made
<1>6. Steady
  BY <1>1, <1>2, <1>3, <1>5 DEF Steady, daemonState
<1>7. GatewayFits'
  <2>1. ASSUME NEW l \in Links
        PROVE  /\ share'[l].live => share'[l].of \in Sessions
               /\ share'[l].notes # {} => share'[l].of \in Sessions
               /\ \A n \in share'[l].theirs : share'[l].of \in Sessions /\ home[n] = share'[l].of
               /\ \A n \in share'[l].mirrored :
                     n \in accepted /\ home[n] \in {share'[l].of} \cup strayed'
    <3>1. CASE l = u.link
      BY <1>3, <1>4, <1>5, <3>1
    <3>2. CASE l # u.link
      BY <1>1, <1>5, <3>2 DEF ViewIInv, GatewayFits
    <3> QED BY <3>1, <3>2
  <2>2. strayed' \subseteq Sessions
    BY <1>1, <1>3 DEF ViewIInv, GatewayFits
  <2>3. \A v \in uploads' : share'[v.link].of = NoSession
    <3>1. \A v \in uploads' : v \in uploads /\ v.link \in Links /\ v.link # u.link
      BY <1>1 DEF ViewIInv, GatewayFits, Upload
    <3> QED BY <1>5, <3>1 DEF ViewIInv, GatewayFits
  <2>4. /\ \A v \in uploads' : Placed(v.of, v.notes)'
        /\ \A l \in Links : Placed(share[l].of, share[l].notes)'
    <3>1. \A v \in uploads' : v \in uploads
      BY <1>1
    <3>2. \A l \in Links :
             \/ (share'[l].of = share[l].of /\ share'[l].notes = share[l].notes)
             \/ (share'[l].of = u.of /\ share'[l].notes = u.notes)
      BY <1>4, <1>5
    <3> QED BY <1>6, <3>1, <3>2, PublishedStays DEF Placed, InPlace, ViewIInv
  <2> QED BY <1>1, <1>2, <1>5, <2>1, <2>2, <2>3, <2>4 DEF ViewIInv, GatewayFits, daemonState
<1>8. WiresFit'
  <2>1. view.links \in SUBSET Links
    BY DEF ViewIInv, WindowFits, Copy
  <2>2. PICK r \in ThreadRequest : r = Request("share", u.of, {}, view.links \cup {u.link})
    BY <1>3, <2>1 DEF Request, ThreadRequest, ThreadOps
  <2>3. Lists(u.of, view.links \cup {u.link})'
    <3>1. ASSUME NEW l \in view.links \cup {u.link} PROVE share'[l].of = u.of \/ u.of \in strayed'
      <4>1. CASE l = u.link
        BY <1>4, <1>5, <4>1
      <4>2. CASE l # u.link
        BY <1>1, <1>5, <2>1, <3>1, <4>2
      <4> QED BY <4>1, <4>2
    <3>2. view' = view
      BY <1>2 DEF window
    <3>3. PICK links : links = view.links \cup {u.link}
      OBVIOUS
    <3> QED BY <3>1, <3>2, <3>3 DEF Lists
  <2>4. Lists(r.of, r.links)'
    <3>1. r.of = u.of /\ r.links = view.links \cup {u.link} /\ view' = view
      BY <1>2, <2>2 DEF Request, window
    <3> QED BY <2>3, <3>1 DEF Lists
  <2>5. r \in Asks'
    BY <2>2, <2>4 DEF Asks, FitsThread, Request
  <2>6. asked \in Seq(Asks') /\ back \in Seq(Tells')
    BY <1>6, WiresStay DEF ViewIInv
  <2> QED BY <1>1, <1>2, <2>2, <2>5, <2>6, AppendProperties DEF WiresFit
<1> QED BY <1>2, <1>6, <1>7, <1>8, DaemonStays, WindowStays DEF ViewIInv

LEMMA RevokeFits ==
    ASSUME GatewayFits, NEW ls \in SUBSET Links, Revoke(ls),
           UNCHANGED <<daemonState, uploads, pulls, home, strayed>>
    PROVE  GatewayFits' /\ Steady
<1>1. /\ share' \in [Links -> Share]
      /\ \A l \in Links :
            /\ share'[l].of = share[l].of /\ share'[l].theirs = share[l].theirs
            /\ share'[l].mirrored = share[l].mirrored /\ share'[l].notes = share[l].notes
            /\ share'[l].live => share[l].live
  <2>1. \A l \in Links : share[l] \in Share
    BY DEF GatewayFits
  <2> QED BY <2>1 DEF Revoke, Share
<1>2. \A u \in uploads : u.link \in Links
  BY DEF GatewayFits, Upload
<1>3. /\ \A u \in uploads' : Placed(u.of, u.notes)'
      /\ \A l \in Links : Placed(share[l].of, share[l].notes)'
  BY <1>1 DEF GatewayFits, Placed, InPlace, daemonState
<1>4. Steady
  BY <1>1 DEF Steady, daemonState
<1> QED BY <1>1, <1>2, <1>3, <1>4 DEF GatewayFits, daemonState

LEMMA RevokingKeeps ==
    ASSUME ViewIInv, NEW ls \in SUBSET Links, Revoke(ls), NEW r \in Asks,
           asked' = Append(asked, r),
           UNCHANGED <<daemonState, back, uploads, pulls, home, strayed>>,
           UNCHANGED <<first, viewing, shown, inbox>>,
           view' \in Copy, view'.links \subseteq view.links,
           view'.notes = view.notes, view'.guessed = view.guessed
    PROVE  ViewIInv'
<1>1. GatewayFits' /\ Steady
  BY RevokeFits DEF ViewIInv
<1>2. WiresFit'
  <2>1. asked' \in Seq(Asks)
    BY AskedFits DEF ViewIInv
  <2> QED BY <1>1, <2>1, AsksStay, TellsStay, SeqGrows DEF ViewIInv, WiresFit
<1>3. WindowFits'
  <2>1. first' \in OwnRows' /\ inbox' \in OwnRows'
    BY <1>1, RowsStay DEF ViewIInv, WindowFits
  <2>2. shown \in Sessions => view' \in Own(shown)'
    <3>1. SUFFICES ASSUME shown \in Sessions PROVE view' \in Own(shown)'
      OBVIOUS
    <3>2. /\ Lists(shown, view.links) /\ view.links \in SUBSET Links
          /\ Placed(shown, view.notes \ view.guessed)
      BY <3>1 DEF ViewIInv, WindowFits, Own, Copy
    <3>3. \A l \in view.links : share'[l].of = shown \/ shown \in strayed'
      BY <1>1, <3>1, <3>2, ControllerAssumption DEF Lists, Steady
    <3>4. Placed(shown, view.notes \ view.guessed)'
      BY <3>2 DEF Placed, InPlace, daemonState
    <3> QED BY <3>3, <3>4 DEF Own, Lists
  <2> QED BY <2>1, <2>2 DEF ViewIInv, WindowFits
<1> QED BY <1>1, <1>2, <1>3, DaemonStays DEF ViewIInv

LEMMA SharesKeep == ViewIInv /\ (DeleteShareLink \/ Unshare \/ DeleteSession) => ViewIInv'
<1>1. ASSUME ViewIInv, DeleteShareLink PROVE ViewIInv'
  <2>1. PICK l \in view.links :
          /\ Revoke({l})
          /\ view' = [view EXCEPT !.links = @ \ {l}]
          /\ asked' = Append(asked, Request("relink", shown, {}, view.links \ {l}))
    BY <1>1 DEF DeleteShareLink, Guess, Ask
  <2>2. shown \in Sessions /\ view \in Copy /\ view.links \in SUBSET Links /\ Lists(shown, view.links)
    BY <1>1, ShownFits DEF ViewIInv, DeleteShareLink, ActOnShown
  <2>3. Request("relink", shown, {}, view.links \ {l}) \in Asks
    BY <2>2 DEF Request, Asks, ThreadRequest, ThreadOps, FitsThread, Lists
  <2>4. /\ view' \in Copy /\ view'.links \subseteq view.links
        /\ view'.notes = view.notes /\ view'.guessed = view.guessed
    BY <2>1, <2>2 DEF Copy
  <2> QED BY <1>1, <2>1, <2>2, <2>3, <2>4, RevokingKeeps DEF DeleteShareLink, Guess
<1>2. ASSUME ViewIInv, Unshare PROVE ViewIInv'
  <2>1. shown \in Sessions /\ view \in Copy /\ view.links \in SUBSET Links
    BY <1>2, ShownFits DEF ViewIInv, Unshare, ActOnShown
  <2>2. Request("share", shown, {}, {}) \in Asks
    BY <2>1 DEF Request, Asks, ThreadRequest, ThreadOps, FitsThread, Lists
  <2> QED BY <1>2, <2>1, <2>2, RevokingKeeps DEF Unshare, Ask, window
<1>3. ASSUME ViewIInv, DeleteSession PROVE ViewIInv'
  <2>1. PICK t \in Sessions :
          /\ Revoke(IF t = shown THEN view.links ELSE inbox[t].links)
          /\ asked' = Append(asked, Request("delete", t, {}, {}))
    BY <1>3 DEF DeleteSession, Ask
  <2>2. view \in Copy /\ inbox[t] \in Copy
    BY <1>3, CopiesAreOwn DEF ViewIInv, WindowFits
  <2>3. PICK ls \in SUBSET Links : Revoke(ls)
    BY <2>1, <2>2 DEF Copy
  <2>4. Request("delete", t, {}, {}) \in Asks
    BY DEF Request, Asks, ThreadRequest, FitsThread
  <2> QED BY <1>3, <2>1, <2>2, <2>3, <2>4, RevokingKeeps DEF DeleteSession, window
<1> QED BY <1>1, <1>2, <1>3

LEMMA PullKeeps == ViewIInv /\ Pull => ViewIInv'
<1> SUFFICES ASSUME ViewIInv, Pull PROVE ViewIInv'
  OBVIOUS
<1>1. PICK l \in view.links : pulls' = pulls \cup {l}
  BY DEF Pull
<1>2. shown # NoSession /\ l \in Links
  BY ShownFits, <1>1 DEF Pull, ActOnShown, ViewIInv
<1>3. UNCHANGED <<daemonState, asked, back, window, uploads, share, home, strayed>>
  BY DEF Pull
<1>4. Steady
  BY <1>3 DEF Steady, daemonState
<1>5. GatewayFits'
  BY <1>1, <1>2, <1>3 DEF ViewIInv, GatewayFits, daemonState, Placed, InPlace
<1>6. WiresFit'
  BY <1>3, <1>4, AsksStay, TellsStay, SeqGrows DEF ViewIInv, WiresFit
<1> QED BY <1>2, <1>3, <1>4, <1>5, <1>6, DaemonStays, WindowStays DEF ViewIInv

\* What a pull brings are the comments of its link, which is of a Thread.
LEMMA PulledKeeps == ViewIInv /\ Pulled => ViewIInv'
<1> SUFFICES ASSUME ViewIInv, Pulled PROVE ViewIInv'
  OBVIOUS
<1>1. PICK l \in pulls :
        /\ pulls' = pulls \ {l}
        /\ IF share[l].live
           THEN asked' = Append(asked, Request("merge", shown, share[l].theirs, {l}))
           ELSE UNCHANGED asked
  BY DEF Pulled, Ask
<1>2. shown \in Sessions /\ l \in Links
  BY DEF ViewIInv, WindowFits, GatewayFits, MaybeSession
<1>3. UNCHANGED <<daemonState, back, window, uploads, share, home, strayed>>
  BY DEF Pulled
<1>4. Steady
  BY <1>3 DEF Steady, daemonState
<1>5. GatewayFits'
  BY <1>1, <1>3 DEF ViewIInv, GatewayFits, daemonState, Placed, InPlace
<1>6. asked' \in Seq(Asks)
  <2>1. CASE share[l].live
    <3>1. share[l].theirs \subseteq Comments /\ share[l].of \in Sessions
          /\ \A n \in share[l].theirs : home[n] = share[l].of
      BY <1>2, <2>1 DEF ViewIInv, GatewayFits, Share
    <3>2. Request("merge", shown, share[l].theirs, {l}) \in Asks
      BY <1>2, <3>1 DEF Request, Asks, ThreadRequest, ThreadOps, FitsThread
    <3> QED BY <1>1, <2>1, <3>2, AskedFits DEF ViewIInv
  <2>2. CASE ~share[l].live
    BY <1>1, <2>2 DEF ViewIInv, WiresFit
  <2> QED BY <2>1, <2>2
<1>7. WiresFit'
  BY <1>3, <1>4, <1>6, AsksStay, TellsStay, SeqGrows DEF ViewIInv, WiresFit
<1> QED BY <1>1, <1>3, <1>4, <1>5, <1>7, DaemonStays, WindowStays DEF ViewIInv

----------------------------------------------------------------------------
(* Everybody else *)

LEMMA EventFits == \A t \in Sessions, listed \in BOOLEAN : Event(t, listed) \in Tells
  BY DEF Event, EventMessage, Tells

\* A comment that is new is written on a Thread: nothing spoke of it.
LEMMA WrittenIsSteady ==
    ASSUME ViewIInv, NEW n \in Unwritten, NEW t \in Sessions,
           home' = [home EXCEPT ![n] = t], UNCHANGED <<strayed, kin>>,
           accepted \subseteq accepted', \A l \in Links : share'[l].of = share[l].of
    PROVE  /\ Steady /\ n \in Comments
           /\ home' \in [Comments -> MaybeSession] /\ home'[n] = t
           /\ \A c \in Comments : c # n => home'[c] = home[c]
           /\ n \notin accepted
           /\ \A l \in Links : n \notin share[l].theirs /\ n \notin share[l].mirrored
           /\ \A s \in Sessions : n \notin records[s].notes
<1>1. n \in Comments /\ home[n] = NoSession
  BY DEF Unwritten
<1>2. /\ home' \in [Comments -> MaybeSession] /\ home'[n] = t
      /\ \A c \in Comments : c # n => home'[c] = home[c]
  BY <1>1 DEF ViewIInv, GatewayFits, MaybeSession
<1>3. n \notin accepted /\ \A s \in Sessions : n \notin records[s].notes
  BY <1>1, ControllerAssumption DEF ViewIInv, DaemonFits, Placed
<1>4. \A l \in Links : n \notin share[l].theirs /\ n \notin share[l].mirrored
  BY <1>1, <1>3, ControllerAssumption DEF ViewIInv, GatewayFits
<1>5. Steady
  BY <1>1, <1>2 DEF Steady
<1> QED BY <1>1, <1>2, <1>3, <1>4, <1>5

LEMMA OtherCommentsKeeps == ViewIInv /\ OtherComments => ViewIInv'
<1> SUFFICES ASSUME ViewIInv, OtherComments PROVE ViewIInv'
  OBVIOUS
<1>1. PICK t \in Sessions, n \in Unwritten :
        /\ IsPending(t)
        /\ records' = [records EXCEPT ![t].notes = @ \cup {n}]
        /\ home' = [home EXCEPT ![n] = t]
        /\ accepted' = accepted \cup {n}
        /\ back' = Append(back, Event(t, FALSE))
  BY DEF OtherComments
<1>2. UNCHANGED <<deleting, kin, asked, window, uploads, pulls, share, strayed>>
  BY DEF OtherComments
<1>3. /\ Steady /\ n \in Comments
      /\ home' \in [Comments -> MaybeSession] /\ home'[n] = t
      /\ \A c \in Comments : c # n => home'[c] = home[c]
      /\ n \notin accepted
      /\ \A l \in Links : n \notin share[l].theirs /\ n \notin share[l].mirrored
      /\ \A s \in Sessions : n \notin records[s].notes
  BY <1>1, <1>2, WrittenIsSteady
<1>4. records \in [Sessions -> Copy] /\ \A s \in Sessions : records[s] \in Copy /\ records[s] \in Own(s)
  BY CopiesAreOwn DEF ViewIInv, DaemonFits, OwnRows
<1>5. /\ records' \in [Sessions -> Copy]
      /\ \A s \in Sessions :
            /\ records'[s].links = records[s].links
            /\ records'[s].status = records[s].status
            /\ records'[s].guessed = records[s].guessed
            /\ records'[s].notes = IF s = t THEN records[s].notes \cup {n} ELSE records[s].notes
  <2> DEFINE added == [records[t] EXCEPT !.notes = @ \cup {n}]
  <2>1. /\ added \in Copy /\ added.notes = records[t].notes \cup {n}
        /\ added.links = records[t].links /\ added.status = records[t].status
        /\ added.guessed = records[t].guessed
    BY <1>3, <1>4 DEF Copy
  <2>2. records' = [records EXCEPT ![t] = added]
    BY <1>1
  <2> HIDE DEF added
  <2> QED BY <1>4, <2>1, <2>2
<1>6. DaemonFits'
  <2>1. ASSUME NEW s \in Sessions, NEW c \in records'[s].notes
        PROVE  /\ c \in accepted' /\ home'[c] \in Sessions
               /\ home'[c] \in kin'[s] \/ kin'[s] \cap strayed' # {}
    <3>1. CASE c = n
      <4>1. s = t
        BY <1>3, <1>5, <2>1, <3>1
      <4>2. t \in kin[t]
        BY <1>1 DEF ViewIInv, DaemonFits, IsThere, IsPending
      <4> QED BY <1>1, <1>2, <1>3, <3>1, <4>1, <4>2
    <3>2. CASE c # n
      <4>1. c \in records[s].notes
        BY <1>5, <2>1, <3>2
      <4>2. c \in accepted /\ home[c] \in Sessions /\ InPlace(c, s)
        BY <4>1 DEF ViewIInv, DaemonFits, Placed
      <4>3. c \in Comments
        BY <4>2 DEF ViewIInv, DaemonFits
      <4> QED BY <1>1, <1>2, <1>3, <3>2, <4>2, <4>3 DEF InPlace
    <3> QED BY <3>1, <3>2
  <2>2. records' \in OwnRows'
    <3>1. \A s \in Sessions : \A l \in records'[s].links : share'[l].of = s \/ s \in strayed'
      BY <1>2, <1>4, <1>5 DEF Own, Lists
    <3>2. ASSUME NEW s \in Sessions PROVE records'[s] \in Own(s)'
      <4>1. PICK c \in Copy : c = records'[s]
        BY <1>5
      <4>2. Lists(s, c.links)'
        BY <3>1, <4>1 DEF Lists
      <4>3. Placed(s, c.notes \ c.guessed)'
        BY <2>1, <4>1 DEF Placed, InPlace
      <4> QED BY <4>1, <4>2, <4>3 DEF Own
    <3> QED BY <1>5, <3>2 DEF OwnRows
  <2>3. \A s \in Sessions : IsThere(s)' => s \in kin'[s]
    BY <1>2, <1>5 DEF ViewIInv, DaemonFits, IsThere
  <2>4. \A s \in Sessions : Placed(s, records[s].notes)'
    BY <2>1 DEF Placed, InPlace
  <2>5. accepted' \subseteq Comments /\ \A c \in accepted' : home'[c] \in Sessions
    BY <1>1, <1>3 DEF ViewIInv, DaemonFits
  <2> QED BY <1>2, <2>2, <2>3, <2>4, <2>5 DEF ViewIInv, DaemonFits
<1>7. WiresFit'
  <2>1. back' \in Seq(Tells)
    BY <1>1, EventFits, AppendProperties DEF ViewIInv, WiresFit
  <2> QED BY <1>2, <1>3, <2>1, AsksStay, TellsStay, SeqGrows DEF ViewIInv, WiresFit
<1>8. GatewayFits'
  <2>1. \A l \in Links : share[l].theirs \subseteq Comments /\ share[l].mirrored \subseteq Comments
    BY DEF ViewIInv, GatewayFits, Share
  <2>2. /\ \A u \in uploads' : Placed(u.of, u.notes)'
        /\ \A l \in Links : Placed(share[l].of, share[l].notes)'
    BY <1>2, <1>3, PublishedStays DEF Placed, InPlace, ViewIInv
  <2> QED BY <1>1, <1>2, <1>3, <2>1, <2>2 DEF ViewIInv, GatewayFits
<1> QED BY <1>2, <1>3, <1>6, <1>7, <1>8, WindowStays DEF ViewIInv

LEMMA OtherResolvesKeeps == ViewIInv /\ OtherResolves => ViewIInv'
<1> SUFFICES ASSUME ViewIInv, OtherResolves PROVE ViewIInv'
  OBVIOUS
<1>1. PICK t \in Sessions :
        /\ IsPending(t)
        /\ records' = [records EXCEPT ![t].status = "resolved"]
        /\ back' = Append(back, Event(t, TRUE))
  BY DEF OtherResolves
<1>2. UNCHANGED <<deleting, kin, accepted, asked, window, gateway>>
  BY DEF OtherResolves
<1>3. Steady
  BY <1>2 DEF Steady, gateway
<1>4. DaemonFits'
  <2>1. records \in [Sessions -> Copy] /\ \A s \in Sessions : records[s] \in Copy /\ records[s] \in Own(s)
    BY CopiesAreOwn DEF ViewIInv, DaemonFits, OwnRows
  <2>2. /\ records' \in [Sessions -> Copy]
        /\ \A s \in Sessions :
              /\ records'[s].links = records[s].links /\ records'[s].notes = records[s].notes
              /\ records'[s].guessed = records[s].guessed
              /\ IsThere(s)' => IsThere(s)
    BY <1>1, <2>1 DEF Copy, IsThere, IsPending
  <2>3. records' \in OwnRows'
    BY <1>2, <2>1, <2>2 DEF OwnRows, Own, Lists, Placed, InPlace, gateway
  <2> QED BY <1>2, <2>2, <2>3 DEF ViewIInv, DaemonFits, gateway, Placed, InPlace
<1>5. WiresFit'
  <2>1. back' \in Seq(Tells)
    BY <1>1, EventFits, AppendProperties DEF ViewIInv, WiresFit
  <2> QED BY <1>2, <1>3, <2>1, AsksStay, TellsStay, SeqGrows DEF ViewIInv, WiresFit
<1> QED BY <1>2, <1>3, <1>4, <1>5, WindowStays, GatewayStays DEF ViewIInv, gateway

LEMMA CollaborateKeeps == ViewIInv /\ Collaborate => ViewIInv'
<1> SUFFICES ASSUME ViewIInv, Collaborate PROVE ViewIInv'
  OBVIOUS
<1>1. PICK l \in Links, n \in Unwritten :
        /\ share[l].live
        /\ share' = [share EXCEPT ![l].theirs = @ \cup {n}]
        /\ home' = [home EXCEPT ![n] = share[l].of]
  BY DEF Collaborate
<1>2. UNCHANGED <<daemonState, asked, back, window, uploads, pulls, strayed>>
  BY DEF Collaborate
<1>3. share[l].of \in Sessions /\ n \in Comments
  BY <1>1 DEF ViewIInv, GatewayFits, Unwritten
<1>4. /\ share' \in [Links -> Share]
      /\ \A k \in Links :
            /\ share'[k].of = share[k].of /\ share'[k].live = share[k].live
            /\ share'[k].mirrored = share[k].mirrored /\ share'[k].notes = share[k].notes
            /\ share'[k].theirs = IF k = l THEN share[k].theirs \cup {n} ELSE share[k].theirs
  <2>1. share \in [Links -> Share] /\ \A k \in Links : share[k] \in Share
    BY DEF ViewIInv, GatewayFits
  <2> QED BY <1>1, <1>3, <2>1 DEF Share
<1>5. /\ Steady
      /\ home' \in [Comments -> MaybeSession] /\ home'[n] = share[l].of
      /\ \A c \in Comments : c # n => home'[c] = home[c]
      /\ \A k \in Links : n \notin share[k].theirs /\ n \notin share[k].mirrored
  BY <1>1, <1>2, <1>3, <1>4, WrittenIsSteady DEF daemonState
<1>6. GatewayFits'
  <2>1. \A k \in Links : share[k].theirs \subseteq Comments /\ share[k].mirrored \subseteq Comments
    BY DEF ViewIInv, GatewayFits, Share
  <2>2. ASSUME NEW k \in Links
        PROVE  /\ share'[k].live => share'[k].of \in Sessions
               /\ \A c \in share'[k].theirs :
                     share'[k].of \in Sessions /\ home'[c] = share'[k].of
               /\ \A c \in share'[k].mirrored :
                     c \in accepted /\ home'[c] \in {share'[k].of} \cup strayed
    <3>1. share'[k].live => share'[k].of \in Sessions
      BY <1>4 DEF ViewIInv, GatewayFits
    <3>2. ASSUME NEW c \in share'[k].theirs
          PROVE  share'[k].of \in Sessions /\ home'[c] = share'[k].of
      <4>1. CASE c = n
        <5>1. k = l
          BY <1>4, <1>5, <3>2, <4>1
        <5> QED BY <1>3, <1>4, <1>5, <4>1, <5>1
      <4>2. CASE c # n
        <5>1. c \in share[k].theirs
          <6>1. share'[k].theirs \subseteq share[k].theirs \cup {n}
            BY <1>4
          <6> QED BY <3>2, <4>2, <6>1
        <5>2. c \in Comments
          BY <2>1, <5>1
        <5> QED BY <1>4, <1>5, <4>2, <5>1, <5>2 DEF ViewIInv, GatewayFits
      <4> QED BY <4>1, <4>2
    <3>3. ASSUME NEW c \in share'[k].mirrored
          PROVE  c \in accepted /\ home'[c] \in {share'[k].of} \cup strayed
      <4>1. c \in share[k].mirrored /\ c # n /\ c \in Comments
        BY <1>4, <1>5, <2>1, <3>3
      <4> QED BY <1>4, <1>5, <4>1 DEF ViewIInv, GatewayFits
    <3> QED BY <3>1, <3>2, <3>3
  <2>3. \A u \in uploads : u.link \in Links
    BY DEF ViewIInv, GatewayFits, Upload
  <2>4. /\ \A u \in uploads' : Placed(u.of, u.notes)'
        /\ \A k \in Links : Placed(share[k].of, share[k].notes)'
    <3>1. /\ \A u \in uploads : \A c \in u.notes :
                /\ c \in accepted' /\ home'[c] \in Sessions
                /\ home'[c] \in kin'[u.of] \/ kin'[u.of] \cap strayed' # {}
          /\ \A k \in Links : \A c \in share[k].notes :
                /\ c \in accepted' /\ home'[c] \in Sessions
                /\ \/ home'[c] \in kin'[share[k].of]
                   \/ kin'[share[k].of] \cap strayed' # {}
      BY <1>5, PublishedStays DEF ViewIInv
    <3>2. \A u \in uploads' : Placed(u.of, u.notes)'
      BY <1>2, <3>1 DEF Placed, InPlace
    <3>3. \A k \in Links : Placed(share[k].of, share[k].notes)'
      <4> TAKE k \in Links
      <4>1. share'[k].of = share[k].of /\ share'[k].notes = share[k].notes
        BY <1>4
      <4>2. \A c \in share'[k].notes :
                /\ c \in accepted' /\ home'[c] \in Sessions
                /\ home'[c] \in kin'[share'[k].of] \/ kin'[share'[k].of] \cap strayed' # {}
        BY <3>1, <4>1, Zenon
      <4> QED BY <4>2 DEF Placed, InPlace
    <3> QED BY <3>2, <3>3
  <2>5. /\ home' \in [Comments -> MaybeSession] /\ share' \in [Links -> Share]
        /\ uploads' \subseteq Upload /\ pulls' \subseteq Links /\ strayed' \subseteq Sessions
    BY <1>2, <1>4, <1>5 DEF ViewIInv, GatewayFits
  <2>6. /\ \A u \in uploads' : share'[u.link].of = NoSession
        /\ \A u, v \in uploads' : u.link = v.link => u = v
    BY <1>2, <1>4, <2>3 DEF ViewIInv, GatewayFits
  <2>7. \A k \in Links : share'[k].notes # {} => share'[k].of \in Sessions
    BY <1>4 DEF ViewIInv, GatewayFits
  <2>8. \A k \in Links :
          /\ share'[k].notes # {} => share'[k].of \in Sessions
          /\ Placed(share[k].of, share[k].notes)'
          /\ share'[k].live => share'[k].of \in Sessions
          /\ \A c \in share'[k].theirs : share'[k].of \in Sessions /\ home'[c] = share'[k].of
          /\ \A c \in share'[k].mirrored :
                c \in accepted' /\ home'[c] \in {share'[k].of} \cup strayed'
    <3> TAKE k \in Links
    <3>1. Placed(share[k].of, share[k].notes)'
      BY <2>4
    <3>2. accepted' = accepted /\ strayed' = strayed
      BY <1>2 DEF daemonState
    <3>3. \A c \in share'[k].mirrored :
             c \in accepted' /\ home'[c] \in {share'[k].of} \cup strayed'
      BY <2>2, <3>2
    <3>4. /\ share'[k].live => share'[k].of \in Sessions
          /\ \A c \in share'[k].theirs : share'[k].of \in Sessions /\ home'[c] = share'[k].of
      BY <2>2
    <3> QED BY <2>7, <3>1, <3>3, <3>4
  <2> QED BY <2>4, <2>5, <2>6, <2>8 DEF GatewayFits
<1>7. WiresFit'
  BY <1>2, <1>5, AsksStay, TellsStay, SeqGrows DEF ViewIInv, WiresFit
<1> QED BY <1>2, <1>5, <1>6, <1>7, DaemonStays, WindowStays DEF ViewIInv

----------------------------------------------------------------------------
LEMMA ViewStepKeeps == ViewIInv /\ [ViewNext]_viewVars => ViewIInv'
<1> SUFFICES ASSUME ViewIInv, [ViewNext]_viewVars PROVE ViewIInv'
  OBVIOUS
<1>1. CASE Serve \/ FinishDelete
  BY <1>1, ServeKeeps, FinishDeleteKeeps
<1>2. CASE Receive
  BY <1>2, GetsEventKeeps, GetsListKeeps, GetsFirstListKeeps, GetsThreadsKeep,
     GetsChangedKeeps, GetsRefusedKeeps, GetsNothingKeeps DEF Receive
<1>3. CASE Open \/ CreateEmpty \/ Reject \/ Annotate \/ RemoveNote \/ Submit \/ Fork
  BY <1>3, OpenKeeps, AskingKeeps, RejectKeeps, AnnotateKeeps
<1>4. CASE \/ CreateShareLink \/ ShareLinkCreated \/ DeleteShareLink \/ Unshare
           \/ DeleteSession \/ Pull \/ Pulled
  BY <1>4, CreateShareLinkKeeps, ShareLinkCreatedKeeps, SharesKeep, PullKeeps, PulledKeeps
<1>5. CASE OtherComments \/ OtherResolves \/ Collaborate
  BY <1>5, OtherCommentsKeeps, OtherResolvesKeeps, CollaborateKeeps
<1>6. CASE UNCHANGED viewVars
  BY <1>6, WindowMoves DEF viewVars, ViewIInv, WiresFit, WindowFits, window
<1> QED BY <1>1, <1>2, <1>3, <1>4, <1>5, <1>6 DEF ViewNext

LEMMA FitsKeepPlace == ViewIInv => NotesKeepTheirPlace
  BY DEF ViewIInv, DaemonFits, GatewayFits, NotesKeepTheirPlace, Placed

(* A comment is found only on the Thread it was written on and on forks of *)
(* it.  A share carries, from the upload that creates it and mirrored      *)
(* later, only comments that the daemon has taken, and of its own Thread,  *)
(* whatever is switched, pulled, shared, forked and deleted meanwhile      *)
(* (thread-controller.ts, path-view.ts, api.ts), except on Threads given   *)
(* another's links.  It says nothing of the text of an edited comment.     *)
THEOREM CommentsKeepTheirPlace == ViewSpec => []NotesKeepTheirPlace
<1>1. ViewInit => ViewIInv
  BY ViewInitFits
<1>2. ViewIInv /\ [ViewNext]_viewVars => ViewIInv'
  BY ViewStepKeeps
<1>3. ViewIInv => NotesKeepTheirPlace
  BY FitsKeepPlace
<1> QED BY <1>1, <1>2, <1>3, PTL DEF ViewSpec

-----------------------------------------------------------------------------
(***************************************************************************)
(* What the window shows once nothing is on its way.                       *)
(***************************************************************************)

\* Something of these ops, and of this Thread, is in q after place i.
Has(q, i, ops) == \E j \in DOMAIN q : i < j /\ q[j].op \in ops
HasOf(q, i, ops, t) == \E j \in DOMAIN q : i < j /\ q[j].op \in ops /\ q[j].of = t
HasListed(q, i) == \E j \in DOMAIN q : i < j /\ q[j].op = "event" /\ q[j].listed

Changed(t, i) == HasOf(back, i, {"event"}, t)
Relisted(i) == HasListed(back, i)

Agrees(rows) == \A t \in Sessions : (rows[t].status = "pending") = IsPending(t)
Listers == {"list", "first"}
Refreshers == {"list", "first", "firstget"}
Readers == {"get"} \cup Guesses

\* The answers that put a copy of a Thread on the screen.
Tale(a) == a.op \in ThreadOps \cup {"create"} /\ a.ok

\* A Thread that was; ids are not used again.
Born(t) == kin[t] # {}
RowsBorn(rows) == \A t \in Sessions : rows[t].status # "none" => Born(t)

BornWindow ==
    /\ shown \in Sessions => Born(shown)
    /\ RowsBorn(inbox) /\ RowsBorn(first)

BornAsked == \A i \in DOMAIN asked : asked[i].op \in Readers => Born(asked[i].of)

BornTold ==
    \A i \in DOMAIN back :
        /\ back[i].op \in Readers => Born(back[i].of)
        /\ back[i].op \in Listers => RowsBorn(back[i].copy)

\* A copy on its way is the daemon's record, or an event follows it.
CopiesFit ==
    \A i \in DOMAIN back :
        /\ Tale(back[i]) => Born(back[i].of)
        /\ Tale(back[i]) /\ IsThere(back[i].of) =>
               back[i].copy = records[back[i].of] \/ Changed(back[i].of, i)
        /\ back[i].op = "get" /\ ~back[i].ok => ~IsThere(back[i].of)
        /\ back[i].op = "create" => back[i].ok

ListsFit ==
    \A i \in DOMAIN back : back[i].op \in Listers => Agrees(back[i].copy) \/ Relisted(i)

\* The sidebar lists what is under review, or it will be told again.
InboxFits ==
    \/ Agrees(inbox) \/ Relisted(0)
    \/ Has(asked, 0, Refreshers) \/ Has(back, 0, Refreshers)

\* The list held at the start fits when it is shown, or a newer one follows
\* the Thread it waits for.
HeldFits ==
    /\ \A i \in DOMAIN asked :
          asked[i].op = "firstget" =>
              /\ Agrees(first) \/ Relisted(0) \/ Has(asked, i, {"list"})
              /\ ~Has(asked, i, {"firstget"}) /\ ~Has(back, 0, {"firstget"})
    /\ \A i \in DOMAIN back :
          back[i].op = "firstget" =>
              /\ back[i].ok
              /\ Agrees(first) \/ Relisted(0) \/ Has(asked, 0, {"list"}) \/ Has(back, i, {"list"})
              /\ ~Has(back, i, {"firstget"})

\* Nothing is shown yet, and nothing listed.
Unopened ==
    /\ shown = NoSession /\ uploads = {}
    /\ \A t \in Sessions : inbox[t].status = "none"

\* Until the first list has come nothing is shown, so nothing is changed; the
\* Thread to be shown with it is there until it is read.
OpeningFits ==
    /\ \A i \in DOMAIN asked :
          /\ asked[i].op = "first" => i = 1 /\ \A j \in DOMAIN back : back[j].op = "event"
          /\ asked[i].op = "firstget" =>
                /\ deleting = {} /\ IsThere(asked[i].of)
                /\ \A j \in DOMAIN asked : j < i => asked[j].op # "delete"
    /\ \A i \in DOMAIN back : back[i].op = "first" =>
          \A j \in DOMAIN back : /\ j < i => back[j].op = "event"
                                 /\ back[j].op \in {"event", "first", "list", "create"}
    /\ Has(asked, 0, {"first"}) \/ Has(back, 0, {"first"}) =>
          /\ Unopened /\ deleting = {}
          /\ viewing \in Sessions => IsThere(viewing)
          /\ \A j \in DOMAIN asked : asked[j].op \in {"first", "list", "create"}

\* The Thread being viewed is shown as it is, or it will be told again.
ViewFits ==
    viewing = shown /\ shown \in Sessions /\ IsThere(shown) =>
        \/ view = records[shown]
        \/ HasOf(asked, 0, Readers, shown)
        \/ HasOf(back, 0, Readers \cup {"event"}, shown)

ShowInv ==
    /\ BornWindow /\ BornAsked /\ BornTold
    /\ CopiesFit /\ ListsFit /\ InboxFits /\ HeldFits /\ OpeningFits /\ ViewFits

-----------------------------------------------------------------------------
(* How a queue changes: its head is taken, or something joins its end.     *)

Extends(q, q2) ==
    /\ \A i \in DOMAIN q : i \in DOMAIN q2 /\ q2[i] = q[i]
    /\ \A k \in DOMAIN q2 : k \in Nat /\ 0 < k /\ (k \in DOMAIN q \/ \A j \in DOMAIN q : j < k)

Drops(q, q2) ==
    /\ 1 \in DOMAIN q /\ DOMAIN q \subseteq Nat
    /\ \A i \in DOMAIN q : i = 1 \/ (1 < i /\ i - 1 \in DOMAIN q2 /\ q2[i - 1] = q[i])
    /\ \A k \in DOMAIN q2 : k \in Nat /\ 0 < k /\ k + 1 \in DOMAIN q /\ q2[k] = q[k + 1]

\* A queue that does not change extends itself.
LEMMA SameExtends ==
    ASSUME NEW S, NEW q \in Seq(S)
    PROVE  Extends(q, q)
  BY DEF Extends

\* One more at the end.
LEMMA AppendExtends ==
    ASSUME NEW S, NEW q \in Seq(S), NEW e
    PROVE  /\ Extends(q, Append(q, e))
           /\ Len(q) + 1 \in DOMAIN Append(q, e) /\ Len(q) + 1 \notin DOMAIN q
           /\ Append(q, e)[Len(q) + 1] = e
           /\ \A k \in DOMAIN Append(q, e) : k \in DOMAIN q \/ k = Len(q) + 1
<1> DEFINE T == S \cup {e}
<1>1. q \in Seq(T) /\ e \in T
  OBVIOUS
<1>2. /\ Append(q, e) \in Seq(T)
      /\ Len(Append(q, e)) = Len(q) + 1
      /\ \A i \in 1..Len(q) : Append(q, e)[i] = q[i]
      /\ Append(q, e)[Len(q) + 1] = e
  BY <1>1, AppendProperties
<1>3. DOMAIN q = 1..Len(q) /\ Len(q) \in Nat /\ DOMAIN Append(q, e) = 1..(Len(q) + 1)
  BY <1>1, <1>2
<1> QED BY <1>2, <1>3 DEF Extends

Joined(q, r) == q \o r
Pair(e, a) == <<e, a>>

\* Some more at the end.
LEMMA ConcatExtends ==
    ASSUME NEW S, NEW q \in Seq(S), NEW r \in Seq(S), NEW q2, q2 = Joined(q, r)
    PROVE  /\ Extends(q, q2)
           /\ \A k \in DOMAIN q2 : k \in DOMAIN q \/ \E i \in DOMAIN r : q2[k] = r[i]
           /\ \A i \in DOMAIN r : \E k \in DOMAIN q2 : k \notin DOMAIN q /\ q2[k] = r[i]
<1>0. q2 = q \o r
  BY DEF Joined
<1>1. /\ q \o r \in Seq(S)
      /\ Len(q \o r) = Len(q) + Len(r)
      /\ \A i \in 1..Len(q) + Len(r) :
             (q \o r)[i] = IF i <= Len(q) THEN q[i] ELSE r[i - Len(q)]
  BY ConcatProperties
<1>2. /\ DOMAIN q = 1..Len(q) /\ Len(q) \in Nat /\ DOMAIN r = 1..Len(r) /\ Len(r) \in Nat
      /\ DOMAIN (q \o r) = 1..(Len(q) + Len(r))
  BY <1>1
<1>3. Extends(q, q \o r)
  BY <1>1, <1>2 DEF Extends
<1>4. ASSUME NEW k \in DOMAIN (q \o r), k \notin DOMAIN q
      PROVE  \E i \in DOMAIN r : (q \o r)[k] = r[i]
  <2>1. k - Len(q) \in DOMAIN r
    BY <1>2, <1>4
  <2> QED BY <1>1, <1>2, <1>4, <2>1
<1>5. ASSUME NEW i \in DOMAIN r
      PROVE  \E k \in DOMAIN (q \o r) : k \notin DOMAIN q /\ (q \o r)[k] = r[i]
  <2>1. i + Len(q) \in DOMAIN (q \o r) /\ i + Len(q) \notin DOMAIN q /\ i + Len(q) - Len(q) = i
    BY <1>2
  <2> QED BY <1>1, <1>2, <2>1
<1> QED BY <1>0, <1>3, <1>4, <1>5

\* The head is taken.
LEMMA TailDrops ==
    ASSUME NEW S, NEW q \in Seq(S), q # <<>>
    PROVE  Drops(q, Tail(q)) /\ Head(q) = q[1]
<1>1. Len(q) \in Nat \ {0} /\ DOMAIN q = 1..Len(q)
  BY EmptySeq
<1>2. /\ Tail(q) \in Seq(S) /\ Len(Tail(q)) = Len(q) - 1
      /\ \A i \in 1..Len(Tail(q)) : Tail(q)[i] = q[i + 1]
  BY HeadTailProperties
<1>3. DOMAIN Tail(q) = 1..(Len(q) - 1)
  BY <1>1, <1>2
<1>4. ASSUME NEW i \in DOMAIN q, i # 1
      PROVE  1 < i /\ i - 1 \in DOMAIN Tail(q) /\ Tail(q)[i - 1] = q[i]
  <2>1. i - 1 \in 1..(Len(q) - 1) /\ i - 1 + 1 = i /\ 1 < i
    BY <1>1, <1>4
  <2> QED BY <1>2, <1>3, <2>1
<1>5. \A k \in DOMAIN Tail(q) : k \in Nat /\ 0 < k /\ k + 1 \in DOMAIN q /\ Tail(q)[k] = q[k + 1]
  BY <1>1, <1>2, <1>3
<1> QED BY <1>1, <1>4, <1>5 DEF Drops

\* What follows a place of a queue still does when the queue grows.
LEMMA HasGrows ==
    ASSUME NEW q, NEW q2, Extends(q, q2), NEW i
    PROVE  /\ \A ops : Has(q, i, ops) => Has(q2, i, ops)
           /\ \A ops, t : HasOf(q, i, ops, t) => HasOf(q2, i, ops, t)
           /\ HasListed(q, i) => HasListed(q2, i)
  BY DEF Extends, Has, HasOf, HasListed

\* What joins the end of a queue follows all its places.
LEMMA HasNew ==
    ASSUME NEW q, NEW q2, Extends(q, q2), NEW i, i = 0 \/ i \in DOMAIN q,
           NEW k \in DOMAIN q2, k \notin DOMAIN q
    PROVE  /\ \A ops : q2[k].op \in ops => Has(q2, i, ops)
           /\ \A ops : q2[k].op \in ops => HasOf(q2, i, ops, q2[k].of)
           /\ q2[k].op = "event" /\ q2[k].listed => HasListed(q2, i)
  BY DEF Extends, Has, HasOf, HasListed

\* Taking the head moves every place, and what follows it, by one.
LEMMA HasDrops ==
    ASSUME NEW q, NEW q2, Drops(q, q2), NEW i \in DOMAIN q
    PROVE  /\ \A ops : Has(q, i, ops) => Has(q2, i - 1, ops)
           /\ \A ops, t : HasOf(q, i, ops, t) => HasOf(q2, i - 1, ops, t)
           /\ HasListed(q, i) => HasListed(q2, i - 1)
<1>1. ASSUME NEW j \in DOMAIN q, i < j
      PROVE  j - 1 \in DOMAIN q2 /\ i - 1 < j - 1 /\ q2[j - 1] = q[j]
  <2>1. i \in Nat /\ j \in Nat /\ (i = 1 \/ 1 < i)
    BY DEF Drops
  <2>2. j # 1
    BY <1>1, <2>1
  <2> QED BY <1>1, <2>1, <2>2 DEF Drops
<1>2. ASSUME NEW ops, Has(q, i, ops) PROVE Has(q2, i - 1, ops)
  BY <1>1, <1>2 DEF Has
<1>3. ASSUME NEW ops, NEW t, HasOf(q, i, ops, t) PROVE HasOf(q2, i - 1, ops, t)
  BY <1>1, <1>3 DEF HasOf
<1>4. ASSUME HasListed(q, i) PROVE HasListed(q2, i - 1)
  BY <1>1, <1>4 DEF HasListed
<1> QED BY <1>2, <1>3, <1>4

\* Of all that is in a queue, only the head goes.
LEMMA HasAfterHead ==
    ASSUME NEW q, NEW q2, Drops(q, q2)
    PROVE  /\ \A ops : Has(q, 0, ops) => q[1].op \in ops \/ Has(q2, 0, ops)
           /\ \A ops, t : HasOf(q, 0, ops, t) =>
                  (q[1].op \in ops /\ q[1].of = t) \/ HasOf(q2, 0, ops, t)
           /\ HasListed(q, 0) => (q[1].op = "event" /\ q[1].listed) \/ HasListed(q2, 0)
<1>1. ASSUME NEW j \in DOMAIN q, j # 1
      PROVE  j - 1 \in DOMAIN q2 /\ 0 < j - 1 /\ q2[j - 1] = q[j]
  BY <1>1 DEF Drops
<1>2. ASSUME NEW ops, Has(q, 0, ops), q[1].op \notin ops PROVE Has(q2, 0, ops)
  BY <1>1, <1>2 DEF Has
<1>3. ASSUME NEW ops, NEW t, HasOf(q, 0, ops, t), ~(q[1].op \in ops /\ q[1].of = t)
      PROVE  HasOf(q2, 0, ops, t)
  BY <1>1, <1>3 DEF HasOf
<1>4. ASSUME HasListed(q, 0), ~(q[1].op = "event" /\ q[1].listed) PROVE HasListed(q2, 0)
  BY <1>1, <1>4 DEF HasListed
<1> QED BY <1>2, <1>3, <1>4

\* And what follows a place after that followed it before.
LEMMA HasLifts ==
    ASSUME NEW q, NEW q2, Drops(q, q2), NEW k \in Nat, NEW ops, Has(q2, k, ops)
    PROVE  Has(q, k + 1, ops)
<1>1. PICK j \in DOMAIN q2 : k < j /\ q2[j].op \in ops
  BY DEF Has
<1>2. j \in Nat /\ j + 1 \in DOMAIN q /\ q2[j] = q[j + 1]
  BY DEF Drops
<1>3. k + 1 < j + 1
  BY <1>1, <1>2
<1> QED BY <1>1, <1>2, <1>3 DEF Has

-----------------------------------------------------------------------------
(* What a change at the daemon leaves true of the answers on their way.    *)

\* Every change of a Thread is told, and what is new in the sidebar as such.
Told ==
    /\ Extends(back, back')
    /\ \A t \in Sessions : Born(t) => Born(t)'
    /\ \A t \in Sessions : Born(t) /\ ~IsThere(t) => ~IsThere(t)'
    /\ \A t \in Sessions : IsThere(t)' /\ records'[t] # records[t] =>
          \E k \in DOMAIN back' : /\ k \notin DOMAIN back
                                  /\ back'[k].op = "event" /\ back'[k].of = t
    /\ \A t \in Sessions : IsPending(t)' # IsPending(t) =>
          \E k \in DOMAIN back' : /\ k \notin DOMAIN back
                                  /\ back'[k].op = "event" /\ back'[k].listed

\* What is answered is how things are when it is.
Fresh(a) ==
    /\ a.op \in Readers \/ Tale(a) => a.of \in Sessions /\ Born(a.of)
    /\ Tale(a) => a.copy = records[a.of]
    /\ a.op = "get" /\ ~a.ok => ~IsThere(a.of)
    /\ a.op \in Listers => RowsBorn(a.copy) /\ Agrees(a.copy)
    /\ a.op \in {"firstget", "create"} => a.ok

NewAreFresh ==
    \A k \in DOMAIN back' : k \notin DOMAIN back => \E a : a = back'[k] /\ Fresh(a)'

\* What is on its way is of Threads, or lists them.
LEMMA BackIs ==
    ASSUME ViewIInv, NEW i \in DOMAIN back
    PROVE  /\ back[i] \in Tells /\ i \in Nat /\ 0 < i
           /\ back[i].op \in Readers \cup ThreadOps \cup {"create", "event"}
                  => back[i].of \in Sessions
           /\ Tale(back[i]) => back[i].of \in Sessions
           /\ back[i].op \in Listers => back[i].copy \in OwnRows
<1>1. back[i] \in Tells /\ i \in Nat /\ 0 < i
  BY DEF ViewIInv, WiresFit
<1>2. back[i].op \in Readers => back[i].op \in ThreadOps
  BY DEF Readers, Guesses, ThreadOps
<1>3. back[i].op \in ThreadOps \cup {"create", "event"} => back[i].of \in Sessions
  BY <1>1 DEF Tells, EventMessage, ListAnswer, ThreadAnswer, ThreadOps
<1>4. back[i].op \in Listers => back[i].copy \in OwnRows
  BY <1>1 DEF Tells, EventMessage, ListAnswer, ThreadAnswer, ThreadOps, Listers
<1> QED BY <1>1, <1>2, <1>3, <1>4 DEF Tale

\* What is asked is asked of Threads, but for the list.
LEMMA AskedIs ==
    ASSUME ViewIInv, NEW i \in DOMAIN asked
    PROVE  /\ asked[i] \in Asks /\ i \in Nat /\ 0 < i
           /\ asked[i].op \in Readers \cup ThreadOps => asked[i].of \in Sessions
<1>1. asked[i] \in Asks /\ i \in Nat /\ 0 < i
  BY DEF ViewIInv, WiresFit
<1>2. asked[i].op \in Readers => asked[i].op \in ThreadOps
  BY DEF Readers, Guesses, ThreadOps
<1>3. asked[i].op \in ThreadOps => asked[i].of \in Sessions
  BY <1>1 DEF Asks, ListRequest, ThreadRequest, ThreadOps
<1> QED BY <1>1, <1>2, <1>3

\* A list fits, or a listed event follows it: a change brings one.
LEMMA StillAgrees ==
    ASSUME Told, NEW rows, NEW i, i = 0 \/ i \in DOMAIN back, Agrees(rows) \/ Relisted(i)
    PROVE  Agrees(rows)' \/ Relisted(i)'
<1>0. Extends(back, back')
  BY DEF Told
<1>1. CASE Relisted(i)
  BY <1>0, <1>1, HasGrows DEF Relisted
<1>2. CASE Agrees(rows) /\ \A t \in Sessions : IsPending(t)' = IsPending(t)
  BY <1>2 DEF Agrees
<1>3. ASSUME NEW t \in Sessions, IsPending(t)' # IsPending(t) PROVE Relisted(i)'
  <2>1. PICK k \in DOMAIN back' : /\ k \notin DOMAIN back
                                  /\ back'[k].op = "event" /\ back'[k].listed
    BY <1>3 DEF Told
  <2> QED BY <1>0, <2>1, HasNew DEF Relisted
<1> QED BY <1>1, <1>2, <1>3

\* A copy fits, or an event follows it: a change brings one.
LEMMA StillFits ==
    ASSUME Told, NEW t \in Sessions, Born(t), NEW c, NEW i, i = 0 \/ i \in DOMAIN back,
           IsThere(t) => c = records[t] \/ Changed(t, i)
    PROVE  IsThere(t)' => c = records'[t] \/ Changed(t, i)'
<1> SUFFICES ASSUME IsThere(t)' PROVE c = records'[t] \/ Changed(t, i)'
  OBVIOUS
<1>0. Extends(back, back') /\ IsThere(t)
  BY DEF Told
<1>1. CASE Changed(t, i)
  BY <1>0, <1>1, HasGrows DEF Changed
<1>2. CASE c = records[t] /\ records'[t] = records[t]
  BY <1>2
<1>3. CASE records'[t] # records[t]
  <2>1. PICK k \in DOMAIN back' : /\ k \notin DOMAIN back
                                  /\ back'[k].op = "event" /\ back'[k].of = t
    BY <1>3 DEF Told
  <2>2. HasOf(back', i, {"event"}, t)
    BY <1>0, <2>1, HasNew
  <2> QED BY <2>2 DEF Changed
<1> QED BY <1>0, <1>1, <1>2, <1>3

\* So what is on its way stays as true as it was.
LEMMA ToldKeeps ==
    ASSUME ViewIInv, ShowInv, Told, NewAreFresh
    PROVE  BornTold' /\ CopiesFit' /\ ListsFit'
<1>1. ASSUME NEW i \in DOMAIN back'
      PROVE  /\ back'[i].op \in Readers => kin'[back'[i].of] # {}
             /\ back'[i].op \in Listers =>
                    \A t \in Sessions : back'[i].copy[t].status # "none" => kin'[t] # {}
  <2>1. CASE i \in DOMAIN back
    <3>1. back'[i] = back[i]
      BY <2>1 DEF Told, Extends
    <3>2. /\ back[i].op \in Readers => back[i].of \in Sessions /\ Born(back[i].of)
          /\ back[i].op \in Listers => RowsBorn(back[i].copy)
      BY <2>1, BackIs DEF ShowInv, BornTold
    <3> QED BY <3>1, <3>2 DEF Told, Born, RowsBorn
  <2>2. CASE i \notin DOMAIN back
    <3>1. PICK a : a = back'[i] /\ Fresh(a)'
      BY <2>2 DEF NewAreFresh
    <3> QED BY <3>1 DEF Fresh, Born, RowsBorn
  <2> QED BY <2>1, <2>2
<1>2. ASSUME NEW i \in DOMAIN back
      PROVE  \E a : /\ a = back[i] /\ a = back'[i]
                    /\ Tale(a) => Born(a.of)'
                    /\ Tale(a) /\ IsThere(a.of)' => a.copy = records'[a.of] \/ Changed(a.of, i)'
                    /\ a.op = "get" /\ ~a.ok => ~IsThere(a.of)'
                    /\ a.op = "create" => a.ok
                    /\ a.op \in Listers => Agrees(a.copy)' \/ Relisted(i)'
  <2>0. PICK a : a = back[i]
    OBVIOUS
  <2>1. a = back'[i]
    BY <2>0 DEF Told, Extends
  <2>2. /\ Tale(a) => a.of \in Sessions /\ Born(a.of)
        /\ Tale(a) /\ IsThere(a.of) => a.copy = records[a.of] \/ Changed(a.of, i)
        /\ a.op = "get" /\ ~a.ok => ~IsThere(a.of) /\ a.of \in Sessions /\ Born(a.of)
        /\ a.op = "create" => a.ok
        /\ a.op \in Listers => Agrees(a.copy) \/ Relisted(i)
    BY <2>0, BackIs DEF ShowInv, CopiesFit, ListsFit, BornTold, Readers
  <2>3. Tale(a) => Born(a.of)'
    BY <2>2 DEF Told
  <2>4. Tale(a) /\ IsThere(a.of)' => a.copy = records'[a.of] \/ Changed(a.of, i)'
    BY <2>2, StillFits
  <2>5. a.op = "get" /\ ~a.ok => ~IsThere(a.of)'
    BY <2>2 DEF Told
  <2>6. a.op \in Listers => Agrees(a.copy)' \/ Relisted(i)'
    BY <2>2, StillAgrees
  <2> QED BY <2>0, <2>1, <2>2, <2>3, <2>4, <2>5, <2>6
<1>3. ASSUME NEW i \in DOMAIN back', i \notin DOMAIN back
      PROVE  \E a : a = back'[i] /\ Fresh(a)'
  BY <1>3 DEF NewAreFresh
<1>4. BornTold'
  BY <1>1 DEF BornTold, Born, RowsBorn
<1>5. CopiesFit'
  <2> SUFFICES ASSUME NEW i \in DOMAIN back'
               PROVE  \E a : /\ a = back'[i]
                             /\ Tale(a) => kin'[a.of] # {}
                             /\ Tale(a) /\ IsThere(a.of)' =>
                                    a.copy = records'[a.of] \/ Changed(a.of, i)'
                             /\ a.op = "get" /\ ~a.ok => ~IsThere(a.of)'
                             /\ a.op = "create" => a.ok
    BY DEF CopiesFit, Born, Tale, IsThere, Changed
  <2>1. CASE i \in DOMAIN back
    BY <1>2, <2>1 DEF Born
  <2>2. CASE i \notin DOMAIN back
    BY <1>3, <2>2 DEF Fresh, Born
  <2> QED BY <2>1, <2>2
<1>6. ListsFit'
  <2> SUFFICES ASSUME NEW i \in DOMAIN back'
               PROVE  \E a : /\ a = back'[i]
                             /\ a.op \in Listers => Agrees(a.copy)' \/ Relisted(i)'
    BY DEF ListsFit, Agrees, Relisted
  <2>1. CASE i \in DOMAIN back
    BY <1>2, <2>1
  <2>2. CASE i \notin DOMAIN back
    BY <1>3, <2>2 DEF Fresh
  <2> QED BY <2>1, <2>2
<1> QED BY <1>4, <1>5, <1>6

-----------------------------------------------------------------------------
(* The reviewer acts, or somebody else: requests and events join the ends. *)

\* What the sidebar shows stays as good as it was.
LEMMA InboxStays ==
    ASSUME ShowInv, Told, inbox' = inbox,
           Has(asked, 0, Refreshers) => Has(asked', 0, Refreshers) \/ Has(back', 0, Refreshers)
    PROVE  InboxFits'
<1>1. CASE Agrees(inbox) \/ Relisted(0)
  <2>1. PICK rows : rows = inbox
    OBVIOUS
  <2>2. Agrees(rows)' \/ Relisted(0)'
    BY <1>1, <2>1, StillAgrees
  <2> QED BY <2>1, <2>2 DEF InboxFits, Agrees
<1>2. CASE Has(asked, 0, Refreshers)
  BY <1>2 DEF InboxFits
<1>3. CASE Has(back, 0, Refreshers)
  BY <1>3, HasGrows DEF Told, InboxFits
<1> QED BY <1>1, <1>2, <1>3 DEF ShowInv, InboxFits

\* What the window shows of its Thread stays as good as it was.
LEMMA ViewStays ==
    ASSUME ViewIInv, ShowInv, Told, UNCHANGED <<viewing, shown, view>>,
           \A t : HasOf(asked, 0, Readers, t) =>
                HasOf(asked', 0, Readers, t) \/ HasOf(back', 0, Readers, t)
    PROVE  ViewFits'
<1> SUFFICES ASSUME viewing = shown, shown \in Sessions, IsThere(shown)'
             PROVE  \/ view = records'[shown]
                    \/ HasOf(asked', 0, Readers, shown)
                    \/ HasOf(back', 0, Readers \cup {"event"}, shown)
  BY DEF ViewFits
<1>1. PICK t \in Sessions : t = shown
  OBVIOUS
<1>2. Born(t) /\ records'[t].status # "none"
  BY <1>1 DEF ShowInv, BornWindow, IsThere
<1>3. IsThere(t)
  BY <1>2 DEF Told, IsThere
<1>4. ASSUME NEW q, NEW ops \in SUBSET (Readers \cup {"event"}), HasOf(q, 0, ops, t)
      PROVE  HasOf(q, 0, Readers \cup {"event"}, t)
  BY <1>4 DEF HasOf
<1>5. CASE HasOf(asked, 0, Readers, t)
  BY <1>1, <1>4, <1>5
<1>6. CASE HasOf(back, 0, Readers \cup {"event"}, t)
  BY <1>1, <1>6, HasGrows DEF Told
<1>7. CASE view = records[t]
  <2>1. PICK c : c = view
    OBVIOUS
  <2>2. IsThere(t)' => c = records'[t] \/ Changed(t, 0)'
    BY <1>2, <1>7, <2>1, StillFits
  <2> QED BY <1>1, <1>2, <1>4, <2>1, <2>2 DEF IsThere, Changed
<1> QED BY <1>1, <1>3, <1>5, <1>6, <1>7 DEF ShowInv, ViewFits

\* Threads that were born stay so.
LEMMA BornRows ==
    ASSUME Told, NEW rows, RowsBorn(rows)
    PROVE  RowsBorn(rows)'
  BY DEF Told, RowsBorn

\* The list held stays as good as it was.
LEMMA HeldStays ==
    ASSUME Told, first' = first, NEW i, i = 0 \/ i \in DOMAIN back, Agrees(first) \/ Relisted(i)
    PROVE  Agrees(first)' \/ Relisted(i)'
<1>1. PICK held : held = first
  OBVIOUS
<1>2. Agrees(held)' \/ Relisted(i)'
  BY <1>1, StillAgrees
<1> QED BY <1>1, <1>2 DEF Agrees

\* Reviewer and others act: only requests and events are new on the way,
\* and what a step shows of itself it also asks.
LEMMA ActKeeps ==
    ASSUME ViewIInv, ShowInv, Told,
           \A k \in DOMAIN back' : k \in DOMAIN back \/ back'[k].op = "event",
           Extends(asked, asked'),
           \A k \in DOMAIN asked' : k \notin DOMAIN asked =>
               /\ asked'[k].op \notin {"first", "firstget"}
               /\ asked'[k].op \in Readers => kin'[asked'[k].of] # {}
               /\ Unopened => asked'[k].op \in {"list", "create"},
           first' = first, inbox' = inbox,
           shown' \in Sessions => kin'[shown'] # {},
           UNCHANGED <<viewing, shown, view>> \/ HasOf(asked', 0, Readers, shown'),
           deleting' \subseteq deleting,
           deleting = {} => \A t \in Sessions : IsThere(t) => IsThere(t)',
           Unopened => UNCHANGED <<shown, viewing>> /\ uploads' = {}
    PROVE  ShowInv'
<1>0. Extends(back, back')
  BY DEF Told
<1>1. NewAreFresh
  BY DEF NewAreFresh, Fresh, Readers, Guesses, Tale, ThreadOps, Listers
<1>2. BornTold' /\ CopiesFit' /\ ListsFit'
  BY <1>1, ToldKeeps
<1>3. BornWindow'
  <2>1. PICK rows, held : rows = inbox /\ held = first
    OBVIOUS
  <2>2. RowsBorn(rows)' /\ RowsBorn(held)'
    BY <2>1, BornRows DEF ShowInv, BornWindow
  <2> QED BY <2>1, <2>2 DEF BornWindow, Born, RowsBorn
<1>4. BornAsked'
  <2> SUFFICES ASSUME NEW i \in DOMAIN asked', asked'[i].op \in Readers
               PROVE  kin'[asked'[i].of] # {}
    BY DEF BornAsked, Born
  <2>1. CASE i \in DOMAIN asked
    <3>1. asked'[i] = asked[i] /\ asked[i].of \in Sessions /\ Born(asked[i].of)
      BY <2>1, AskedIs DEF Extends, ShowInv, BornAsked
    <3> QED BY <3>1 DEF Told, Born
  <2> QED BY <2>1
<1>5. InboxFits'
  BY InboxStays, HasGrows
<1>6. ViewFits'
  <2>1. CASE UNCHANGED <<viewing, shown, view>>
    BY <2>1, ViewStays, HasGrows
  <2>2. CASE HasOf(asked', 0, Readers, shown')
    BY <2>2 DEF ViewFits
  <2> QED BY <2>1, <2>2
<1>7. ASSUME NEW ops, "event" \notin ops, NEW i, ~Has(back, i, ops), i = 0 \/ i \in DOMAIN back
      PROVE  ~Has(back', i, ops)
  BY <1>7, <1>0 DEF Has, Extends
<1>8. ASSUME NEW i, ~Has(asked, i, {"firstget"})
      PROVE  ~Has(asked', i, {"firstget"})
  BY <1>8 DEF Has, Extends
<1>10. HeldFits'
  <2>1. ASSUME NEW i \in DOMAIN asked', asked'[i].op = "firstget"
        PROVE  /\ Agrees(first)' \/ Relisted(0)' \/ Has(asked', i, {"list"})
               /\ ~Has(asked', i, {"firstget"}) /\ ~Has(back', 0, {"firstget"})
    <3>1. i \in DOMAIN asked /\ asked[i].op = "firstget"
      BY <2>1 DEF Extends
    <3>2. /\ Agrees(first) \/ Relisted(0) \/ Has(asked, i, {"list"})
          /\ ~Has(asked, i, {"firstget"}) /\ ~Has(back, 0, {"firstget"})
      BY <3>1 DEF ShowInv, HeldFits
    <3>3. Has(asked, i, {"list"}) => Has(asked', i, {"list"})
      BY HasGrows
    <3>4. Agrees(first) \/ Relisted(0) => Agrees(first)' \/ Relisted(0)'
      BY HeldStays
    <3> QED BY <1>7, <1>8, <3>2, <3>3, <3>4
  <2>2. ASSUME NEW i \in DOMAIN back', back'[i].op = "firstget"
        PROVE  /\ back'[i].ok
               /\ Agrees(first)' \/ Relisted(0)' \/ Has(asked', 0, {"list"}) \/ Has(back', i, {"list"})
               /\ ~Has(back', i, {"firstget"})
    <3>1. i \in DOMAIN back /\ back'[i] = back[i] /\ back[i].op = "firstget"
      BY <1>0, <2>2 DEF Extends
    <3>2. /\ back[i].ok
          /\ Agrees(first) \/ Relisted(0) \/ Has(asked, 0, {"list"}) \/ Has(back, i, {"list"})
          /\ ~Has(back, i, {"firstget"})
      BY <3>1 DEF ShowInv, HeldFits
    <3>3. /\ Has(asked, 0, {"list"}) => Has(asked', 0, {"list"})
          /\ Has(back, i, {"list"}) => Has(back', i, {"list"})
      BY <1>0, HasGrows
    <3>4. Agrees(first) \/ Relisted(0) => Agrees(first)' \/ Relisted(0)'
      BY HeldStays
    <3> QED BY <1>7, <3>1, <3>2, <3>3, <3>4
  <2> QED BY <2>1, <2>2 DEF HeldFits, Agrees, Relisted
<1>11. OpeningFits'
  <2>0. OpeningFits
    BY DEF ShowInv
  <2>1. ASSUME NEW i \in DOMAIN asked', asked'[i].op = "first"
        PROVE  i = 1 /\ \A j \in DOMAIN back' : back'[j].op = "event"
    <3>1. i \in DOMAIN asked /\ asked[i].op = "first"
      BY <2>1 DEF Extends
    <3> QED BY <1>0, <2>0, <3>1 DEF OpeningFits, Extends
  <2>2. ASSUME NEW i \in DOMAIN asked', asked'[i].op = "firstget"
        PROVE  /\ deleting' = {} /\ records'[asked'[i].of].status # "none"
               /\ \A j \in DOMAIN asked' : j < i => asked'[j].op # "delete"
    <3>1. i \in DOMAIN asked /\ asked'[i] = asked[i] /\ asked[i].op = "firstget"
      BY <2>2 DEF Extends
    <3>2. asked[i].of \in Sessions /\ i \in Nat
      BY <3>1, AskedIs DEF ThreadOps
    <3>3. /\ deleting = {} /\ IsThere(asked[i].of)
          /\ \A j \in DOMAIN asked : j < i => asked[j].op # "delete"
      BY <2>0, <3>1 DEF OpeningFits
    <3>4. ASSUME NEW j \in DOMAIN asked', j < i PROVE j \in DOMAIN asked /\ asked'[j] = asked[j]
      <4>1. j \in DOMAIN asked \/ i < j
        BY <3>1 DEF Extends
      <4>2. j \in Nat
          BY DEF Extends
      <4> QED BY <3>2, <3>4, <4>1, <4>2 DEF Extends
    <3> QED BY <3>1, <3>2, <3>3, <3>4 DEF IsThere
  <2>3. ASSUME NEW i \in DOMAIN back', back'[i].op = "first"
        PROVE  \A j \in DOMAIN back' : /\ j < i => back'[j].op = "event"
                                       /\ back'[j].op \in {"event", "first", "list", "create"}
    <3>1. i \in DOMAIN back /\ back[i].op = "first"
      BY <1>0, <2>3 DEF Extends
    <3> QED BY <1>0, <2>0, <3>1 DEF OpeningFits, Extends
  <2>4. ASSUME Has(asked', 0, {"first"}) \/ Has(back', 0, {"first"})
        PROVE  /\ Unopened' /\ deleting' = {}
               /\ viewing' \in Sessions => records'[viewing'].status # "none"
               /\ \A j \in DOMAIN asked' : asked'[j].op \in {"first", "list", "create"}
    <3>1. Has(asked, 0, {"first"}) \/ Has(back, 0, {"first"})
      BY <1>0, <2>4 DEF Has, Extends
    <3>2. /\ Unopened /\ deleting = {}
          /\ viewing \in Sessions => IsThere(viewing)
          /\ \A j \in DOMAIN asked : asked[j].op \in {"first", "list", "create"}
      BY <2>0, <3>1 DEF OpeningFits
    <3>3. \A j \in DOMAIN asked' : asked'[j].op \in {"first", "list", "create"}
      BY <3>2 DEF Extends
    <3>4. Unopened' /\ viewing' = viewing /\ deleting' = {}
      BY <3>2 DEF Unopened
    <3> QED BY <3>2, <3>3, <3>4 DEF IsThere
  <2> QED BY <2>1, <2>2, <2>3, <2>4 DEF OpeningFits, IsThere
<1> QED BY <1>2, <1>3, <1>4, <1>5, <1>6, <1>10, <1>11 DEF ShowInv

\* The parts of a request are those it was made of.
LEMMA RequestIs ==
    \A op, t, with, links : /\ Request(op, t, with, links).op = op
                            /\ Request(op, t, with, links).of = t
  BY DEF Request

\* At most one request more, and nothing else on its way.
LEMMA AskKeeps ==
    ASSUME ViewIInv, ShowInv, UNCHANGED <<daemonState, back, first, inbox>>, NEW r,
           asked' = asked \/ asked' = Append(asked, r),
           r.op \notin {"first", "firstget"},
           r.op \in Readers => Born(r.of),
           Unopened => asked' = asked \/ r.op \in {"list", "create"},
           shown' \in Sessions => kin[shown'] # {},
           \/ UNCHANGED <<viewing, shown, view>>
           \/ asked' = Append(asked, r) /\ r.op \in Readers /\ r.of = shown',
           Unopened => UNCHANGED <<shown, viewing>> /\ uploads' = {}
    PROVE  ShowInv'
<1>1. asked \in Seq(Asks) /\ back \in Seq(Tells)
  BY DEF ViewIInv, WiresFit
<1>2. Told
  BY <1>1, SameExtends DEF Told, daemonState, Born, IsThere, IsPending
<1>3. /\ Extends(asked, asked')
      /\ \A k \in DOMAIN asked' : k \notin DOMAIN asked => asked'[k] = r /\ asked' = Append(asked, r)
      /\ asked' = Append(asked, r) =>
             \E k \in DOMAIN asked' : k \notin DOMAIN asked /\ asked'[k] = r
  <2>1. CASE asked' = asked
    <3>1. Len(asked) + 1 \in DOMAIN Append(asked, r) /\ Len(asked) + 1 \notin DOMAIN asked
      BY <1>1, AppendExtends
    <3>2. asked # Append(asked, r)
      BY <3>1
    <3> QED BY <1>1, <2>1, <3>2, SameExtends
  <2>2. CASE asked' = Append(asked, r)
    BY <1>1, <2>2, AppendExtends
  <2> QED BY <2>1, <2>2
<1>4. \A k \in DOMAIN asked' : k \notin DOMAIN asked =>
          /\ asked'[k].op \notin {"first", "firstget"}
          /\ asked'[k].op \in Readers => kin'[asked'[k].of] # {}
          /\ Unopened => asked'[k].op \in {"list", "create"}
  <2>1. asked' = asked => \A k \in DOMAIN asked' : k \in DOMAIN asked
    OBVIOUS
  <2> QED BY <1>3, <2>1 DEF daemonState, Born
<1>5. asked' = Append(asked, r) /\ r.op \in Readers /\ r.of = shown' =>
          HasOf(asked', 0, Readers, shown')
  <2> SUFFICES ASSUME asked' = Append(asked, r), r.op \in Readers, r.of = shown'
               PROVE  HasOf(asked', 0, Readers, shown')
    OBVIOUS
  <2>1. PICK k \in DOMAIN asked' : k \notin DOMAIN asked /\ asked'[k] = r
    BY <1>3
  <2>2. HasOf(asked', 0, Readers, asked'[k].of)
    BY <1>3, <2>1, HasNew
  <2> QED BY <2>1, <2>2
<1>6. \A k \in DOMAIN back' : k \in DOMAIN back \/ back'[k].op = "event"
  OBVIOUS
<1>7. /\ deleting' \subseteq deleting /\ (shown' \in Sessions => kin'[shown'] # {})
      /\ \A t \in Sessions : IsThere(t) => IsThere(t)'
  BY DEF daemonState, IsThere
<1> QED BY <1>2, <1>3, <1>4, <1>5, <1>6, <1>7, ActKeeps

\* The reviewer's steps on what is shown.
LEMMA ActsKeepShown ==
    ASSUME ViewIInv, ShowInv,
           \/ Reject \/ Annotate \/ RemoveNote \/ Submit \/ Fork \/ CreateShareLink
           \/ DeleteShareLink \/ Unshare \/ Pull
    PROVE  ShowInv'
<1>1. /\ shown # NoSession /\ shown \in Sessions /\ ~Unopened /\ Born(shown)
      /\ shown' = shown /\ viewing' = viewing
      /\ UNCHANGED <<daemonState, back, first, inbox>>
  <2>1. shown # NoSession
    BY DEF ActOnShown, Reject, Annotate, RemoveNote, Submit, Fork, CreateShareLink,
           DeleteShareLink, Unshare, Pull
  <2>2. shown \in Sessions /\ ~Unopened /\ Born(shown)
    BY <2>1 DEF ViewIInv, WindowFits, MaybeSession, ShowInv, BornWindow, Unopened
  <2>3. /\ shown' = shown /\ viewing' = viewing
        /\ UNCHANGED <<daemonState, back, first, inbox>>
    <3>1. CASE Reject \/ Annotate \/ DeleteShareLink
      BY <3>1 DEF Guess, Reject, Annotate, DeleteShareLink
    <3>2. CASE \/ RemoveNote \/ Submit \/ Fork \/ CreateShareLink \/ Unshare \/ Pull
      BY <3>2 DEF window, RemoveNote, Submit, Fork, CreateShareLink, Unshare, Pull
    <3> QED BY <3>1, <3>2
  <2> QED BY <2>1, <2>2, <2>3
<1>2. PICK r : /\ asked' = asked \/ asked' = Append(asked, r)
               /\ r.op \notin {"first", "firstget"} /\ r.of = shown
               /\ view' = view \/ (asked' = Append(asked, r) /\ r.op \in Readers)
  <2>1. CASE Reject
    BY <2>1, RequestIs DEF Reject, Ask, Readers, Guesses
  <2>2. CASE Annotate
    <3>1. PICK n \in Unwritten : asked' = Append(asked, Request("comment", shown, {n}, view.links))
      BY <2>2 DEF Annotate, Ask
    <3> QED BY <3>1, RequestIs DEF Readers, Guesses
  <2>3. CASE RemoveNote
    BY <2>3, RequestIs DEF RemoveNote, Ask, window
  <2>4. CASE Submit \/ Fork \/ Unshare
    BY <2>4, RequestIs DEF Submit, Fork, Unshare, Ask, window
  <2>5. CASE DeleteShareLink
    BY <2>5, RequestIs DEF DeleteShareLink, Ask, Readers, Guesses
  <2>6. CASE CreateShareLink \/ Pull
    <3>1. asked' = asked /\ view' = view
      BY <2>6 DEF CreateShareLink, Pull, window
    <3>2. PICK r : r = Request("get", shown, {}, {})
      OBVIOUS
    <3>3. r.op = "get" /\ r.of = shown
      BY <3>2, RequestIs
    <3> QED BY <3>1, <3>3
  <2> QED BY <2>1, <2>2, <2>3, <2>4, <2>5, <2>6
<1>3. kin[shown] # {}
  BY <1>1 DEF Born
<1> QED BY <1>1, <1>2, <1>3, AskKeeps

\* The copy a Thread is opened with is followed by its record.
LEMMA OpenKeepsShown == ViewIInv /\ ShowInv /\ Open => ShowInv'
<1> SUFFICES ASSUME ViewIInv, ShowInv, Open PROVE ShowInv'
  OBVIOUS
<1>1. PICK t \in Sessions :
        /\ inbox[t].status # "none"
        /\ viewing' = t /\ shown' = t /\ view' = inbox[t]
        /\ asked' = Append(asked, Request("get", t, {}, {}))
  BY DEF Open, Show, AskForGet, Ask
<1>2. Born(t) /\ ~Unopened
  BY <1>1 DEF ShowInv, BornWindow, RowsBorn, Unopened
<1>3. PICK r : r = Request("get", t, {}, {}) /\ r.op = "get" /\ r.of = t
  BY RequestIs
<1>4. r.op \in Readers /\ kin[t] # {}
  BY <1>2, <1>3 DEF Readers, Born
<1> QED BY <1>1, <1>2, <1>3, <1>4, AskKeeps DEF Open

\* What leaves the window as it is.
LEMMA OthersKeepShown ==
    ASSUME ViewIInv, ShowInv,
           CreateEmpty \/ DeleteSession \/ ShareLinkCreated \/ Pulled \/ Collaborate
    PROVE  ShowInv'
<1>1. UNCHANGED <<daemonState, back, first, inbox, viewing, shown, view>>
  BY DEF CreateEmpty, DeleteSession, ShareLinkCreated, Pulled, Collaborate, window
<1>2. shown \in Sessions => kin[shown] # {}
  BY DEF ShowInv, BornWindow, Born
<1>3. Readers \cap {"create", "delete", "share", "merge"} = {}
  BY DEF Readers, Guesses
<1>4. CASE CreateEmpty
  <2>1. PICK r : asked' = Append(asked, r) /\ r.op = "create"
    BY <1>4, RequestIs DEF CreateEmpty, Ask
  <2>2. Unopened => uploads' = {}
    BY <1>4 DEF CreateEmpty, gateway, Unopened
  <2> QED BY <1>1, <1>2, <1>3, <2>1, <2>2, AskKeeps
<1>5. CASE DeleteSession
  <2>1. PICK r : asked' = Append(asked, r) /\ r.op = "delete"
    BY <1>5, RequestIs DEF DeleteSession, Ask
  <2>2. ~Unopened
    BY <1>5, ControllerAssumption DEF DeleteSession, Unopened
  <2> QED BY <1>1, <1>2, <1>3, <2>1, <2>2, AskKeeps
<1>6. CASE ShareLinkCreated
  <2>1. PICK r : asked' = Append(asked, r) /\ r.op = "share"
    <3>1. PICK u \in uploads : Ask("share", u.of, {}, view.links \cup {u.link})
      BY <1>6 DEF ShareLinkCreated
    <3> QED BY <3>1, RequestIs DEF Ask
  <2>2. ~Unopened
    BY <1>6 DEF ShareLinkCreated, Unopened
  <2> QED BY <1>1, <1>2, <1>3, <2>1, <2>2, AskKeeps
<1>7. CASE Pulled
  <2>1. PICK r : (asked' = asked \/ asked' = Append(asked, r)) /\ r.op = "merge"
    <3>1. Request("merge", shown, {}, {}).op = "merge"
      BY RequestIs
    <3> QED BY <1>7, <3>1, RequestIs DEF Pulled, Ask
  <2>2. ~Unopened
    BY <1>7 DEF Pulled, Unopened, ViewIInv, WindowFits
  <2> QED BY <1>1, <1>2, <1>3, <2>1, <2>2, AskKeeps
<1>8. CASE Collaborate
  <2>1. PICK r : asked' = asked /\ r.op = "create"
    <3>1. Request("create", shown, {}, {}).op = "create"
      BY RequestIs
    <3> QED BY <1>8, <3>1 DEF Collaborate
  <2>2. Unopened => uploads' = {}
    BY <1>8 DEF Collaborate, Unopened
  <2> QED BY <1>1, <1>2, <1>3, <2>1, <2>2, AskKeeps
<1> QED BY <1>4, <1>5, <1>6, <1>7, <1>8

\* A Thread changes or goes, and an event tells it.
LEMMA TellingKeeps ==
    ASSUME ViewIInv, ShowInv, NEW t \in Sessions, NEW listed \in BOOLEAN,
           back' = Append(back, Event(t, listed)),
           \A s \in Sessions : s # t => records'[s] = records[s],
           IsPending(t)' # IsPending(t) => listed,
           IsThere(t)' => IsThere(t),
           deleting # {} \/ (IsThere(t) => IsThere(t)'),
           deleting' \subseteq deleting,
           UNCHANGED <<kin, asked, first, inbox, viewing, shown, view, uploads>>
    PROVE  ShowInv'
<1>1. asked \in Seq(Asks) /\ back \in Seq(Tells)
  BY DEF ViewIInv, WiresFit
<1>2. PICK e : /\ e = Event(t, listed) /\ back' = Append(back, e)
               /\ e.op = "event" /\ e.of = t /\ e.listed = listed
  BY DEF Event
<1>3. /\ Extends(back, back')
      /\ \A k \in DOMAIN back' : k \in DOMAIN back \/ back'[k] = e
      /\ \E k \in DOMAIN back' : k \notin DOMAIN back /\ back'[k] = e
  BY <1>1, <1>2, AppendExtends
<1>4. Told
  <2>1. ASSUME NEW s \in Sessions, records'[s] # records[s]
        PROVE  s = t
    BY <2>1
  <2>2. ASSUME NEW s \in Sessions, IsPending(s)' # IsPending(s)
        PROVE  listed
    <3>1. s = t
      BY <2>2, RequestIs DEF IsPending
    <3> QED BY <2>2, <3>1
  <2>3. \A s \in Sessions : Born(s) /\ ~IsThere(s) => ~IsThere(s)'
    BY DEF IsThere
  <2>4. \A s \in Sessions : Born(s) => Born(s)'
    BY DEF Born
  <2> QED BY <1>2, <1>3, <2>1, <2>2, <2>3, <2>4 DEF Told
<1>5. Extends(asked, asked') /\ \A k \in DOMAIN asked' : k \in DOMAIN asked
  BY <1>1, SameExtends
<1>6. shown' \in Sessions => kin'[shown'] # {}
  BY DEF ShowInv, BornWindow, Born
<1>7. deleting = {} => \A s \in Sessions : IsThere(s) => IsThere(s)'
  BY DEF IsThere
<1>8. Unopened => uploads' = {}
  BY DEF Unopened
<1>9. \A k \in DOMAIN back' : k \in DOMAIN back \/ back'[k].op = "event"
  BY <1>2, <1>3
<1> QED BY <1>4, <1>5, <1>6, <1>7, <1>8, <1>9, ActKeeps

\* Somebody else comments or resolves.
LEMMA ChangesKeepShown ==
    ASSUME ViewIInv, ShowInv, OtherComments \/ OtherResolves
    PROVE  ShowInv'
<1>1. PICK t \in Sessions, listed \in BOOLEAN :
        /\ IsPending(t)
        /\ back' = Append(back, Event(t, listed))
        /\ \A s \in Sessions : s # t => records'[s] = records[s]
        /\ ~listed => records'[t].status = records[t].status
        /\ records'[t].status # "none"
  <2>0. records \in [Sessions -> Copy]
    BY DEF ViewIInv, DaemonFits, OwnRows
  <2>1. CASE OtherComments
    <3>1. PICK t \in Sessions, n \in Unwritten :
            /\ IsPending(t)
            /\ records' = [records EXCEPT ![t].notes = @ \cup {n}]
            /\ back' = Append(back, Event(t, FALSE))
      BY <2>1, RequestIs DEF OtherComments
    <3>2. records'[t].status = records[t].status
      BY <2>0, <3>1 DEF Copy
    <3> QED BY <2>0, <3>1, <3>2 DEF IsPending
  <2>2. CASE OtherResolves
    <3>1. PICK t \in Sessions :
            /\ IsPending(t)
            /\ records' = [records EXCEPT ![t].status = "resolved"]
            /\ back' = Append(back, Event(t, TRUE))
      BY <2>2, RequestIs DEF OtherResolves
    <3>2. records'[t].status = "resolved"
      BY <2>0, <3>1 DEF Copy
    <3> QED BY <2>0, <3>1, <3>2
  <2> QED BY <2>1, <2>2
<1>2. IsPending(t)' # IsPending(t) => listed
  BY <1>1 DEF IsPending
<1>3. IsThere(t) /\ IsThere(t)'
  BY <1>1 DEF IsPending, IsThere
<1>4. UNCHANGED <<deleting, kin, asked, first, inbox, viewing, shown, view, uploads>>
  BY DEF OtherComments, OtherResolves, window, gateway
<1> QED BY <1>1, <1>2, <1>3, <1>4, TellingKeeps

\* A Thread goes.
LEMMA FinishDeleteKeepsShown == ViewIInv /\ ShowInv /\ FinishDelete => ShowInv'
<1> SUFFICES ASSUME ViewIInv, ShowInv, FinishDelete PROVE ShowInv'
  OBVIOUS
<1>1. PICK t \in deleting :
        /\ deleting' = deleting \ {t}
        /\ records' = [records EXCEPT ![t] = Blank]
        /\ back' = IF IsThere(t) THEN Append(back, Event(t, TRUE)) ELSE back
  BY DEF FinishDelete
<1>2. t \in Sessions /\ records \in [Sessions -> Copy]
  BY DEF ViewIInv, DaemonFits, OwnRows
<1>3. /\ \A s \in Sessions : s # t => records'[s] = records[s]
      /\ ~IsThere(t)' /\ ~IsPending(t)'
  BY <1>1, <1>2 DEF IsThere, IsPending, Blank
<1>4. UNCHANGED <<kin, asked, first, inbox, viewing, shown, view, uploads>>
  BY DEF FinishDelete, window, gateway
<1>5. CASE IsThere(t)
  <2>1. back' = Append(back, Event(t, TRUE))
    BY <1>1, <1>5
  <2> QED BY <1>1, <1>2, <1>3, <1>4, <2>1, TellingKeeps
<1>6. CASE ~IsThere(t)
  <2>1. back' = back /\ asked \in Seq(Asks) /\ back \in Seq(Tells)
    BY <1>1, <1>6 DEF ViewIInv, WiresFit
  <2>2. \A s \in Sessions : /\ IsThere(s)' = IsThere(s) /\ IsPending(s)' = IsPending(s)
                            /\ IsThere(s)' => records'[s] = records[s]
    BY <1>3, <1>6 DEF IsThere, IsPending
  <2>3. Told
    BY <1>4, <2>1, <2>2, SameExtends DEF Told, Born
  <2>4. Extends(asked, asked') /\ \A k \in DOMAIN asked' : k \in DOMAIN asked
    BY <1>4, <2>1, SameExtends
  <2>5. shown' \in Sessions => kin'[shown'] # {}
    BY <1>4 DEF ShowInv, BornWindow, Born
  <2>6. Unopened => uploads' = {}
    BY <1>4 DEF Unopened
  <2> QED BY <1>1, <1>4, <2>1, <2>2, <2>3, <2>4, <2>5, <2>6, ActKeeps
<1> QED BY <1>5, <1>6

-----------------------------------------------------------------------------
(* The daemon serves a request.                                            *)

\* What is asked goes, and an answer to it comes, with what it changed told.
LEMMA ServingKeeps ==
    ASSUME ViewIInv, ShowInv, Told, NewAreFresh, UNCHANGED <<window, uploads>>,
           Drops(asked, asked'), NEW r, r = asked[1],
           \A k \in DOMAIN back' :
               k \in DOMAIN back \/ back'[k].op = "event" \/ back'[k].op = r.op,
           r.op \in Refreshers => \E a : back' = Append(back, a) /\ a.op = r.op,
           r.op \in Readers => HasOf(back', 0, Readers, r.of),
           r.op # "delete" => deleting' = deleting,
           \A t \in Sessions : IsThere(t) => IsThere(t)'
    PROVE  ShowInv'
<1>0. /\ Extends(back, back') /\ back \in Seq(Tells)
      /\ UNCHANGED <<first, viewing, shown, view, inbox>>
      /\ 1 \in DOMAIN asked
  BY DEF Told, ViewIInv, WiresFit, window, Drops
<1>1. BornTold' /\ CopiesFit' /\ ListsFit'
  BY ToldKeeps
<1>2. BornWindow'
  <2>1. PICK rows, held : rows = inbox /\ held = first
    OBVIOUS
  <2>2. RowsBorn(rows)' /\ RowsBorn(held)'
    BY <2>1, BornRows DEF ShowInv, BornWindow
  <2>3. shown \in Sessions => Born(shown)'
    BY <1>0 DEF ShowInv, BornWindow, Told, Born
  <2> QED BY <1>0, <2>1, <2>2, <2>3 DEF BornWindow, Born, RowsBorn
<1>3. ASSUME NEW i \in DOMAIN asked'
      PROVE  /\ i \in Nat /\ 0 < i /\ i + 1 \in DOMAIN asked /\ asked'[i] = asked[i + 1]
             /\ i + 1 # 1 /\ 1 < i + 1
  BY DEF Drops
<1>4. BornAsked'
  <2> SUFFICES ASSUME NEW i \in DOMAIN asked', asked'[i].op \in Readers
               PROVE  kin'[asked'[i].of] # {}
    BY DEF BornAsked, Born
  <2>1. i + 1 \in DOMAIN asked /\ asked'[i] = asked[i + 1]
    BY <1>3
  <2>2. asked[i + 1].of \in Sessions /\ Born(asked[i + 1].of)
    BY <2>1, AskedIs DEF ShowInv, BornAsked
  <2> QED BY <2>1, <2>2 DEF Told, Born
<1>5. r.op \in Refreshers =>
          \E k \in DOMAIN back' : /\ k \notin DOMAIN back /\ back'[k].op = r.op
                                  /\ \A j \in DOMAIN back' : j \in DOMAIN back \/ j = k
  <2> SUFFICES ASSUME NEW a, back' = Append(back, a), a.op = r.op
               PROVE  \E k \in DOMAIN back' :
                          /\ k \notin DOMAIN back /\ back'[k].op = r.op
                          /\ \A j \in DOMAIN back' : j \in DOMAIN back \/ j = k
    OBVIOUS
  <2> QED BY <1>0, AppendExtends
<1>6. InboxFits'
  <2>1. Has(asked, 0, Refreshers) => r.op \in Refreshers \/ Has(asked', 0, Refreshers)
    BY HasAfterHead
  <2>2. r.op \in Refreshers => Has(back', 0, Refreshers)
    BY <1>0, <1>5, HasNew
  <2> QED BY <1>0, <2>1, <2>2, InboxStays
<1>7. ViewFits'
  <2>1. \A t : HasOf(asked, 0, Readers, t) =>
                   HasOf(asked', 0, Readers, t) \/ HasOf(back', 0, Readers, t)
    BY HasAfterHead
  <2> QED BY <1>0, <2>1, ViewStays
<1>8. Agrees(first) \/ Relisted(0) => Agrees(first)' \/ Relisted(0)'
  BY <1>0, HeldStays
<1>9. ASSUME NEW i, Has(back', i, {"firstget"})
      PROVE  Has(back, i, {"firstget"}) \/ (r.op = "firstget" /\ Has(asked, 0, {"firstget"}))
  <2>1. PICK j \in DOMAIN back' : i < j /\ back'[j].op = "firstget"
    BY <1>9 DEF Has
  <2>2. CASE j \in DOMAIN back
    BY <1>0, <2>1, <2>2 DEF Has, Extends
  <2>3. CASE j \notin DOMAIN back
    BY <1>0, <2>1, <2>3 DEF Has
  <2> QED BY <2>2, <2>3
<1>10. HeldFits'
  <2>0. HeldFits
    BY DEF ShowInv
  <2>1. ASSUME NEW i \in DOMAIN asked', asked'[i].op = "firstget"
        PROVE  /\ Agrees(first)' \/ Relisted(0)' \/ Has(asked', i, {"list"})
               /\ ~Has(asked', i, {"firstget"}) /\ ~Has(back', 0, {"firstget"})
    <3>1. PICK p \in DOMAIN asked : /\ p = i + 1 /\ p - 1 = i /\ 1 < p
                                    /\ i \in Nat /\ asked[p].op = "firstget"
      BY <1>3, <2>1
    <3>2. /\ Agrees(first) \/ Relisted(0) \/ Has(asked, p, {"list"})
          /\ ~Has(asked, p, {"firstget"}) /\ ~Has(back, 0, {"firstget"})
      BY <2>0, <3>1 DEF HeldFits
    <3>3. Has(asked, p, {"list"}) => Has(asked', i, {"list"})
      BY <3>1, HasDrops
    <3>4. ~Has(asked', i, {"firstget"})
      BY <3>1, <3>2, HasLifts
    <3>5. r.op # "firstget"
      <4>1. Has(asked, 1, {"firstget"})
        BY <3>1 DEF Has
      <4> QED BY <1>0, <2>0, <4>1 DEF HeldFits
    <3> QED BY <1>8, <1>9, <3>2, <3>3, <3>4, <3>5
  <2>2. ASSUME NEW i \in DOMAIN back, back[i].op = "firstget"
        PROVE  /\ back[i].ok
               /\ Agrees(first)' \/ Relisted(0)' \/ Has(asked', 0, {"list"}) \/ Has(back', i, {"list"})
               /\ ~Has(back', i, {"firstget"})
    <3>1. /\ back[i].ok
          /\ Agrees(first) \/ Relisted(0) \/ Has(asked, 0, {"list"}) \/ Has(back, i, {"list"})
          /\ ~Has(back, i, {"firstget"})
      BY <2>0, <2>2 DEF HeldFits
    <3>2. Has(back, i, {"list"}) => Has(back', i, {"list"})
      BY <1>0, HasGrows
    <3>3. Has(asked, 0, {"list"}) => Has(asked', 0, {"list"}) \/ Has(back', i, {"list"})
      <4>1. Has(asked, 0, {"list"}) => r.op = "list" \/ Has(asked', 0, {"list"})
        BY HasAfterHead
      <4>2. r.op = "list" => Has(back', i, {"list"})
        BY <1>0, <1>5, HasNew DEF Refreshers
      <4> QED BY <4>1, <4>2
    <3>4. r.op # "firstget"
      <4>1. Has(back, 0, {"firstget"})
        BY <2>2, BackIs DEF Has
      <4> QED BY <1>0, <2>0, <4>1 DEF HeldFits
    <3> QED BY <1>8, <1>9, <3>1, <3>2, <3>3, <3>4
  <2>3. ASSUME NEW i \in DOMAIN back', i \notin DOMAIN back, back'[i].op = "firstget"
        PROVE  /\ back'[i].ok
               /\ Agrees(first)' \/ Relisted(0)' \/ Has(asked', 0, {"list"})
               /\ ~Has(back', i, {"firstget"})
    <3>1. r.op = "firstget"
      BY <2>3
    <3>2. back'[i].ok
      BY <2>3 DEF NewAreFresh, Fresh
    <3>3. Agrees(first) \/ Relisted(0) \/ Has(asked, 1, {"list"})
      BY <1>0, <2>0, <3>1 DEF HeldFits
    <3>4. Has(asked, 1, {"list"}) => Has(asked', 0, {"list"})
      BY <1>0, HasDrops
    <3>5. \A j \in DOMAIN back' : j \in DOMAIN back \/ j = i
      BY <1>5, <2>3, <3>1 DEF Refreshers
    <3>6. \A j \in DOMAIN back' : ~(i < j)
      <4> SUFFICES ASSUME NEW j \in DOMAIN back', i < j PROVE FALSE
        OBVIOUS
      <4>1. i \in Nat /\ j \in Nat /\ (j = i \/ j < i)
        BY <1>0, <2>3, <3>5 DEF Extends
      <4> QED BY <4>1
    <3> QED BY <1>8, <3>2, <3>3, <3>4, <3>6 DEF Has
  <2>4. ASSUME NEW i \in DOMAIN back', back'[i].op = "firstget"
        PROVE  /\ back'[i].ok
               /\ Agrees(first)' \/ Relisted(0)' \/ Has(asked', 0, {"list"}) \/ Has(back', i, {"list"})
               /\ ~Has(back', i, {"firstget"})
    <3>1. i \in DOMAIN back => back'[i] = back[i]
      BY <1>0 DEF Extends
    <3> QED BY <2>2, <2>3, <2>4, <3>1
  <2> QED BY <2>1, <2>4 DEF HeldFits, Agrees, Relisted
<1>11. OpeningFits'
  <2>0. OpeningFits
    BY DEF ShowInv
  <2>1. ASSUME NEW i \in DOMAIN asked' PROVE asked'[i].op # "first"
    BY <1>3, <2>0 DEF OpeningFits
  <2>2. ASSUME NEW i \in DOMAIN asked', asked'[i].op = "firstget"
        PROVE  /\ deleting' = {} /\ records'[asked'[i].of].status # "none"
               /\ \A j \in DOMAIN asked' : j < i => asked'[j].op # "delete"
    <3>1. PICK p \in DOMAIN asked : /\ p = i + 1 /\ 1 < p /\ i \in Nat /\ asked'[i] = asked[p]
                                    /\ asked[p].op = "firstget" /\ asked[p].of \in Sessions
      BY <1>3, <2>2, AskedIs DEF ThreadOps
    <3>2. /\ deleting = {} /\ IsThere(asked[p].of)
          /\ \A j \in DOMAIN asked : j < p => asked[j].op # "delete"
      BY <2>0, <3>1 DEF OpeningFits
    <3>3. r.op # "delete"
      BY <1>0, <3>1, <3>2
    <3>4. ASSUME NEW j \in DOMAIN asked', j < i PROVE asked'[j].op # "delete"
      <4>1. j + 1 \in DOMAIN asked /\ asked'[j] = asked[j + 1] /\ j + 1 < p
        BY <1>3, <3>1, <3>4
      <4> QED BY <3>2, <4>1
    <3> QED BY <3>1, <3>2, <3>3, <3>4 DEF IsThere
  <2>3. ASSUME Has(asked, 0, {"first"}) \/ Has(back, 0, {"first"})
        PROVE  r.op \in {"first", "list", "create"}
    BY <1>0, <2>0, <2>3 DEF OpeningFits
  <2>4. ASSUME NEW i \in DOMAIN back', back'[i].op = "first"
        PROVE  \A j \in DOMAIN back' : /\ j < i => back'[j].op = "event"
                                       /\ back'[j].op \in {"event", "first", "list", "create"}
    <3>1. CASE i \in DOMAIN back
      <4>1. back'[i] = back[i] /\ back[i].op = "first" /\ i \in Nat /\ 0 < i
        BY <1>0, <2>4, <3>1, BackIs DEF Extends
      <4>2. r.op \in {"first", "list", "create"}
        BY <2>3, <3>1, <4>1 DEF Has
      <4>3. ASSUME NEW j \in DOMAIN back', j < i PROVE j \in DOMAIN back
        BY <1>0, <3>1, <4>1, <4>3 DEF Extends
      <4> QED BY <1>0, <2>0, <3>1, <4>1, <4>2, <4>3 DEF OpeningFits, Extends
    <3>2. CASE i \notin DOMAIN back
      <4>1. r.op = "first"
        BY <2>4, <3>2
      <4>2. \A j \in DOMAIN back : back[j].op = "event"
        BY <1>0, <2>0, <4>1 DEF OpeningFits
      <4>3. \A j \in DOMAIN back' : j \in DOMAIN back \/ j = i
        BY <1>5, <3>2, <4>1 DEF Refreshers
      <4>4. ~(i < i)
        BY <1>0 DEF Extends
      <4> QED BY <1>0, <2>4, <4>2, <4>3, <4>4 DEF Extends
    <3> QED BY <3>1, <3>2
  <2>5. ASSUME Has(asked', 0, {"first"}) \/ Has(back', 0, {"first"})
        PROVE  /\ Unopened' /\ deleting' = {}
               /\ viewing' \in Sessions => records'[viewing'].status # "none"
               /\ \A j \in DOMAIN asked' : asked'[j].op \in {"first", "list", "create"}
    <3>1. Has(asked, 0, {"first"}) \/ Has(back, 0, {"first"})
      <4>1. ASSUME NEW j \in DOMAIN back', back'[j].op = "first"
            PROVE  r.op = "first" \/ (j \in DOMAIN back /\ back[j].op = "first")
        BY <1>0, <4>1 DEF Extends
      <4>2. r.op = "first" => Has(asked, 0, {"first"})
        BY <1>0 DEF Has
      <4> QED BY <1>0, <2>1, <2>5, <4>1, <4>2 DEF Has
    <3>2. /\ Unopened /\ deleting = {}
          /\ viewing \in Sessions => IsThere(viewing)
          /\ \A j \in DOMAIN asked : asked[j].op \in {"first", "list", "create"}
      BY <2>0, <3>1 DEF OpeningFits
    <3>3. r.op # "delete"
      BY <2>3, <3>1
    <3>4. Unopened'
      BY <1>0, <3>2 DEF Unopened
    <3>5. \A j \in DOMAIN asked' : asked'[j].op \in {"first", "list", "create"}
      BY <1>3, <3>2
    <3> QED BY <1>0, <3>2, <3>3, <3>4, <3>5 DEF IsThere
  <2> QED BY <2>1, <2>2, <2>4, <2>5 DEF OpeningFits, IsThere
<1> QED BY <1>1, <1>2, <1>4, <1>6, <1>7, <1>10, <1>11 DEF ShowInv

\* The parts of an event are those it was made of.
LEMMA EventIs ==
    \A t, listed : /\ Event(t, listed).op = "event" /\ Event(t, listed).of = t
                   /\ Event(t, listed).listed = listed
  BY DEF Event

\* A Thread that is there was born.
LEMMA ThereIsBorn ==
    ASSUME ViewIInv, NEW t \in Sessions, IsThere(t)
    PROVE  Born(t)
  BY DEF ViewIInv, DaemonFits, Born

\* A request that is refused or only reads is answered, and nothing changes.
LEMMA AnsweringKeeps ==
    ASSUME ViewIInv, ShowInv, UNCHANGED <<window, uploads, daemonState>>,
           Drops(asked, asked'), NEW r, r = asked[1], NEW a, Fresh(a),
           a.op = r.op, a.of = r.of, r.op # "delete", back' = Append(back, a)
    PROVE  ShowInv'
<1>1. asked \in Seq(Asks) /\ back \in Seq(Tells)
  BY DEF ViewIInv, WiresFit
<1>2. /\ Extends(back, back')
      /\ \A k \in DOMAIN back' : k \in DOMAIN back \/ back'[k] = a
      /\ \E k \in DOMAIN back' : k \notin DOMAIN back /\ back'[k] = a
  BY <1>1, AppendExtends
<1>3. Told
  BY <1>2 DEF Told, daemonState, Born, IsThere, IsPending
<1>4. Fresh(a)'
  BY DEF Fresh, daemonState, Born, IsThere, IsPending, RowsBorn, Agrees
<1>5. NewAreFresh
  BY <1>2, <1>4 DEF NewAreFresh
<1>6. r.op \in Readers => HasOf(back', 0, Readers, r.of)
  <2> SUFFICES ASSUME a.op \in Readers PROVE HasOf(back', 0, Readers, a.of)
    OBVIOUS
  <2>1. PICK k \in DOMAIN back' : k \notin DOMAIN back /\ back'[k] = a
    BY <1>2
  <2>2. HasOf(back', 0, Readers, back'[k].of)
    BY <1>2, <2>1, HasNew
  <2> QED BY <2>1, <2>2
<1>7. deleting' = deleting /\ \A t \in Sessions : IsThere(t) => IsThere(t)'
  BY DEF daemonState, IsThere
<1> QED BY <1>2, <1>3, <1>5, <1>6, <1>7, ServingKeeps

\* The head of what is asked, and the Threads it may be about.
LEMMA ServedIs ==
    ASSUME ViewIInv, ShowInv, Serve
    PROVE  /\ Drops(asked, asked') /\ UNCHANGED <<window, uploads>>
           /\ \E r \in Asks :
                 /\ r = asked[1]
                 /\ Refuse(r) \/ Tell(r) \/ Change(r) \/ Bear(r) \/ BeginDelete(r)
                 /\ r.op \in Readers => r.of \in Sessions /\ Born(r.of)
                 /\ r.op \in ThreadOps => r.of \in Sessions
                 /\ r.op = "firstget" => IsThere(r.of)
<1>1. asked \in Seq(Asks) /\ asked # <<>> /\ asked' = Tail(asked)
  BY DEF ViewIInv, WiresFit, Serve
<1>2. Drops(asked, asked') /\ Head(asked) = asked[1]
  BY <1>1, TailDrops
<1>3. 1 \in DOMAIN asked
  BY <1>2 DEF Drops
<1>4. PICK r : r = asked[1]
  OBVIOUS
<1>5. /\ r \in Asks
      /\ r.op \in Readers => r.of \in Sessions /\ Born(r.of)
      /\ r.op \in ThreadOps => r.of \in Sessions
      /\ r.op = "firstget" => IsThere(r.of)
  BY <1>3, <1>4, AskedIs DEF ShowInv, BornAsked, OpeningFits
<1>6. Refuse(r) \/ Tell(r) \/ Change(r) \/ Bear(r) \/ BeginDelete(r)
  BY <1>2, <1>4 DEF Serve
<1> QED BY <1>2, <1>4, <1>5, <1>6 DEF Serve, gateway

\* Two more at the end.
LEMMA PairExtends ==
    ASSUME NEW S, NEW q \in Seq(S), NEW e, NEW a, NEW q2, q2 = Joined(q, Pair(e, a))
    PROVE  /\ Extends(q, q2)
           /\ \A k \in DOMAIN q2 : k \in DOMAIN q \/ q2[k] = e \/ q2[k] = a
           /\ \E k \in DOMAIN q2 : k \notin DOMAIN q /\ q2[k] = e
           /\ \E k \in DOMAIN q2 : k \notin DOMAIN q /\ q2[k] = a
<1>1. PICK T : T = S \cup {e, a}
  OBVIOUS
<1>2. PICK p : p = Pair(e, a)
  OBVIOUS
<1>3. q \in Seq(T) /\ p \in Seq(T)
  BY <1>1, <1>2 DEF Pair
<1>4. DOMAIN p = {1, 2} /\ p[1] = e /\ p[2] = a
  BY <1>2 DEF Pair
<1>5. /\ Extends(q, q2)
      /\ \A k \in DOMAIN q2 : k \in DOMAIN q \/ \E i \in DOMAIN p : q2[k] = p[i]
      /\ \A i \in DOMAIN p : \E k \in DOMAIN q2 : k \notin DOMAIN q /\ q2[k] = p[i]
  BY <1>2, <1>3, ConcatExtends
<1> QED BY <1>4, <1>5

\* A change of one Thread is told by an event and then answered.
LEMMA PairKeeps ==
    ASSUME ViewIInv, ShowInv, Drops(asked, asked'), UNCHANGED <<window, uploads, deleting>>,
           NEW r, r = asked[1], r.op \notin Refreshers \cup {"delete"},
           NEW t \in Sessions, NEW e, NEW a,
           back' = Joined(back, Pair(e, a)),
           e.op = "event", e.of = t, a.op = r.op, Fresh(a)', r.op \in Readers => a.of = r.of,
           \A s \in Sessions : s # t => records'[s] = records[s],
           IsPending(t)' # IsPending(t) => e.listed,
           Born(t) /\ ~IsThere(t) => ~IsThere(t)',
           IsThere(t) => IsThere(t)',
           \A s \in Sessions : Born(s) => Born(s)'
    PROVE  ShowInv'
<1>2. /\ Extends(back, back')
      /\ \A k \in DOMAIN back' : k \in DOMAIN back \/ back'[k] = e \/ back'[k] = a
      /\ \E k \in DOMAIN back' : k \notin DOMAIN back /\ back'[k] = e
      /\ \E k \in DOMAIN back' : k \notin DOMAIN back /\ back'[k] = a
  <2>1. back \in Seq(Tells)
    BY DEF ViewIInv, WiresFit
  <2> QED BY <2>1, PairExtends
<1>3. \A s \in Sessions : s # t => /\ IsThere(s)' = IsThere(s)
                                   /\ IsPending(s)' = IsPending(s)
  BY DEF IsThere, IsPending
<1>4. Told
  <2>1. ASSUME NEW s \in Sessions, Born(s), ~IsThere(s) PROVE ~IsThere(s)'
    BY <1>3, <2>1
  <2>2. ASSUME NEW s \in Sessions, records'[s] # records[s] PROVE s = t
    BY <2>2
  <2>3. ASSUME NEW s \in Sessions, IsPending(s)' # IsPending(s) PROVE e.listed
    BY <1>3, <2>3
  <2> QED BY <1>2, <2>1, <2>2, <2>3 DEF Told
<1>5. Fresh(e)'
  BY DEF Fresh, Readers, Guesses, Tale, ThreadOps, Listers
<1>6. NewAreFresh
  BY <1>2, <1>5 DEF NewAreFresh
<1>7. r.op \in Readers => HasOf(back', 0, Readers, r.of)
  <2> SUFFICES ASSUME a.op \in Readers PROVE HasOf(back', 0, Readers, a.of)
    OBVIOUS
  <2>1. PICK k \in DOMAIN back' : k \notin DOMAIN back /\ back'[k] = a
    BY <1>2
  <2>2. HasOf(back', 0, Readers, back'[k].of)
    BY <1>2, <2>1, HasNew
  <2> QED BY <2>1, <2>2
<1>8. \A k \in DOMAIN back' : k \in DOMAIN back \/ back'[k].op = "event" \/ back'[k].op = r.op
  BY <1>2
<1>9. \A s \in Sessions : IsThere(s) => IsThere(s)'
  BY <1>3
<1> QED BY <1>4, <1>6, <1>7, <1>8, <1>9, ServingKeeps

\* A Thread that changes is told and answered.
LEMMA ChangeKeepsShown ==
    ASSUME ViewIInv, ShowInv, Drops(asked, asked'), UNCHANGED <<window, uploads>>,
           NEW r \in Asks, r = asked[1], Change(r), NEW t \in Sessions, t = r.of
    PROVE  ShowInv'
<1>1. records \in [Sessions -> Copy]
  BY DEF ViewIInv, DaemonFits, OwnRows
<1>2. /\ r.op \in Changes /\ IsPending(t) /\ IsThere(t) /\ Born(t)
      /\ records' = [records EXCEPT ![t] = Updated(r)]
      /\ back' = back \o <<Event(t, r.op = "send"), Answer(r, TRUE, records'[t])>>
      /\ UNCHANGED <<deleting, kin>>
  BY ThereIsBorn DEF Change, Accepts, IsPending, IsThere
<1>3. /\ records'[t] = Updated(r)
      /\ \A s \in Sessions : s # t => records'[s] = records[s]
  BY <1>1, <1>2
<1>4. /\ Updated(r).status \in {"pending", "resolved"}
      /\ r.op # "send" => Updated(r).status = "pending"
  <2>1. records[t] \in Copy /\ records[t].status = "pending"
    BY <1>1, <1>2 DEF IsPending
  <2> QED BY <1>2, <2>1 DEF Updated, Changes, Copy
<1>5. PICK c : c = records'[t]
  OBVIOUS
<1>6. PICK a : a = Answer(r, TRUE, c)
  OBVIOUS
<1>7. a.op = r.op /\ a.of = t /\ a.ok = TRUE /\ a.copy = c
  BY <1>6 DEF Answer
<1>8. PICK e : e = Event(t, r.op = "send")
  OBVIOUS
<1>9. e.op = "event" /\ e.of = t /\ e.listed = (r.op = "send")
  BY <1>8, EventIs
<1>10. back' = Joined(back, Pair(e, a))
  BY <1>2, <1>5, <1>6, <1>8 DEF Joined, Pair
<1>11. IsThere(t)' /\ Born(t)' /\ \A s \in Sessions : Born(s) => Born(s)'
  BY <1>2, <1>3, <1>4 DEF IsThere, Born
<1>12. IsPending(t)' # IsPending(t) => e.listed
  BY <1>2, <1>3, <1>4, <1>9 DEF IsPending
<1>13. r.op \notin Refreshers \cup {"delete", "list", "first", "get", "firstget"}
  BY <1>2 DEF Changes, Refreshers
<1>14. Fresh(a)'
  BY <1>5, <1>7, <1>11, <1>13 DEF Fresh, Listers
<1>15. UNCHANGED <<window, uploads, deleting>>
  BY <1>2
<1>16. r.op \notin Refreshers \cup {"delete"} /\ (r.op \in Readers => a.of = r.of)
  BY <1>7, <1>13
<1>17. Born(t) /\ ~IsThere(t) => ~IsThere(t)'
  BY <1>2
<1> QED BY <1>3, <1>7, <1>9, <1>10, <1>11, <1>12, <1>14, <1>15, <1>16, <1>17, PairKeeps

\* A new Thread is told likewise.
LEMMA BearKeepsShown ==
    ASSUME ViewIInv, ShowInv, Drops(asked, asked'), UNCHANGED <<window, uploads>>,
           NEW r \in Asks, r = asked[1], Bear(r)
    PROVE  ShowInv'
<1>1. records \in [Sessions -> Copy] /\ kin \in [Sessions -> SUBSET Sessions]
  BY DEF ViewIInv, DaemonFits, OwnRows
<1>2. PICK t, c, k :
        /\ t \in Unused
        /\ records' = [records EXCEPT ![t] = [Pending EXCEPT !.notes = c]]
        /\ back' = back \o <<Event(t, TRUE), [Answer(r, TRUE, records'[t]) EXCEPT !.of = t]>>
        /\ kin' = [kin EXCEPT ![t] = {t} \cup k]
  <2>1. PICK t \in Unused :
          LET copied == IF r.op = "fork" THEN records[r.of].notes ELSE {}
          IN  /\ records' = [records EXCEPT ![t] = [Pending EXCEPT !.notes = copied]]
              /\ back' = back \o <<Event(t, TRUE),
                                   [Answer(r, TRUE, records'[t]) EXCEPT !.of = t]>>
              /\ kin' = [kin EXCEPT ![t] = {t} \cup (IF r.op = "fork" THEN kin[r.of] ELSE {})]
    BY DEF Bear
  <2> QED BY <2>1
<1>3. t \in Sessions /\ ~Born(t)
  BY <1>2 DEF Unused, Born
<1>4. /\ records'[t].status = "pending" /\ kin'[t] # {}
      /\ \A s \in Sessions : s # t => records'[s] = records[s] /\ kin'[s] = kin[s]
  BY <1>1, <1>2, <1>3 DEF Pending, Blank
<1>5. ~IsThere(t) /\ ~IsPending(t)
  BY <1>3, ThereIsBorn DEF IsThere, IsPending
<1>6. PICK w : w = records'[t]
  OBVIOUS
<1>7. PICK a : a = [Answer(r, TRUE, w) EXCEPT !.of = t]
  OBVIOUS
<1>8. a.op = r.op /\ a.of = t /\ a.ok = TRUE /\ a.copy = w
  BY <1>7 DEF Answer
<1>9. PICK e : e = Event(t, TRUE)
  OBVIOUS
<1>10. e.op = "event" /\ e.of = t /\ e.listed = TRUE
  BY <1>9, EventIs
<1>11. back' = Joined(back, Pair(e, a))
  BY <1>2, <1>6, <1>7, <1>9 DEF Joined, Pair
<1>12. Born(t)' /\ \A s \in Sessions : Born(s) => Born(s)'
  BY <1>4 DEF Born
<1>13. r.op \in {"fork", "create"} /\ deleting' = deleting
  BY DEF Bear
<1>14. r.op \notin Refreshers \cup {"delete"} \cup Readers /\ r.op \notin Listers \cup {"get", "firstget"}
  BY <1>13 DEF Refreshers, Readers, Guesses, Listers
<1>15. Fresh(a)'
  BY <1>3, <1>6, <1>8, <1>12, <1>14 DEF Fresh
<1>16. UNCHANGED <<window, uploads, deleting>> /\ r.op \notin Refreshers \cup {"delete"}
  BY <1>13, <1>14
<1>17. r.op \in Readers => a.of = r.of
  BY <1>14
<1>18. Born(t) /\ ~IsThere(t) => ~IsThere(t)'
  BY <1>3
<1> QED BY <1>3, <1>4, <1>5, <1>8, <1>10, <1>11, <1>12, <1>15, <1>16, <1>17, <1>18, PairKeeps

\* Whatever the daemon serves, the window can still come right.
LEMMA ServeKeepsShown == ViewIInv /\ ShowInv /\ Serve => ShowInv'
<1> SUFFICES ASSUME ViewIInv, ShowInv, Serve PROVE ShowInv'
  OBVIOUS
<1>1. Drops(asked, asked') /\ UNCHANGED <<window, uploads>>
  BY ServedIs
<1>2. PICK r \in Asks :
        /\ r = asked[1]
        /\ Refuse(r) \/ Tell(r) \/ Change(r) \/ Bear(r) \/ BeginDelete(r)
        /\ r.op \in Readers => r.of \in Sessions /\ Born(r.of)
        /\ r.op \in ThreadOps => r.of \in Sessions
        /\ r.op = "firstget" => IsThere(r.of)
  BY ServedIs
<1>3. CASE Refuse(r)
  <2>1. PICK a : a = Answer(r, FALSE, Blank)
    OBVIOUS
  <2>2. a.op = r.op /\ a.of = r.of /\ a.ok = FALSE
    BY <2>1 DEF Answer
  <2>3. back' = Append(back, a) /\ UNCHANGED daemonState /\ ~Accepts(r)
    BY <1>3, <2>1 DEF Refuse
  <2>4. /\ r.op = "get" => ~IsThere(r.of)
        /\ r.op \in {"get", "fork"} \cup Changes
    BY <1>2, <2>3 DEF Accepts, Changes
  <2>5. Fresh(a)
    BY <1>2, <2>2, <2>4 DEF Fresh, Tale, Listers, Changes
  <2>6. r.op # "delete"
    BY <2>4 DEF Changes
  <2> QED BY <1>1, <1>2, <2>2, <2>3, <2>5, <2>6, AnsweringKeeps
<1>4. CASE Tell(r)
  <2>1. PICK c : c = IF r.op \in {"list", "first"} THEN Rows ELSE records[r.of]
    OBVIOUS
  <2>2. PICK a : a = Answer(r, TRUE, c)
    OBVIOUS
  <2>3. a.op = r.op /\ a.of = r.of /\ a.ok = TRUE /\ a.copy = c
    BY <2>2 DEF Answer
  <2>4. /\ back' = Append(back, a) /\ UNCHANGED daemonState
        /\ r.op \in {"list", "first", "get", "firstget"} /\ Accepts(r)
    BY <1>4, <2>1, <2>2 DEF Tell
  <2>5. r.op \in {"get", "firstget"} => r.of \in Sessions /\ IsThere(r.of) /\ Born(r.of)
    BY <1>2, <2>4, ThereIsBorn DEF Accepts, ThreadOps
  <2>6. RowsBorn(Rows) /\ Agrees(Rows)
    <3>1. \A t \in Sessions : Rows[t] = IF IsPending(t) THEN records[t] ELSE Blank
      BY DEF Rows
    <3>2. Blank.status = "none"
      BY DEF Blank
    <3> QED BY <3>1, <3>2, ThereIsBorn DEF RowsBorn, Agrees, IsPending, IsThere
  <2>7. Fresh(a)
    BY <2>1, <2>3, <2>4, <2>5, <2>6 DEF Fresh, Tale, ThreadOps, Readers, Guesses, Listers
  <2>8. r.op # "delete"
    BY <2>4
  <2> QED BY <1>1, <1>2, <2>3, <2>4, <2>7, <2>8, AnsweringKeeps
<1>5. CASE Change(r)
  <2>1. r.of \in Sessions
    BY <1>2, <1>5 DEF Change, Changes, ThreadOps
  <2> QED BY <1>1, <1>2, <1>5, <2>1, ChangeKeepsShown
<1>6. CASE Bear(r)
  BY <1>1, <1>2, <1>6, BearKeepsShown
<1>7. CASE BeginDelete(r)
  <2>1. back' = back /\ records' = records /\ kin' = kin /\ r.op = "delete" /\ back \in Seq(Tells)
    BY <1>7 DEF BeginDelete, ViewIInv, WiresFit
  <2>2. Told /\ NewAreFresh
    BY <2>1, SameExtends DEF Told, NewAreFresh, Born, IsThere, IsPending
  <2>3. r.op \notin Refreshers /\ r.op \notin Readers
    BY <2>1 DEF Refreshers, Readers, Guesses
  <2>4. \A t \in Sessions : IsThere(t) => IsThere(t)'
    BY <2>1 DEF IsThere
  <2> QED BY <1>1, <1>2, <2>1, <2>2, <2>3, <2>4, ServingKeeps
<1> QED BY <1>2, <1>3, <1>4, <1>5, <1>6, <1>7

-----------------------------------------------------------------------------
(* The window takes what arrives.                                          *)

\* What arrives is the head of what is on its way.
LEMMA Arrived ==
    ASSUME ViewIInv, NEW ops, Arrives(ops)
    PROVE  \E h \in Tells : /\ h = back[1] /\ h = Head(back) /\ h.op \in ops
                            /\ 1 \in DOMAIN back /\ Drops(back, back')
<1>1. back \in Seq(Tells) /\ back # <<>> /\ back' = Tail(back) /\ Head(back).op \in ops
  BY DEF ViewIInv, WiresFit, Arrives
<1>2. Drops(back, back') /\ Head(back) = back[1]
  BY <1>1, TailDrops
<1>3. 1 \in DOMAIN back
  BY <1>2 DEF Drops
<1> QED BY <1>1, <1>2, <1>3

\* What stays on its way is as true as it was.
LEMMA ShiftKeeps ==
    ASSUME ViewIInv, ShowInv, UNCHANGED <<records, kin>>, Drops(back, back')
    PROVE  BornTold' /\ CopiesFit' /\ ListsFit'
<1>1. ASSUME NEW i \in DOMAIN back'
      PROVE  \E p \in DOMAIN back : p - 1 = i /\ back'[i] = back[p]
  <2>1. i \in Nat /\ i + 1 \in DOMAIN back /\ back'[i] = back[i + 1] /\ (i + 1) - 1 = i
    BY DEF Drops
  <2> QED BY <2>1
<1>2. BornTold'
  <2> SUFFICES ASSUME NEW i \in DOMAIN back'
               PROVE  /\ back'[i].op \in Readers => kin'[back'[i].of] # {}
                      /\ back'[i].op \in Listers =>
                             \A t \in Sessions : back'[i].copy[t].status # "none" => kin'[t] # {}
    BY DEF BornTold, Born, RowsBorn
  <2> QED BY <1>1 DEF ShowInv, BornTold, Born, RowsBorn
<1>3. CopiesFit'
  <2> SUFFICES ASSUME NEW i \in DOMAIN back'
               PROVE  \E a : /\ a = back'[i]
                             /\ Tale(a) => kin'[a.of] # {}
                             /\ Tale(a) /\ IsThere(a.of)' =>
                                    a.copy = records'[a.of] \/ Changed(a.of, i)'
                             /\ a.op = "get" /\ ~a.ok => ~IsThere(a.of)'
                             /\ a.op = "create" => a.ok
    BY DEF CopiesFit, Born, Tale, IsThere, Changed
  <2>1. PICK p \in DOMAIN back : p - 1 = i /\ back'[i] = back[p]
    BY <1>1
  <2>2. PICK a : a = back[p]
    OBVIOUS
  <2>3. /\ Tale(a) => Born(a.of)
        /\ Tale(a) /\ IsThere(a.of) => a.copy = records[a.of] \/ Changed(a.of, p)
        /\ a.op = "get" /\ ~a.ok => ~IsThere(a.of)
        /\ a.op = "create" => a.ok
    BY <2>2 DEF ShowInv, CopiesFit
  <2>4. Changed(a.of, p) => Changed(a.of, i)'
    BY <2>1, HasDrops DEF Changed
  <2> QED BY <2>1, <2>2, <2>3, <2>4 DEF Born, IsThere
<1>4. ListsFit'
  <2> SUFFICES ASSUME NEW i \in DOMAIN back'
               PROVE  \E a : /\ a = back'[i]
                             /\ a.op \in Listers => Agrees(a.copy)' \/ Relisted(i)'
    BY DEF ListsFit, Agrees, Relisted
  <2>1. PICK p \in DOMAIN back : p - 1 = i /\ back'[i] = back[p]
    BY <1>1
  <2>2. PICK a : a = back[p]
    OBVIOUS
  <2>3. a.op \in Listers => Agrees(a.copy) \/ Relisted(p)
    BY <2>2 DEF ShowInv, ListsFit
  <2>4. Relisted(p) => Relisted(i)'
    BY <2>1, HasDrops DEF Relisted
  <2> QED BY <2>1, <2>2, <2>3, <2>4 DEF Agrees, IsPending
<1> QED BY <1>2, <1>3, <1>4

\* What is asked is asked of Threads that were born.
LEMMA AskedStays ==
    ASSUME ViewIInv, ShowInv, kin' = kin, Extends(asked, asked'),
           \A k \in DOMAIN asked' : k \notin DOMAIN asked =>
               (asked'[k].op \in Readers => Born(asked'[k].of))
    PROVE  BornAsked'
  BY DEF ShowInv, BornAsked, Born, Extends

\* A sidebar left as it is stays as good as it was, if what called for a new
\* list and was read is asked for.
LEMMA InboxAfter ==
    ASSUME ShowInv, records' = records, inbox' = inbox, Drops(back, back'),
           Extends(asked, asked'), NEW h, h = back[1],
           h.op \in Refreshers \/ (h.op = "event" /\ h.listed) => Has(asked', 0, Refreshers)
    PROVE  InboxFits'
<1>1. CASE Agrees(inbox)
  BY <1>1 DEF InboxFits, Agrees, IsPending
<1>2. CASE Relisted(0)
  BY <1>2, HasAfterHead DEF InboxFits, Relisted
<1>3. CASE Has(asked, 0, Refreshers)
  BY <1>3, HasGrows DEF InboxFits
<1>4. CASE Has(back, 0, Refreshers)
  BY <1>4, HasAfterHead DEF InboxFits
<1> QED BY <1>1, <1>2, <1>3, <1>4 DEF ShowInv, InboxFits

\* A list that has come fits, or a listed event follows it.
LEMMA ListHasCome ==
    ASSUME ShowInv, records' = records, Drops(back, back'),
           1 \in DOMAIN back, NEW h, h = back[1], h.op \in Listers
    PROVE  Agrees(h.copy)' \/ Relisted(0)'
<1>1. Agrees(h.copy) \/ Relisted(1)
  BY DEF ShowInv, ListsFit
<1>2. Relisted(1) => Relisted(0)'
  BY HasDrops DEF Relisted
<1> QED BY <1>1, <1>2 DEF Agrees, IsPending

\* A copy that has come is the daemon's record, or an event follows it.
LEMMA CopyHasCome ==
    ASSUME ShowInv, UNCHANGED <<records, kin>>, Drops(back, back'),
           1 \in DOMAIN back, NEW h, h = back[1], Tale(h)
    PROVE  /\ kin'[h.of] # {}
           /\ records'[h.of].status # "none" =>
                  h.copy = records'[h.of] \/ HasOf(back', 0, Readers \cup {"event"}, h.of)
<1>1. Born(h.of) /\ (IsThere(h.of) => h.copy = records[h.of] \/ Changed(h.of, 1))
  BY DEF ShowInv, CopiesFit
<1>2. Changed(h.of, 1) => HasOf(back', 0, {"event"}, h.of)
  BY HasDrops DEF Changed
<1>3. HasOf(back', 0, {"event"}, h.of) => HasOf(back', 0, Readers \cup {"event"}, h.of)
  BY DEF HasOf
<1> QED BY <1>1, <1>2, <1>3 DEF Born, IsThere

\* The list held stays as good as it was.
LEMMA HeldAfter ==
    ASSUME ViewIInv, ShowInv, records' = records, first' = first, Drops(back, back'),
           Extends(asked, asked'), NEW h, h = back[1], h.op \notin {"first", "firstget"},
           \A k \in DOMAIN asked' : k \notin DOMAIN asked => asked'[k].op # "firstget",
           h.op = "event" /\ h.listed =>
               \E k \in DOMAIN asked' : k \notin DOMAIN asked /\ asked'[k].op = "list"
    PROVE  HeldFits'
<1>1. ASSUME NEW i, i = 0 \/ i \in DOMAIN asked, Agrees(first) \/ Relisted(0)
      PROVE  Agrees(first)' \/ Relisted(0)' \/ Has(asked', i, {"list"})
  <2>1. Relisted(0) => (h.op = "event" /\ h.listed) \/ Relisted(0)'
    BY HasAfterHead DEF Relisted
  <2>2. h.op = "event" /\ h.listed => Has(asked', i, {"list"})
    BY <1>1, HasNew
  <2> QED BY <1>1, <2>1, <2>2 DEF Agrees, IsPending
<1>2. ~Has(back, 0, {"firstget"}) => ~Has(back', 0, {"firstget"})
  BY DEF Has, Drops
<1>3. ASSUME NEW i, ~Has(asked, i, {"firstget"})
      PROVE  ~Has(asked', i, {"firstget"})
  BY <1>3 DEF Has, Extends
<1>4. ASSUME NEW i \in DOMAIN asked', asked'[i].op = "firstget"
      PROVE  /\ Agrees(first)' \/ Relisted(0)' \/ Has(asked', i, {"list"})
             /\ ~Has(asked', i, {"firstget"}) /\ ~Has(back', 0, {"firstget"})
  <2>1. i \in DOMAIN asked /\ asked[i].op = "firstget"
    BY <1>4 DEF Extends
  <2>2. /\ Agrees(first) \/ Relisted(0) \/ Has(asked, i, {"list"})
        /\ ~Has(asked, i, {"firstget"}) /\ ~Has(back, 0, {"firstget"})
    BY <2>1 DEF ShowInv, HeldFits
  <2>3. Has(asked, i, {"list"}) => Has(asked', i, {"list"})
    BY HasGrows
  <2> QED BY <1>1, <1>2, <1>3, <2>1, <2>2, <2>3
<1>5. ASSUME NEW i \in DOMAIN back', back'[i].op = "firstget"
      PROVE  /\ back'[i].ok
             /\ Agrees(first)' \/ Relisted(0)' \/ Has(asked', 0, {"list"}) \/ Has(back', i, {"list"})
             /\ ~Has(back', i, {"firstget"})
  <2>1. PICK p \in DOMAIN back : /\ i \in Nat /\ p = i + 1 /\ p - 1 = i
                                 /\ back'[i] = back[p] /\ back[p].op = "firstget"
    <3>1. i \in Nat /\ i + 1 \in DOMAIN back /\ back'[i] = back[i + 1] /\ (i + 1) - 1 = i
      BY DEF Drops
    <3> QED BY <1>5, <3>1
  <2>2. /\ back[p].ok
        /\ Agrees(first) \/ Relisted(0) \/ Has(asked, 0, {"list"}) \/ Has(back, p, {"list"})
        /\ ~Has(back, p, {"firstget"})
    BY <2>1 DEF ShowInv, HeldFits
  <2>3. Has(asked, 0, {"list"}) => Has(asked', 0, {"list"})
    BY HasGrows
  <2>4. Has(back, p, {"list"}) => Has(back', i, {"list"})
    BY <2>1, HasDrops
  <2>5. ~Has(back', i, {"firstget"})
    BY <2>1, <2>2, HasLifts
  <2> QED BY <1>1, <2>1, <2>2, <2>3, <2>4, <2>5
<1> QED BY <1>4, <1>5 DEF HeldFits, Agrees, Relisted

\* Nothing but an event arrives ahead of the first list.
LEMMA EventsFirst ==
    ASSUME ShowInv, Drops(back, back'), NEW h, h = back[1],
           Has(asked, 0, {"first"}) \/ Has(back', 0, {"first"})
    PROVE  /\ h.op = "event" /\ Unopened /\ deleting = {}
           /\ viewing \in Sessions => IsThere(viewing)
           /\ \A j \in DOMAIN asked : asked[j].op \in {"first", "list", "create"}
<1>0. OpeningFits /\ 1 \in DOMAIN back
  BY DEF ShowInv, Drops
<1>1. CASE Has(asked, 0, {"first"})
  BY <1>0, <1>1 DEF OpeningFits, Has
<1>2. CASE Has(back', 0, {"first"})
  <2>1. PICK k \in DOMAIN back' : back'[k].op = "first"
    BY <1>2 DEF Has
  <2>2. k + 1 \in DOMAIN back /\ back[k + 1].op = "first" /\ 1 < k + 1 /\ 0 < k + 1
    BY <2>1 DEF Drops
  <2>3. h.op = "event"
    BY <1>0, <2>2 DEF OpeningFits
  <2>4. Has(back, 0, {"first"})
    BY <2>2 DEF Has
  <2> QED BY <1>0, <2>3, <2>4 DEF OpeningFits
<1> QED BY <1>1, <1>2

\* The opening goes on as it should.
LEMMA OpeningAfter ==
    ASSUME ViewIInv, ShowInv, UNCHANGED <<records, deleting>>, Drops(back, back'),
           Extends(asked, asked'), NEW h, h = back[1],
           \A k \in DOMAIN asked' : k \notin DOMAIN asked =>
               /\ asked'[k].op \notin {"first", "delete"}
               /\ asked'[k].op = "firstget" =>
                      h.op = "first" /\ viewing \in Sessions /\ asked'[k].of = viewing
               /\ h.op = "event" /\ Unopened => asked'[k].op \in {"list", "create"},
           h.op = "event" => UNCHANGED <<viewing, shown, inbox, uploads>>
    PROVE  OpeningFits'
<1>0. OpeningFits /\ 1 \in DOMAIN back
  BY DEF ShowInv, Drops
<1>1. ASSUME NEW i \in DOMAIN asked', asked'[i].op = "first"
      PROVE  i = 1 /\ \A j \in DOMAIN back' : back'[j].op = "event"
  <2>1. i \in DOMAIN asked /\ asked[i].op = "first"
    BY <1>1 DEF Extends
  <2>2. i = 1 /\ \A j \in DOMAIN back : back[j].op = "event"
    BY <1>0, <2>1 DEF OpeningFits
  <2> QED BY <2>2 DEF Drops
<1>2. ASSUME NEW i \in DOMAIN asked', asked'[i].op = "firstget"
      PROVE  /\ deleting = {} /\ records[asked'[i].of].status # "none"
             /\ \A j \in DOMAIN asked' : j < i => asked'[j].op # "delete"
  <2>1. CASE i \in DOMAIN asked
    <3>1. asked'[i] = asked[i] /\ asked[i].op = "firstget" /\ i \in Nat
      BY <1>2, <2>1, AskedIs DEF Extends
    <3>2. /\ deleting = {} /\ IsThere(asked[i].of)
          /\ \A j \in DOMAIN asked : j < i => asked[j].op # "delete"
      BY <1>0, <2>1, <3>1 DEF OpeningFits
    <3>3. \A j \in DOMAIN asked' : j \in DOMAIN asked => asked'[j] = asked[j]
      BY DEF Extends
    <3> QED BY <3>1, <3>2, <3>3 DEF IsThere
  <2>2. CASE i \notin DOMAIN asked
    <3>1. h.op = "first" /\ viewing \in Sessions /\ asked'[i].of = viewing
      BY <1>2, <2>2
    <3>2. Has(back, 0, {"first"})
      BY <1>0, <3>1 DEF Has
    <3>3. /\ deleting = {} /\ IsThere(viewing)
          /\ \A j \in DOMAIN asked : asked[j].op \in {"first", "list", "create"}
      BY <1>0, <3>1, <3>2 DEF OpeningFits
    <3>4. \A j \in DOMAIN asked' : j \in DOMAIN asked => asked'[j] = asked[j]
      BY DEF Extends
    <3> QED BY <3>1, <3>3, <3>4 DEF IsThere
  <2> QED BY <2>1, <2>2
<1>3. ASSUME NEW i \in DOMAIN back', back'[i].op = "first"
      PROVE  \A j \in DOMAIN back' : /\ j < i => back'[j].op = "event"
                                     /\ back'[j].op \in {"event", "first", "list", "create"}
  <2>1. i \in Nat /\ i + 1 \in DOMAIN back /\ back[i + 1].op = "first"
    BY <1>3 DEF Drops
  <2>2. \A j \in DOMAIN back : /\ j < i + 1 => back[j].op = "event"
                               /\ back[j].op \in {"event", "first", "list", "create"}
    BY <1>0, <2>1 DEF OpeningFits
  <2> SUFFICES ASSUME NEW j \in DOMAIN back'
               PROVE  /\ j < i => back'[j].op = "event"
                      /\ back'[j].op \in {"event", "first", "list", "create"}
    OBVIOUS
  <2>3. j \in Nat /\ j + 1 \in DOMAIN back /\ back'[j] = back[j + 1] /\ (j < i => j + 1 < i + 1)
    BY <2>1 DEF Drops
  <2> QED BY <2>2, <2>3
<1>4. ASSUME Has(asked', 0, {"first"}) \/ Has(back', 0, {"first"})
      PROVE  /\ Unopened' /\ deleting' = {}
             /\ viewing' \in Sessions => records'[viewing'].status # "none"
             /\ \A j \in DOMAIN asked' : asked'[j].op \in {"first", "list", "create"}
  <2>1. Has(asked, 0, {"first"}) \/ Has(back', 0, {"first"})
    BY <1>4 DEF Has, Extends
  <2>2. /\ h.op = "event" /\ Unopened /\ deleting = {}
        /\ viewing \in Sessions => IsThere(viewing)
        /\ \A j \in DOMAIN asked : asked[j].op \in {"first", "list", "create"}
    BY <2>1, EventsFirst
  <2>3. \A j \in DOMAIN asked' : asked'[j].op \in {"first", "list", "create"}
    BY <2>2 DEF Extends
  <2>4. Unopened' /\ viewing' = viewing
    BY <2>2 DEF Unopened
  <2> QED BY <2>2, <2>3, <2>4 DEF IsThere
<1> QED BY <1>1, <1>2, <1>3, <1>4 DEF OpeningFits, IsThere

\* What is left on the screen stays as good as it was, if what called for a
\* new copy and was read is asked for.
LEMMA ViewAfter ==
    ASSUME ShowInv, records' = records, UNCHANGED <<viewing, shown, view>>,
           Drops(back, back'), Extends(asked, asked'), NEW h, h = back[1],
           h.op \in Readers \cup {"event"} /\ h.of = shown /\ viewing = shown
                /\ shown \in Sessions /\ IsThere(shown)
               => HasOf(asked', 0, Readers, shown)
    PROVE  ViewFits'
<1> SUFFICES ASSUME viewing = shown, shown \in Sessions, IsThere(shown)
             PROVE  \/ view = records[shown]
                    \/ HasOf(asked', 0, Readers, shown)
                    \/ HasOf(back', 0, Readers \cup {"event"}, shown)
  BY DEF ViewFits, IsThere
<1>1. HasOf(asked, 0, Readers, shown) => HasOf(asked', 0, Readers, shown)
  BY HasGrows
<1>2. HasOf(back, 0, Readers \cup {"event"}, shown) =>
          \/ h.op \in Readers \cup {"event"} /\ h.of = shown
          \/ HasOf(back', 0, Readers \cup {"event"}, shown)
  BY HasAfterHead
<1> QED BY <1>1, <1>2 DEF ShowInv, ViewFits

\* A window left as it is still shows Threads that were born.
LEMMA WindowAfter ==
    ASSUME ShowInv, kin' = kin, UNCHANGED <<shown, first, inbox>>
    PROVE  BornWindow'
  BY DEF ShowInv, BornWindow, Born, RowsBorn

\* An arrival that leaves the window as it is, and asks again for what it
\* called for.
LEMMA ArrivalKeeps ==
    ASSUME ViewIInv, ShowInv, UNCHANGED <<daemonState, window, uploads>>, Drops(back, back'),
           Extends(asked, asked'), NEW h, h = back[1], h.op \notin Refreshers,
           \A k \in DOMAIN asked' : k \notin DOMAIN asked =>
               /\ asked'[k].op \in {"get", "list"}
               /\ asked'[k].op = "get" => Born(asked'[k].of)
               /\ h.op = "event" /\ Unopened => asked'[k].op = "list",
           h.op = "event" /\ h.listed =>
               \E k \in DOMAIN asked' : k \notin DOMAIN asked /\ asked'[k].op = "list",
           h.op \in Readers \cup {"event"} /\ h.of = shown /\ shown \in Sessions =>
               \E k \in DOMAIN asked' : /\ k \notin DOMAIN asked
                                        /\ asked'[k].op = "get" /\ asked'[k].of = shown
    PROVE  ShowInv'
<1>0. UNCHANGED <<records, deleting, kin, first, viewing, shown, view, inbox>>
  BY DEF daemonState, window
<1>1. BornTold' /\ CopiesFit' /\ ListsFit'
  BY <1>0, ShiftKeeps
<1>2. BornWindow'
  BY <1>0, WindowAfter
<1>3. BornAsked'
  BY <1>0, AskedStays DEF Readers, Guesses
<1>4. InboxFits'
  <2>1. h.op = "event" /\ h.listed => Has(asked', 0, Refreshers)
    BY HasNew DEF Refreshers
  <2> QED BY <1>0, <2>1, InboxAfter
<1>5. HeldFits'
  BY <1>0, HeldAfter DEF Refreshers
<1>6. OpeningFits'
  BY <1>0, OpeningAfter
<1>7. ViewFits'
  <2>1. ASSUME h.op \in Readers \cup {"event"}, h.of = shown, shown \in Sessions
        PROVE  HasOf(asked', 0, Readers, shown)
    <3>1. PICK k \in DOMAIN asked' : /\ k \notin DOMAIN asked
                                     /\ asked'[k].op = "get" /\ asked'[k].of = shown
      BY <2>1
    <3>2. HasOf(asked', 0, Readers, asked'[k].of)
      BY <3>1, HasNew DEF Readers
    <3> QED BY <3>1, <3>2
  <2> QED BY <1>0, <2>1, ViewAfter
<1> QED BY <1>1, <1>2, <1>3, <1>4, <1>5, <1>6, <1>7 DEF ShowInv

\* Ends may be extended more than once.
LEMMA ExtendsTwice ==
    ASSUME NEW q, NEW q2, NEW q3, Extends(q, q2), Extends(q2, q3)
    PROVE  /\ Extends(q, q3)
           /\ \A k \in DOMAIN q2 : k \in DOMAIN q3 /\ q3[k] = q2[k]
  BY DEF Extends

\* A queue of one, and an empty one.
LEMMA OneOrNone ==
    ASSUME NEW S, NEW e \in S, NEW q
    PROVE  /\ q = <<e>> => q \in Seq(S) /\ DOMAIN q = {1} /\ q[1] = e
           /\ q = <<>> => q \in Seq(S) /\ DOMAIN q = {}
<1>1. ASSUME q = <<e>> PROVE q \in Seq(S) /\ DOMAIN q = {1} /\ q[1] = e
  BY <1>1
<1>2. ASSUME q = <<>> PROVE q \in Seq(S) /\ DOMAIN q = {}
  BY <1>2
<1> QED BY <1>1, <1>2

\* An event is answered by the reads it calls for.
LEMMA GetsEventKeepsShown == ViewIInv /\ ShowInv /\ GetsEvent => ShowInv'
<1> SUFFICES ASSUME ViewIInv, ShowInv, GetsEvent PROVE ShowInv'
  OBVIOUS
<1>1. PICK h \in Tells : /\ h = back[1] /\ h = Head(back) /\ h.op = "event"
                         /\ 1 \in DOMAIN back /\ Drops(back, back')
  BY Arrived DEF GetsEvent
<1>2. h.of \in Sessions
  BY <1>1, BackIs
<1>3. PICK g, l : g = Request("get", shown, {}, {}) /\ l = Request("list", NoSession, {}, {})
  OBVIOUS
<1>4. g.op = "get" /\ g.of = shown /\ l.op = "list"
  BY <1>3, RequestIs
<1>5. PICK reads, lists :
        /\ reads = IF h.of = shown THEN <<g>> ELSE <<>>
        /\ lists = IF h.listed THEN <<l>> ELSE <<>>
  OBVIOUS
<1>6. asked' = Joined(Joined(asked, reads), lists)
  BY <1>1, <1>3, <1>5 DEF GetsEvent, Joined
<1>7. PICK T : T = Asks \cup {g, l}
  OBVIOUS
<1>8. asked \in Seq(T) /\ reads \in Seq(T) /\ lists \in Seq(T)
  <2>1. asked \in Seq(T)
    BY <1>7 DEF ViewIInv, WiresFit
  <2>2. g \in T /\ l \in T
    BY <1>7
  <2> QED BY <1>5, <2>1, <2>2, OneOrNone
<1>9. /\ \A i \in DOMAIN reads : reads[i] = g /\ h.of = shown
      /\ h.of = shown => 1 \in DOMAIN reads /\ reads[1] = g
      /\ \A i \in DOMAIN lists : lists[i] = l
      /\ h.listed => 1 \in DOMAIN lists /\ lists[1] = l
  <2>1. g \in T /\ l \in T
    BY <1>7
  <2>2. /\ h.of = shown => DOMAIN reads = {1} /\ reads[1] = g
        /\ h.of # shown => DOMAIN reads = {}
    BY <1>5, <2>1, OneOrNone
  <2>3. /\ h.listed => DOMAIN lists = {1} /\ lists[1] = l
        /\ ~h.listed => DOMAIN lists = {}
    BY <1>5, <2>1, OneOrNone
  <2> QED BY <2>2, <2>3
<1>10. PICK mid \in Seq(T) : mid = Joined(asked, reads)
  BY <1>8, ConcatProperties DEF Joined
<1>11. /\ Extends(asked, mid)
       /\ \A k \in DOMAIN mid : k \in DOMAIN asked \/ \E i \in DOMAIN reads : mid[k] = reads[i]
       /\ \A i \in DOMAIN reads : \E k \in DOMAIN mid : k \notin DOMAIN asked /\ mid[k] = reads[i]
  BY <1>8, <1>10, ConcatExtends
<1>12. asked' = Joined(mid, lists)
  BY <1>6, <1>10
<1>13. /\ Extends(mid, asked')
       /\ \A k \in DOMAIN asked' : k \in DOMAIN mid \/ \E i \in DOMAIN lists : asked'[k] = lists[i]
       /\ \A i \in DOMAIN lists :
              \E k \in DOMAIN asked' : k \notin DOMAIN mid /\ asked'[k] = lists[i]
  BY <1>8, <1>12, ConcatExtends
<1>14. /\ Extends(asked, asked')
       /\ \A k \in DOMAIN mid : k \in DOMAIN asked' /\ asked'[k] = mid[k]
  BY <1>11, <1>13, ExtendsTwice
<1>15. ASSUME NEW k \in DOMAIN asked', k \notin DOMAIN asked
       PROVE  asked'[k] = l \/ (asked'[k] = g /\ h.of = shown)
  BY <1>9, <1>11, <1>13, <1>14, <1>15
<1>16. h.of = shown => shown \in Sessions /\ Born(shown) /\ ~Unopened
  BY <1>2, ControllerAssumption DEF ShowInv, BornWindow, Unopened
<1>17. \A k \in DOMAIN asked' : k \notin DOMAIN asked =>
           /\ asked'[k].op \in {"get", "list"}
           /\ asked'[k].op = "get" => Born(asked'[k].of)
           /\ h.op = "event" /\ Unopened => asked'[k].op = "list"
  BY <1>4, <1>15, <1>16
<1>18. h.listed => \E k \in DOMAIN asked' : k \notin DOMAIN asked /\ asked'[k].op = "list"
  <2>1. \A k : k \notin DOMAIN mid => k \notin DOMAIN asked
    BY <1>11 DEF Extends
  <2> QED BY <1>4, <1>9, <1>13, <2>1
<1>19. h.of = shown => \E k \in DOMAIN asked' : /\ k \notin DOMAIN asked
                                                /\ asked'[k].op = "get" /\ asked'[k].of = shown
  BY <1>4, <1>9, <1>11, <1>14
<1>20. UNCHANGED <<daemonState, window, uploads>>
  BY DEF GetsEvent, gateway
<1>21. h.op \notin Refreshers
  BY <1>1 DEF Refreshers
<1> QED BY <1>1, <1>14, <1>17, <1>18, <1>19, <1>20, <1>21, ArrivalKeeps

\* Arrivals after which nothing new is asked for, or the record of the
\* Thread whose guess was refused.
LEMMA AnsweredKeepsShown ==
    ASSUME ViewIInv, ShowInv, GetsRefused \/ GetsNothing
    PROVE  ShowInv'
<1>1. PICK h \in Tells :
        /\ h = back[1] /\ h = Head(back) /\ 1 \in DOMAIN back /\ Drops(back, back')
        /\ h.op \in Guesses \cup {"uncomment", "send", "fork", "share", "merge"}
        /\ h.op \in Guesses => GetsRefused
  <2>1. CASE GetsRefused
    BY <2>1, Arrived DEF GetsRefused
  <2>2. CASE GetsNothing
    <3>1. PICK h \in Tells : /\ h = back[1] /\ h = Head(back) /\ h.op \in {"share", "merge"}
                             /\ 1 \in DOMAIN back /\ Drops(back, back')
      BY <2>2, Arrived DEF GetsNothing
    <3>2. h.op \notin Guesses
      BY <3>1 DEF Guesses
    <3> QED BY <3>1, <3>2
  <2> QED BY <2>1, <2>2
<1>2. PICK r : r = Request("get", h.of, {}, {}) /\ r.op = "get" /\ r.of = h.of
  BY RequestIs
<1>3. \/ asked' = Append(asked, r) /\ h.op \in Guesses
      \/ asked' = asked /\ h.op \notin Guesses
  <2>1. CASE GetsRefused
    BY <1>1, <1>2, <2>1 DEF GetsRefused, AskForGet, Ask
  <2>2. CASE GetsNothing
    BY <1>1, <2>2, Arrived DEF GetsNothing, Guesses
  <2> QED BY <2>1, <2>2
<1>4. asked \in Seq(Asks)
  BY DEF ViewIInv, WiresFit
<1>5. /\ Extends(asked, asked')
      /\ \A k \in DOMAIN asked' : k \notin DOMAIN asked => asked'[k] = r /\ h.op \in Guesses
      /\ h.op \in Guesses => \E k \in DOMAIN asked' : k \notin DOMAIN asked /\ asked'[k] = r
  <2>1. CASE asked' = asked /\ h.op \notin Guesses
    BY <1>4, <2>1, SameExtends
  <2>2. CASE asked' = Append(asked, r) /\ h.op \in Guesses
    BY <1>4, <2>2, AppendExtends
  <2> QED BY <1>3, <2>1, <2>2
<1>6. h.op \in Guesses => Born(h.of)
  BY <1>1 DEF ShowInv, BornTold, Readers
<1>7. h.op \notin Refreshers /\ h.op # "event" /\ (h.op \in Readers => h.op \in Guesses)
  BY <1>1 DEF Refreshers, Readers, Guesses
<1>8. UNCHANGED <<daemonState, window, uploads>>
  BY DEF GetsRefused, GetsNothing, gateway
<1>9. \A k \in DOMAIN asked' : k \notin DOMAIN asked =>
           /\ asked'[k].op \in {"get", "list"}
           /\ asked'[k].op = "get" => Born(asked'[k].of)
           /\ h.op = "event" /\ Unopened => asked'[k].op = "list"
  BY <1>2, <1>5, <1>6, <1>7
<1>10. h.op \in Readers \cup {"event"} /\ h.of = shown /\ shown \in Sessions =>
           \E k \in DOMAIN asked' : /\ k \notin DOMAIN asked
                                    /\ asked'[k].op = "get" /\ asked'[k].of = shown
  BY <1>2, <1>5, <1>7
<1> QED BY <1>1, <1>5, <1>7, <1>8, <1>9, <1>10, ArrivalKeeps

\* A list arrives in the sidebar.
LEMMA ListedKeepsShown ==
    ASSUME ViewIInv, ShowInv, UNCHANGED <<daemonState, asked, first, viewing, shown, view>>,
           Drops(back, back'), 1 \in DOMAIN back, NEW h, h = back[1],
           h.op \in Listers, h.op = "first" => viewing = NoSession, inbox' = h.copy
    PROVE  ShowInv'
<1>0. /\ UNCHANGED <<records, deleting, kin>> /\ asked \in Seq(Asks)
      /\ h.op \notin Readers \cup {"event"}
  BY DEF daemonState, ViewIInv, WiresFit, Readers, Guesses, Listers
<1>1. Extends(asked, asked') /\ \A k \in DOMAIN asked' : k \in DOMAIN asked
  BY <1>0, SameExtends
<1>2. BornTold' /\ CopiesFit' /\ ListsFit'
  BY <1>0, ShiftKeeps
<1>3. BornWindow'
  BY <1>0 DEF ShowInv, BornWindow, BornTold, Born, RowsBorn
<1>4. BornAsked'
  BY <1>0, <1>1, AskedStays
<1>5. InboxFits'
  <2>1. Agrees(h.copy)' \/ Relisted(0)'
    BY <1>0, ListHasCome
  <2> QED BY <2>1 DEF InboxFits, Agrees
<1>6. HeldFits'
  <2>1. CASE h.op = "list"
    BY <1>0, <1>1, <2>1, HeldAfter
  <2>2. CASE h.op = "first"
    <3>1. OpeningFits /\ Has(back, 0, {"first"})
      BY <2>2 DEF ShowInv, Has
    <3>2. \A i \in DOMAIN asked : asked[i].op \in {"first", "list", "create"}
      BY <3>1 DEF OpeningFits
    <3>3. \A i \in DOMAIN back : back[i].op \in {"event", "first", "list", "create"}
      BY <2>2, <3>1 DEF OpeningFits
    <3>4. \A i \in DOMAIN back' : back'[i].op \in {"event", "first", "list", "create"}
      BY <3>3 DEF Drops
    <3> QED BY <3>2, <3>4 DEF HeldFits
  <2> QED BY <2>1, <2>2 DEF Listers
<1>7. OpeningFits'
  BY <1>0, <1>1, OpeningAfter
<1>8. ViewFits'
  BY <1>0, <1>1, ViewAfter
<1> QED BY <1>2, <1>3, <1>4, <1>5, <1>6, <1>7, <1>8 DEF ShowInv

\* The list, or the first one when no Thread is to be shown.
LEMMA GetsListsKeepShown ==
    ASSUME ViewIInv, ShowInv, GetsList \/ (GetsFirstList /\ viewing = NoSession)
    PROVE  ShowInv'
<1>1. CASE GetsList
  <2>1. PICK h \in Tells : /\ h = back[1] /\ h = Head(back) /\ h.op = "list"
                           /\ 1 \in DOMAIN back /\ Drops(back, back')
    BY <1>1, Arrived DEF GetsList
  <2>2. /\ UNCHANGED <<daemonState, asked, first, viewing, shown, view>>
        /\ inbox' = h.copy
    BY <1>1, <2>1 DEF GetsList
  <2>3. h.op \in Listers /\ h.op # "first"
    BY <2>1 DEF Listers
  <2> QED BY <2>1, <2>2, <2>3, ListedKeepsShown
<1>2. CASE GetsFirstList /\ viewing = NoSession
  <2>1. PICK h \in Tells : /\ h = back[1] /\ h = Head(back) /\ h.op = "first"
                           /\ 1 \in DOMAIN back /\ Drops(back, back')
    BY <1>2, Arrived DEF GetsFirstList
  <2>2. /\ UNCHANGED <<daemonState, asked, first, viewing, shown, view>>
        /\ inbox' = h.copy
    BY <1>2, <2>1 DEF GetsFirstList
  <2>3. h.op \in Listers
    BY <2>1 DEF Listers
  <2> QED BY <1>2, <2>1, <2>2, <2>3, ListedKeepsShown
<1> QED BY <1>1, <1>2

\* The first list is held, and the Thread to show with it is read.
LEMMA HoldingKeepsShown ==
    ASSUME ViewIInv, ShowInv, GetsFirstList, viewing # NoSession
    PROVE  ShowInv'
<1>1. PICK h \in Tells : /\ h = back[1] /\ h = Head(back) /\ h.op = "first"
                         /\ 1 \in DOMAIN back /\ Drops(back, back')
  BY Arrived DEF GetsFirstList
<1>2. PICK r : /\ r = Request("firstget", viewing, {}, {})
               /\ r.op = "firstget" /\ r.of = viewing
  BY RequestIs
<1>3. /\ first' = h.copy /\ asked' = Append(asked, r)
      /\ UNCHANGED <<records, deleting, kin, viewing, shown, view, inbox>>
  BY <1>1, <1>2 DEF GetsFirstList, Ask, daemonState
<1>4. viewing \in Sessions /\ asked \in Seq(Asks)
  BY DEF ViewIInv, WindowFits, WiresFit, MaybeSession
<1>5. /\ Extends(asked, asked')
      /\ \A k \in DOMAIN asked' : k \in DOMAIN asked \/ asked'[k] = r
      /\ \A j, k \in DOMAIN asked' : j \in DOMAIN asked \/ k \in DOMAIN asked \/ j = k
      /\ \E k \in DOMAIN asked' : k \notin DOMAIN asked /\ asked'[k] = r
  BY <1>3, <1>4, AppendExtends
<1>6. BornTold' /\ CopiesFit' /\ ListsFit'
  BY <1>1, <1>3, ShiftKeeps
<1>7. BornWindow'
  BY <1>1, <1>3 DEF ShowInv, BornWindow, BornTold, Born, RowsBorn, Listers
<1>8. BornAsked'
  <2>1. r.op \notin Readers
    BY <1>2 DEF Readers, Guesses
  <2> QED BY <1>3, <1>5, <2>1, AskedStays
<1>9. InboxFits'
  <2>1. Has(asked', 0, Refreshers)
    BY <1>2, <1>5, HasNew DEF Refreshers
  <2> QED BY <1>1, <1>3, <1>5, <2>1, InboxAfter
<1>10. HeldFits'
  <2>1. OpeningFits /\ Has(back, 0, {"first"})
    BY <1>1 DEF ShowInv, Has
  <2>2. \A i \in DOMAIN asked : asked[i].op \in {"first", "list", "create"}
    BY <2>1 DEF OpeningFits
  <2>3. \A i \in DOMAIN back : back[i].op \in {"event", "first", "list", "create"}
    BY <1>1, <2>1 DEF OpeningFits
  <2>4. \A i \in DOMAIN back' : back'[i].op \in {"event", "first", "list", "create"}
    BY <1>1, <2>3 DEF Drops
  <2>5. ~Has(back', 0, {"firstget"})
    BY <2>4 DEF Has
  <2>6. Agrees(first)' \/ Relisted(0)'
    <3>1. Agrees(h.copy)' \/ Relisted(0)'
      BY <1>1, <1>3, ListHasCome DEF Listers
    <3> QED BY <1>3, <3>1 DEF Agrees
  <2>7. ASSUME NEW i \in DOMAIN asked', asked'[i].op = "firstget"
        PROVE  ~Has(asked', i, {"firstget"})
    <3>1. i \notin DOMAIN asked
      BY <1>5, <2>2, <2>7 DEF Extends
    <3>2. ASSUME NEW j \in DOMAIN asked', i < j, asked'[j].op = "firstget" PROVE FALSE
      <4>1. j \notin DOMAIN asked
        BY <1>5, <2>2, <3>2 DEF Extends
      <4>2. i = j /\ i \in Nat
        BY <1>5, <3>1, <4>1 DEF Extends
      <4> QED BY <3>2, <4>2
    <3> QED BY <3>2 DEF Has
  <2> QED BY <2>4, <2>5, <2>6, <2>7 DEF HeldFits
<1>11. OpeningFits'
  <2>1. \A k \in DOMAIN asked' : k \notin DOMAIN asked =>
            /\ asked'[k].op \notin {"first", "delete"}
            /\ asked'[k].op = "firstget" =>
                   h.op = "first" /\ viewing \in Sessions /\ asked'[k].of = viewing
            /\ h.op = "event" /\ Unopened => asked'[k].op \in {"list", "create"}
    BY <1>1, <1>2, <1>4, <1>5
  <2>2. h.op # "event"
    BY <1>1
  <2> QED BY <1>1, <1>3, <1>5, <2>1, <2>2, OpeningAfter
<1>12. ViewFits'
  <2>1. h.op \notin Readers \cup {"event"}
    BY <1>1 DEF Readers, Guesses
  <2> QED BY <1>1, <1>3, <1>5, <2>1, ViewAfter
<1> QED BY <1>6, <1>7, <1>8, <1>9, <1>10, <1>11, <1>12 DEF ShowInv

\* A copy arrives and is shown, at the start with the list that was held.
LEMMA CopyKeepsShown ==
    ASSUME ViewIInv, ShowInv, UNCHANGED <<daemonState, asked>>, Drops(back, back'),
           1 \in DOMAIN back, NEW h, h = back[1], Tale(h),
           shown' = h.of, view' = h.copy,
           \/ h.op # "firstget" /\ UNCHANGED <<first, inbox>>
           \/ h.op = "firstget" /\ inbox' = first /\ first' = NoRows
    PROVE  ShowInv'
<1>0. UNCHANGED <<records, deleting, kin>> /\ asked \in Seq(Asks)
  BY DEF daemonState, ViewIInv, WiresFit
<1>1. Extends(asked, asked') /\ \A k \in DOMAIN asked' : k \in DOMAIN asked
  BY <1>0, SameExtends
<1>2. h.op \notin Listers \cup {"event"}
  BY DEF Tale, ThreadOps, Listers
<1>3. BornTold' /\ CopiesFit' /\ ListsFit'
  BY <1>0, ShiftKeeps
<1>4. /\ kin'[h.of] # {}
      /\ records'[h.of].status # "none" =>
             h.copy = records'[h.of] \/ HasOf(back', 0, Readers \cup {"event"}, h.of)
  BY <1>0, CopyHasCome
<1>5. BornWindow'
  <2>1. \A t \in Sessions : NoRows[t].status = "none"
    BY DEF NoRows, Blank
  <2> QED BY <1>0, <1>4, <2>1 DEF ShowInv, BornWindow, Born, RowsBorn
<1>6. BornAsked'
  BY <1>0, <1>1, AskedStays
<1>7. ViewFits'
  BY <1>4 DEF ViewFits, IsThere
<1>8. OpeningFits'
  BY <1>0, <1>1, <1>2, OpeningAfter
<1>9. CASE h.op # "firstget"
  <2>1. UNCHANGED <<first, inbox>> /\ h.op \notin Refreshers
    BY <1>2, <1>9 DEF Refreshers, Listers
  <2>2. InboxFits'
    BY <1>0, <1>1, <1>2, <2>1, InboxAfter
  <2>3. HeldFits'
    BY <1>0, <1>1, <1>2, <2>1, HeldAfter DEF Refreshers
  <2> QED BY <1>3, <1>5, <1>6, <1>7, <1>8, <2>2, <2>3 DEF ShowInv
<1>10. CASE h.op = "firstget"
  <2>1. /\ Agrees(first) \/ Relisted(0) \/ Has(asked, 0, {"list"}) \/ Has(back, 1, {"list"})
        /\ ~Has(back, 1, {"firstget"})
        /\ \A i \in DOMAIN asked : asked[i].op # "firstget"
    <3>1. Has(back, 0, {"firstget"})
      BY <1>10 DEF Has
    <3> QED BY <1>10, <3>1 DEF ShowInv, HeldFits
  <2>2. \A i \in DOMAIN back' : back'[i].op # "firstget"
    <3> SUFFICES ASSUME NEW i \in DOMAIN back', back'[i].op = "firstget" PROVE FALSE
      OBVIOUS
    <3>1. Has(back', 0, {"firstget"})
      BY DEF Has, Drops
    <3>2. Has(back, 0 + 1, {"firstget"})
      BY <3>1, HasLifts
    <3> QED BY <2>1, <3>2
  <2>3. HeldFits'
    BY <1>0, <2>1, <2>2 DEF HeldFits
  <2>4. InboxFits'
    <3>1. inbox' = first
      BY <1>10
    <3>2. CASE Agrees(first)
      BY <1>0, <3>1, <3>2 DEF InboxFits, Agrees, IsPending
    <3>3. CASE Relisted(0)
      BY <1>2, <3>3, HasAfterHead DEF InboxFits, Relisted
    <3>4. CASE Has(asked, 0, {"list"})
      BY <3>4 DEF InboxFits, Has, Refreshers
    <3>5. CASE Has(back, 1, {"list"})
      <4>1. Has(back', 1 - 1, {"list"})
        BY <3>5, HasDrops
      <4> QED BY <4>1 DEF InboxFits, Has, Refreshers
    <3> QED BY <2>1, <3>2, <3>3, <3>4, <3>5
  <2> QED BY <1>3, <1>5, <1>6, <1>7, <1>8, <2>3, <2>4 DEF ShowInv
<1> QED BY <1>9, <1>10

\* A record that is not shown: it is of a Thread since left, or there is none.
LEMMA LeftKeepsShown ==
    ASSUME ViewIInv, ShowInv, UNCHANGED <<daemonState, asked, window, uploads>>,
           Drops(back, back'), 1 \in DOMAIN back, NEW h, h = back[1], h.op = "get",
           ~(h.ok /\ h.of = viewing)
    PROVE  ShowInv'
<1>0. /\ UNCHANGED <<records, deleting, kin, first, viewing, shown, view, inbox>>
      /\ asked \in Seq(Asks)
  BY DEF daemonState, window, ViewIInv, WiresFit
<1>1. Extends(asked, asked') /\ \A k \in DOMAIN asked' : k \in DOMAIN asked
  BY <1>0, SameExtends
<1>2. BornTold' /\ CopiesFit' /\ ListsFit'
  BY <1>0, ShiftKeeps
<1>3. BornWindow' /\ BornAsked'
  BY <1>0, <1>1, WindowAfter, AskedStays
<1>4. InboxFits'
  BY <1>0, <1>1, InboxAfter DEF Refreshers
<1>5. HeldFits'
  BY <1>0, <1>1, HeldAfter
<1>6. OpeningFits'
  BY <1>0, <1>1, OpeningAfter
<1>7. ViewFits'
  <2>1. ~h.ok => ~IsThere(h.of)
    BY DEF ShowInv, CopiesFit
  <2>2. ~(h.of = shown /\ viewing = shown /\ IsThere(shown))
    BY <2>1
  <2> QED BY <1>0, <1>1, <2>2, ViewAfter
<1> QED BY <1>2, <1>3, <1>4, <1>5, <1>6, <1>7 DEF ShowInv

\* The answers that are shown.
LEMMA CopiesKeepShown ==
    ASSUME ViewIInv, ShowInv, GetsFirst \/ GetsThread \/ GetsChanged \/ GetsCreated
    PROVE  ShowInv'
<1>1. CASE GetsFirst
  <2>1. PICK h \in Tells : /\ h = back[1] /\ h = Head(back) /\ h.op = "firstget"
                           /\ 1 \in DOMAIN back /\ Drops(back, back')
    BY <1>1, Arrived DEF GetsFirst
  <2>2. h.ok
    BY <2>1 DEF ShowInv, HeldFits
  <2>3. /\ UNCHANGED <<daemonState, asked>> /\ shown' = h.of /\ view' = h.copy
        /\ inbox' = first /\ first' = NoRows
    BY <1>1, <2>1, <2>2 DEF GetsFirst, Show
  <2>4. Tale(h)
    BY <2>1, <2>2 DEF Tale, ThreadOps
  <2> QED BY <2>1, <2>3, <2>4, CopyKeepsShown
<1>2. CASE GetsThread
  <2>1. PICK h \in Tells : /\ h = back[1] /\ h = Head(back) /\ h.op = "get"
                           /\ 1 \in DOMAIN back /\ Drops(back, back')
    BY <1>2, Arrived DEF GetsThread
  <2>2. CASE h.ok /\ h.of = viewing
    <3>1. /\ UNCHANGED <<daemonState, asked, first, inbox>>
          /\ shown' = h.of /\ view' = h.copy
      BY <1>2, <2>1, <2>2 DEF GetsThread, Show
    <3>2. Tale(h)
      BY <2>1, <2>2 DEF Tale, ThreadOps
    <3> QED BY <2>1, <3>1, <3>2, CopyKeepsShown
  <2>3. CASE ~(h.ok /\ h.of = viewing)
    <3>1. UNCHANGED <<daemonState, asked, window, uploads>>
      BY <1>2, <2>1, <2>3 DEF GetsThread, window, gateway
    <3> QED BY <2>1, <2>3, <3>1, LeftKeepsShown
  <2> QED BY <2>2, <2>3
<1>3. CASE GetsChanged
  <2>1. PICK h \in Tells : /\ h = back[1] /\ h = Head(back)
                           /\ h.op \in Guesses \cup {"uncomment", "send", "fork"}
                           /\ 1 \in DOMAIN back /\ Drops(back, back')
    BY <1>3, Arrived DEF GetsChanged
  <2>2. /\ UNCHANGED <<daemonState, asked, first, inbox>>
        /\ shown' = h.of /\ view' = h.copy /\ h.ok
    BY <1>3, <2>1 DEF GetsChanged, Show
  <2>3. Tale(h) /\ h.op # "firstget"
    BY <2>1, <2>2 DEF Tale, ThreadOps, Guesses
  <2> QED BY <2>1, <2>2, <2>3, CopyKeepsShown
<1>4. CASE GetsCreated
  <2>1. PICK h \in Tells : /\ h = back[1] /\ h = Head(back) /\ h.op = "create"
                           /\ 1 \in DOMAIN back /\ Drops(back, back')
    BY <1>4, Arrived DEF GetsCreated
  <2>2. /\ UNCHANGED <<daemonState, asked, first, inbox>>
        /\ shown' = h.of /\ view' = h.copy
    BY <1>4, <2>1 DEF GetsCreated, Show
  <2>3. Tale(h)
    BY <2>1 DEF ShowInv, CopiesFit, Tale
  <2> QED BY <2>1, <2>2, <2>3, CopyKeepsShown
<1> QED BY <1>1, <1>2, <1>3, <1>4

-----------------------------------------------------------------------------
(* The window at the start, and after every step.                          *)

\* Nothing is shown at the start, and the first list is asked for.
LEMMA ViewInitShows == ViewInit => ShowInv
<1> SUFFICES ASSUME ViewInit PROVE ShowInv
  OBVIOUS
<1>1. PICK one, two \in Sessions, listed \in SUBSET Links :
        /\ records = [t \in Sessions |->
                       IF t = one THEN [Pending EXCEPT !.links = listed]
                       ELSE IF t = two THEN Pending ELSE Blank]
        /\ viewing \in {one, NoSession}
  BY DEF ViewInit
<1>2. PICK r : r = Request("first", viewing, {}, {}) /\ r.op = "first"
  BY RequestIs
<1>3. /\ deleting = {} /\ back = <<>> /\ asked = <<r>>
      /\ first = NoRows /\ inbox = NoRows /\ shown = NoSession /\ uploads = {}
  BY <1>2 DEF ViewInit
<1>4. DOMAIN back = {} /\ DOMAIN asked = {1} /\ asked[1] = r
  BY <1>3
<1>5. \A t \in Sessions : NoRows[t].status = "none"
  BY DEF NoRows, Blank
<1>6. BornWindow
  BY <1>3, <1>5, ControllerAssumption DEF BornWindow, RowsBorn
<1>7. BornAsked /\ BornTold /\ CopiesFit /\ ListsFit
  BY <1>2, <1>4 DEF BornAsked, BornTold, CopiesFit, ListsFit, Readers, Guesses
<1>8. InboxFits
  BY <1>2, <1>4 DEF InboxFits, Has, Refreshers
<1>9. HeldFits
  BY <1>2, <1>4 DEF HeldFits
<1>10. OpeningFits
  <2>1. records[one].status = "pending"
    BY <1>1 DEF Pending, Blank
  <2>2. viewing \in Sessions => IsThere(viewing)
    BY <1>1, <2>1, ControllerAssumption DEF IsThere
  <2>3. Unopened
    BY <1>3, <1>5 DEF Unopened
  <2> QED BY <1>2, <1>3, <1>4, <2>2, <2>3 DEF OpeningFits, Has
<1>11. ViewFits
  BY <1>3, ControllerAssumption DEF ViewFits
<1> QED BY <1>6, <1>7, <1>8, <1>9, <1>10, <1>11 DEF ShowInv

\* Each step of daemon, window, reviewer and others.
LEMMA ViewStepShows == ViewIInv /\ ShowInv /\ [ViewNext]_viewVars => ShowInv'
<1> SUFFICES ASSUME ViewIInv, ShowInv, [ViewNext]_viewVars PROVE ShowInv'
  OBVIOUS
<1>1. CASE UNCHANGED viewVars
  <2>1. UNCHANGED <<records, deleting, asked, back, first, viewing, shown, view, inbox,
                    uploads, kin>>
    BY <1>1 DEF viewVars, daemonState, window, gateway
  <2>2. BornWindow' /\ BornAsked' /\ BornTold'
    BY <2>1 DEF ShowInv, BornWindow, BornAsked, BornTold, Born, RowsBorn
  <2>3. CopiesFit' /\ ListsFit'
    BY <2>1 DEF ShowInv, CopiesFit, ListsFit, Born, Tale, IsThere, IsPending, Changed,
                Relisted, Agrees
  <2>4. InboxFits' /\ HeldFits'
    BY <2>1 DEF ShowInv, InboxFits, HeldFits, IsPending, Relisted, Agrees
  <2>5. OpeningFits' /\ ViewFits'
    BY <2>1 DEF ShowInv, OpeningFits, ViewFits, Unopened, IsThere
  <2> QED BY <2>2, <2>3, <2>4, <2>5 DEF ShowInv
<1>2. CASE Serve
  BY <1>2, ServeKeepsShown
<1>3. CASE FinishDelete
  BY <1>3, FinishDeleteKeepsShown
<1>4. CASE Receive
  <2>1. CASE GetsEvent
    BY <2>1, GetsEventKeepsShown
  <2>2. CASE GetsList \/ GetsFirstList
    BY <2>2, GetsListsKeepShown, HoldingKeepsShown
  <2>3. CASE GetsFirst \/ GetsThread \/ GetsChanged \/ GetsCreated
    BY <2>3, CopiesKeepShown
  <2>4. CASE GetsRefused \/ GetsNothing
    BY <2>4, AnsweredKeepsShown
  <2> QED BY <1>4, <2>1, <2>2, <2>3, <2>4 DEF Receive
<1>5. CASE CreateEmpty \/ DeleteSession \/ ShareLinkCreated \/ Pulled \/ Collaborate
  BY <1>5, OthersKeepShown
<1>6. CASE Open
  BY <1>6, OpenKeepsShown
<1>7. CASE \/ Reject \/ Annotate \/ RemoveNote \/ Submit \/ Fork \/ CreateShareLink
           \/ DeleteShareLink \/ Unshare \/ Pull
  BY <1>7, ActsKeepShown
<1>8. CASE OtherComments \/ OtherResolves
  BY <1>8, ChangesKeepShown
<1> QED BY <1>1, <1>2, <1>3, <1>4, <1>5, <1>6, <1>7, <1>8 DEF ViewNext

\* With nothing on its way, no event, list or copy is left to wait for.
LEMMA QuietShows == ViewIInv /\ ShowInv => ShowsWhatIs
<1> SUFFICES ASSUME ViewIInv, ShowInv, asked = <<>>, back = <<>>
             PROVE  /\ \A t \in Sessions : (inbox[t].status = "pending") = IsPending(t)
                    /\ viewing = shown /\ shown # NoSession /\ IsThere(shown) =>
                           view = records[shown]
  BY DEF ShowsWhatIs, Quiet
<1>1. DOMAIN asked = {} /\ DOMAIN back = {}
  OBVIOUS
<1>2. Agrees(inbox)
  BY <1>1 DEF ShowInv, InboxFits, Relisted, Has, HasListed
<1>3. shown # NoSession => shown \in Sessions
  BY DEF ViewIInv, WindowFits, MaybeSession
<1>4. viewing = shown /\ shown \in Sessions /\ IsThere(shown) => view = records[shown]
  BY <1>1 DEF ShowInv, ViewFits, HasOf
<1> QED BY <1>2, <1>3, <1>4 DEF Agrees

\* For any Threads, comments and links, and any number of steps: whatever
\* order answers, events and guesses came in, once nothing is on its way the
\* sidebar lists the Threads under review, and the Thread being viewed is
\* shown as the daemon has it (connect, refresh, refreshSession and
\* applyOptimistic of the thread controller).
THEOREM ScreenIsRight == ViewSpec => []ShowsWhatIs
<1>1. ViewInit => ViewIInv /\ ShowInv
  BY ViewInitFits, ViewInitShows
<1>2. (ViewIInv /\ ShowInv) /\ [ViewNext]_viewVars => (ViewIInv /\ ShowInv)'
  BY ViewStepKeeps, ViewStepShows
<1> QED BY <1>1, <1>2, QuietShows, PTL DEF ViewSpec
=============================================================================
