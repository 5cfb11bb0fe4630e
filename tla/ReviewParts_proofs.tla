------------------------- MODULE ReviewParts_proofs --------------------------
(***************************************************************************)
(* Theorems about two parts that share no state.  ThreadRecord, for any    *)
(* comments, branches and histories: the newest text of every comment the  *)
(* daemon accepted stays in the record, the record shows what its current  *)
(* path says, and its tree stays valid.  DiffRefresh, for any bounds: the  *)
(* review of a diff never goes back in time but for a capture that a       *)
(* revision crossed.                                                       *)
(***************************************************************************)
EXTENDS ThreadRecord, DiffRefresh, FiniteSetTheorems, SequenceTheorems, WellFoundedInduction, TLAPS

(* ThreadRecord.                                                           *)

(* Why the shelf never hides a newer text: a comment is on the shelf and   *)
(* on the path at once only after an edit brought it back.                 *)
ShelvedOrShown == DOMAIN shown \cap DOMAIN shelved \subseteq shadowed

RecordIInv ==
    /\ ShelvedOrShown
    /\ CommentsSurvive
    /\ DOMAIN shown \cup DOMAIN shelved \subseteq DOMAIN latest

LEMMA EmptyDomain == DOMAIN <<>> = {}
  OBVIOUS

\* A view of the record over the comments known to it: each of them is on
\* the path or on the shelf.
KeepsComments(view, known) ==
    /\ DOMAIN view.shown \cap DOMAIN view.shelved = {}
    /\ DOMAIN view.shown \cup DOMAIN view.shelved = DOMAIN known
    /\ \A c \in DOMAIN known : KnownComments(view.shown, view.shelved)[c] = known[c]

LEMMA ViewKeepsComments ==
    ASSUME NEW h, NEW known
    PROVE  KeepsComments(ViewOfPath(h, known), known)
<1> DEFINE view == ViewOfPath(h, known)
           open == OpenOn(h, PathOf(h)) \cap DOMAIN known
           on   == [c \in open |-> known[c]]
           off  == [c \in DOMAIN known \ open |-> known[c]]
<1>1. view.shown = on /\ view.shelved = off
  BY DEF ViewOfPath
<1>2. DOMAIN on = open /\ DOMAIN off = DOMAIN known \ open
  OBVIOUS
<1>3. open \subseteq DOMAIN known
  OBVIOUS
<1>4. ASSUME NEW c \in DOMAIN known PROVE KnownComments(on, off)[c] = known[c]
  <2>1. c \in DOMAIN on \cup DOMAIN off
    BY <1>2
  <2> QED BY <1>2, <2>1 DEF KnownComments
<1> HIDE DEF on, off, open, view
<1>5. KeepsComments(view, known)
  BY <1>1, <1>2, <1>3, <1>4 DEF KeepsComments
<1> QED BY <1>5 DEF view

(* A refresh of the view from any history keeps the invariant, when what   *)
(* it is given holds the newest texts.                                     *)
LEMMA RefreshKeeps ==
    ASSUME NEW h, NEW on, RefreshView(h, on), shadowed' = shadowed,
           DOMAIN on \cup DOMAIN shelved = DOMAIN latest',
           \A c \in DOMAIN latest' : c \in shadowed \/
               KnownComments(on, shelved)[c] = latest'[c]
    PROVE  RecordIInv'
<1> DEFINE known == KnownComments(on, shelved)
           view  == ViewOfPath(h, known)
<1>1. shown' = view.shown /\ shelved' = view.shelved
  BY DEF RefreshView
<1>2. DOMAIN known = DOMAIN latest'
  BY DEF KnownComments
<1>3. KeepsComments(view, known)
  BY ViewKeepsComments
<1>4. \A c \in DOMAIN latest' : c \in shadowed \/ known[c] = latest'[c]
  OBVIOUS
<1> HIDE DEF known, view
<1>5. DOMAIN KnownComments(shown', shelved') = DOMAIN known
  BY <1>1, <1>3 DEF KnownComments, KeepsComments
<1>6. CommentsSurvive'
  BY <1>1, <1>2, <1>3, <1>4, <1>5 DEF CommentsSurvive, KeepsComments
<1> QED BY <1>1, <1>2, <1>3, <1>6 DEF RecordIInv, ShelvedOrShown, KeepsComments

-----------------------------------------------------------------------------
LEMMA InitHolds == RecordInit => RecordIInv
  BY EmptyDomain DEF RecordInit, RecordIInv, ShelvedOrShown, CommentsSurvive

\* Moving through the tree changes what is open, and no comment.
LEMMA MovesKeep ==
    ASSUME RecordIInv, NEW h, RefreshView(h, shown), UNCHANGED ghostVars
    PROVE  RecordIInv'
<1>1. DOMAIN shown \cup DOMAIN shelved = DOMAIN latest
  BY DEF KnownComments, RecordIInv, CommentsSurvive
<1> QED BY <1>1, RefreshKeeps DEF RecordIInv, CommentsSurvive, ghostVars

LEMMA AddKeeps == ASSUME RecordIInv, NEW c, AddComment(c) PROVE RecordIInv'
<1>1. /\ shown' = With(shown, c, 0) /\ latest' = With(latest, c, 0)
      /\ shelved' = shelved /\ shadowed' = shadowed
      /\ c \notin DOMAIN latest
  BY DEF AddComment
<1>2. /\ DOMAIN shown' = DOMAIN shown \cup {c}
      /\ DOMAIN latest' = DOMAIN latest \cup {c}
      /\ shown'[c] = 0 /\ latest'[c] = 0
      /\ \A d \in DOMAIN shown : d # c => shown'[d] = shown[d]
      /\ \A d \in DOMAIN latest : d # c => latest'[d] = latest[d]
  BY <1>1 DEF With
<1>3. c \notin DOMAIN shown \cup DOMAIN shelved
  BY <1>1 DEF RecordIInv
<1>4. ASSUME NEW d \in DOMAIN latest'
      PROVE  /\ d \in DOMAIN KnownComments(shown', shelved')
             /\ d \in shadowed' \/ KnownComments(shown', shelved')[d] = latest'[d]
  <2>1. CASE d = c
    BY <1>1, <1>2, <1>3, <2>1 DEF KnownComments
  <2>2. CASE d # c
    <3>1. d \in DOMAIN latest /\ latest'[d] = latest[d]
      BY <1>2, <2>2
    <3>2. /\ d \in DOMAIN shown \cup DOMAIN shelved
          /\ d \in shadowed \/ KnownComments(shown, shelved)[d] = latest[d]
      BY <3>1 DEF KnownComments, RecordIInv, CommentsSurvive
    <3> QED BY <1>1, <1>2, <2>2, <3>1, <3>2 DEF KnownComments
  <2> QED BY <2>1, <2>2
<1>5. CommentsSurvive'
  BY <1>4 DEF CommentsSurvive
<1> QED BY <1>1, <1>2, <1>3, <1>5 DEF RecordIInv, ShelvedOrShown

LEMMA EditKeeps == ASSUME RecordIInv, NEW c, EditComment(c) PROVE RecordIInv'
<1> DEFINE text == latest[c] + 1
<1>1. /\ shown' = With(shown, c, text) /\ latest' = With(latest, c, text)
      /\ shelved' = shelved
      /\ c \in DOMAIN latest
      /\ shadowed' = shadowed \/ shadowed' = shadowed \cup {c}
      /\ c \notin DOMAIN shown => c \in shadowed'
  BY DEF EditComment
<1> HIDE DEF text
<1>2. /\ DOMAIN shown' = DOMAIN shown \cup {c}
      /\ DOMAIN latest' = DOMAIN latest
      /\ shown'[c] = text /\ latest'[c] = text
      /\ \A d \in DOMAIN shown : d # c => shown'[d] = shown[d]
      /\ \A d \in DOMAIN latest : d # c => latest'[d] = latest[d]
  BY <1>1 DEF With
<1>3. c \in DOMAIN shelved => c \in shadowed'
  BY <1>1 DEF RecordIInv, ShelvedOrShown
<1>4. ASSUME NEW d \in DOMAIN latest'
      PROVE  /\ d \in DOMAIN KnownComments(shown', shelved')
             /\ d \in shadowed' \/ KnownComments(shown', shelved')[d] = latest'[d]
  <2>1. CASE d = c
    BY <1>1, <1>2, <1>3, <2>1 DEF KnownComments
  <2>2. CASE d # c
    <3>1. d \in DOMAIN latest /\ latest'[d] = latest[d]
      BY <1>2, <2>2
    <3>2. /\ d \in DOMAIN shown \cup DOMAIN shelved
          /\ d \in shadowed \/ KnownComments(shown, shelved)[d] = latest[d]
      BY <3>1 DEF KnownComments, RecordIInv, CommentsSurvive
    <3> QED BY <1>1, <1>2, <2>2, <3>1, <3>2 DEF KnownComments
  <2> QED BY <2>1, <2>2
<1>5. CommentsSurvive'
  BY <1>4 DEF CommentsSurvive
<1> QED BY <1>1, <1>2, <1>3, <1>5 DEF RecordIInv, ShelvedOrShown

LEMMA RemoveKeeps == ASSUME RecordIInv, NEW c, RemoveComment(c) PROVE RecordIInv'
<1>1. /\ shown' = Without(shown, c) /\ shelved' = With(shelved, c, shown[c])
      /\ latest' = latest /\ shadowed' = shadowed
      /\ c \in DOMAIN shown
  BY DEF RemoveComment, ghostVars
<1>2. /\ DOMAIN shown' = DOMAIN shown \ {c}
      /\ DOMAIN shelved' = DOMAIN shelved \cup {c}
      /\ shelved'[c] = shown[c]
      /\ \A d \in DOMAIN shown : d # c => shown'[d] = shown[d]
      /\ \A d \in DOMAIN shelved : d # c => shelved'[d] = shelved[d]
  BY <1>1 DEF With, Without
<1>3. ASSUME NEW d \in DOMAIN latest
      PROVE  /\ d \in DOMAIN KnownComments(shown', shelved')
             /\ d \in shadowed \/ KnownComments(shown', shelved')[d] = latest[d]
  <2>1. /\ d \in DOMAIN shown \cup DOMAIN shelved
        /\ d \in shadowed \/ KnownComments(shown, shelved)[d] = latest[d]
    BY DEF KnownComments, RecordIInv, CommentsSurvive
  <2>2. CASE d = c
    BY <1>1, <1>2, <2>1, <2>2 DEF KnownComments, RecordIInv, ShelvedOrShown
  <2>3. CASE d # c
    BY <1>2, <2>1, <2>3 DEF KnownComments
  <2> QED BY <2>2, <2>3
<1>4. CommentsSurvive'
  BY <1>1, <1>3 DEF CommentsSurvive
<1> QED BY <1>1, <1>2, <1>4 DEF RecordIInv, ShelvedOrShown

LEMMA MergeKeeps ==
    ASSUME RecordIInv, NEW notes, NEW removals, MergeShared(notes, removals)
    PROVE  RecordIInv'
<1> DEFINE known == DOMAIN shown \cup DOMAIN shelved
           new   == notes \ known
           on    == [c \in DOMAIN shown \cup new |-> IF c \in new THEN 0 ELSE shown[c]]
<1>1. /\ \E h : RefreshView(h, on)
      /\ latest' = [c \in DOMAIN latest \cup new |-> IF c \in new THEN 0 ELSE latest[c]]
      /\ shadowed' = shadowed
  BY DEF MergeShared
<1>2. DOMAIN latest = known
  BY DEF KnownComments, RecordIInv, CommentsSurvive
<1>3. /\ DOMAIN latest' = DOMAIN latest \cup new
      /\ DOMAIN on = DOMAIN shown \cup new
      /\ \A c \in new : latest'[c] = 0 /\ on[c] = 0 /\ c \notin DOMAIN shelved
      /\ \A c \in DOMAIN latest : latest'[c] = latest[c]
      /\ \A c \in DOMAIN shown : on[c] = shown[c]
  BY <1>1, <1>2
<1> HIDE DEF known, new, on
<1>4. DOMAIN on \cup DOMAIN shelved = DOMAIN latest'
  BY <1>2, <1>3 DEF known
<1>5. ASSUME NEW c \in DOMAIN latest'
      PROVE  c \in shadowed \/ KnownComments(on, shelved)[c] = latest'[c]
  <2>1. CASE c \in new
    BY <1>3, <2>1 DEF KnownComments
  <2>2. CASE c \in DOMAIN latest
    <3>1. /\ c \in DOMAIN shown \cup DOMAIN shelved
          /\ c \in shadowed \/ KnownComments(shown, shelved)[c] = latest[c]
      BY <2>2 DEF KnownComments, RecordIInv, CommentsSurvive
    <3> QED BY <1>3, <2>2, <3>1 DEF KnownComments
  <2> QED BY <1>3, <2>1, <2>2
<1> QED BY <1>1, <1>4, <1>5, RefreshKeeps

LEMMA ForkKeeps == ASSUME Fork PROVE RecordIInv'
<1>1. shelved' = <<>> /\ latest' = shown'
  BY DEF Fork
<1> QED BY <1>1, EmptyDomain DEF KnownComments, RecordIInv, ShelvedOrShown, CommentsSurvive

-----------------------------------------------------------------------------
LEMMA StepKeeps == RecordIInv /\ [RecordNext]_recordVars => RecordIInv'
<1> SUFFICES ASSUME RecordIInv, [RecordNext]_recordVars PROVE RecordIInv'
  OBVIOUS
<1> USE DEF ghostVars
<1>1. ASSUME NEW c \in Comments, AddComment(c) \/ EditComment(c) \/ RemoveComment(c)
      PROVE  RecordIInv'
  BY <1>1, AddKeeps, EditKeeps, RemoveKeeps
<1>2. ASSUME NEW notes \in SUBSET Comments, NEW removals \in SUBSET Comments,
             MergeShared(notes, removals)
      PROVE  RecordIInv'
  BY <1>2, MergeKeeps
<1>3. CASE UNCHANGED <<shown, shelved, latest, shadowed>>
  BY <1>3 DEF RecordIInv, ShelvedOrShown, CommentsSurvive, KnownComments
<1>4. ASSUME NEW t \in Texts, EditText(t) \/ SubmitText(t) \/ RecaptureTree(t) \/ ReviseByCapture(t)
      PROVE  RecordIInv'
  BY <1>3, <1>4 DEF EditText, SubmitText, RecaptureTree, ReviseByCapture
<1>5. ASSUME NEW r \in BOOLEAN, SendMessageEntry(r) PROVE RecordIInv'
  BY <1>3, <1>5 DEF SendMessageEntry, viewVars
<1>6. ASSUME NEW b \in Branches \cup {Main}, NEW i \in 1..MaxEntries, NEW s \in BOOLEAN,
             Navigate(i, s, b)
      PROVE  RecordIInv'
  BY <1>6, MovesKeep DEF Navigate
<1>7. ASSUME NEW b \in Branches \cup {Main}, StartBranch(b) \/ Switch(b) PROVE RecordIInv'
  BY <1>7, MovesKeep DEF StartBranch, Switch
<1>8. ASSUME NEW b \in Branches \cup {Main}, SetShares(b) PROVE RecordIInv'
  BY <1>3, <1>8 DEF SetShares, viewVars
<1>9. CASE Fork
  BY <1>9, ForkKeeps
<1>10. CASE UNCHANGED recordVars
  BY <1>3, <1>10 DEF recordVars
<1> QED BY <1>1, <1>2, <1>4, <1>5, <1>6, <1>7, <1>8, <1>9, <1>10 DEF RecordNext

(* Wherever the tips of the tree move, whatever is removed, merged from a  *)
(* share or folded again, the newest text of every comment that api.ts     *)
(* accepted is in the record.                                              *)
THEOREM NoCommentIsLost == RecordSpec => []CommentsSurvive
<1>1. RecordIInv => CommentsSurvive
  BY DEF RecordIInv
<1> QED BY <1>1, InitHolds, StepKeeps, PTL DEF RecordSpec

-----------------------------------------------------------------------------
(* The tree.                                                               *)

LEMMA SmallestExists ==
    ASSUME NEW S \in SUBSET Nat, S # {}
    PROVE  \E x \in S : \A y \in S : x <= y
<1> DEFINE R == OpToRel(<, Nat)
<1>1. \A x, y \in Nat : <<y, x>> \notin R => x <= y
  BY DEF OpToRel
<1>2. IsWellFoundedOn(R, Nat)
  BY NatLessThanWellFounded
<1> HIDE DEF R
<1>3. PICK x \in S : \A y \in S : ~(<<y, x>> \in R)
  BY <1>2, WFMin
<1> QED BY <1>1, <1>3

\* The function by which PathTo is defined, over the first n places.
ArePaths(path, h, n) ==
    path = [i \in 0..n |-> IF i = 0 THEN {} ELSE path[h.entries[i].parent] \cup {i}]

\* The parent of a place comes before it, and 0 before all.
ParentsFirst(h) ==
    /\ Len(h.entries) \in Nat
    /\ \A i \in 1..Len(h.entries) : h.entries[i].parent \in 0..(i-1)

LEMMA PathsExist ==
    ASSUME NEW h, ParentsFirst(h)
    PROVE  \E path : ArePaths(path, h, Len(h.entries))
<1> DEFINE L == Len(h.entries)
           Bad == {n \in 0..L : ~ \E path : ArePaths(path, h, n)}
<1>1. L \in Nat /\ \A i \in 1..L : h.entries[i].parent \in 0..(i-1)
  BY DEF ParentsFirst
<1>2. Bad = {}
  <2> SUFFICES ASSUME Bad # {} PROVE FALSE
    OBVIOUS
  <2>0. Bad \in SUBSET Nat
    BY <1>1
  <2>1. PICK n \in Bad : \A m \in Bad : n <= m
    <3> HIDE DEF Bad
    <3> QED BY <2>0, SmallestExists
  <2>2. n \in 0..L /\ ~ \E path : ArePaths(path, h, n)
    OBVIOUS
  <2>3. n # 0
    <3>1. ASSUME n = 0 PROVE FALSE
      <4>1. ArePaths([i \in 0..0 |-> {}], h, 0)
        BY DEF ArePaths
      <4> QED BY <2>2, <3>1, <4>1
    <3> QED BY <3>1
  <2>4. n - 1 \in 0..L /\ n - 1 \notin Bad
    BY <1>1, <2>1, <2>2, <2>3
  <2>5. PICK path : ArePaths(path, h, n - 1)
    BY <2>4
  <2> DEFINE longer == [i \in 0..n |-> IF i = n THEN path[h.entries[n].parent] \cup {n} ELSE path[i]]
  <2>6. ASSUME NEW i \in 0..n
        PROVE  longer[i] = IF i = 0 THEN {} ELSE longer[h.entries[i].parent] \cup {i}
    <3>1. CASE i = n
      <4>1. h.entries[n].parent \in 0..n /\ h.entries[n].parent # n
        BY <1>1, <2>2, <2>3
      <4> QED BY <2>3, <3>1, <4>1
    <3>2. CASE i # n
      <4>1. i \in 0..(n-1)
        BY <2>2, <3>2
      <4>2. path[i] = IF i = 0 THEN {} ELSE path[h.entries[i].parent] \cup {i}
        BY <2>5, <4>1 DEF ArePaths
      <4>3. longer[i] = path[i]
        BY <3>2
      <4>4. i # 0 => h.entries[i].parent \in 0..n /\ h.entries[i].parent # n
        BY <1>1, <2>2, <4>1
      <4> QED BY <4>2, <4>3, <4>4
    <3> QED BY <3>1, <3>2
  <2>7. longer = [i \in 0..n |-> IF i = 0 THEN {} ELSE longer[h.entries[i].parent] \cup {i}]
    <3>1. longer = [i \in 0..n |-> longer[i]]
      OBVIOUS
    <3> HIDE DEF longer
    <3>2. [i \in 0..n |-> longer[i]] = [i \in 0..n |-> IF i = 0 THEN {} ELSE longer[h.entries[i].parent] \cup {i}]
      BY <2>6
    <3> QED BY <3>1, <3>2
  <2> HIDE DEF longer
  <2>8. ArePaths(longer, h, n)
    BY <2>7 DEF ArePaths
  <2> QED BY <2>2, <2>8
<1>3. L \in 0..L
  BY <1>1
<1> QED BY <1>2, <1>3

LEMMA PathToUnrolls ==
    ASSUME NEW h, ParentsFirst(h)
    PROVE  /\ PathTo(h, 0) = {}
           /\ \A i \in 1..Len(h.entries) :
                PathTo(h, i) = PathTo(h, h.entries[i].parent) \cup {i}
<1> DEFINE L == Len(h.entries)
           path == CHOOSE f : ArePaths(f, h, L)
<1>1. L \in Nat /\ \A i \in 1..L : h.entries[i].parent \in 0..(i-1)
  BY DEF ParentsFirst
<1>2. ArePaths(path, h, L)
  BY PathsExist
<1>3. ASSUME NEW i PROVE PathTo(h, i) = path[i]
  BY DEF PathTo, ArePaths
<1> HIDE DEF path
<1>4. path = [i \in 0..L |-> IF i = 0 THEN {} ELSE path[h.entries[i].parent] \cup {i}]
  BY <1>2 DEF ArePaths
<1>5. \A i \in 0..L : path[i] = IF i = 0 THEN {} ELSE path[h.entries[i].parent] \cup {i}
  BY <1>4
<1>6. 0 \in 0..L
  BY <1>1
<1>7. ASSUME NEW i \in 1..L PROVE i \in 0..L /\ i # 0
  BY <1>1
<1> QED BY <1>3, <1>5, <1>6, <1>7

-----------------------------------------------------------------------------
\* A path holds places up to its end, the root among them.
LEMMA PathReachesRoot ==
    ASSUME NEW h, ParentsFirst(h), \A i \in 2..Len(h.entries) : h.entries[i].parent # 0
    PROVE  \A i \in 1..Len(h.entries) :
              PathTo(h, i) \subseteq 1..i /\ i \in PathTo(h, i) /\ 1 \in PathTo(h, i)
<1> DEFINE L == Len(h.entries)
           Good(i) == PathTo(h, i) \subseteq 1..i /\ i \in PathTo(h, i) /\ 1 \in PathTo(h, i)
           Bad == {i \in 1..L : ~Good(i)}
<1>1. L \in Nat /\ \A i \in 1..L : h.entries[i].parent \in 0..(i-1)
  BY DEF ParentsFirst
<1>2. ASSUME Bad # {} PROVE FALSE
  <2>0. Bad \in SUBSET Nat
    BY <1>1
  <2>1. PICK n \in Bad : \A m \in Bad : n <= m
    <3> HIDE DEF Bad
    <3> QED BY <1>2, <2>0, SmallestExists
  <2>2. n \in 1..L /\ ~Good(n)
    OBVIOUS
  <2>3. \A m \in 1..L : m < n => Good(m)
    BY <1>1, <2>1
  <2> DEFINE p == h.entries[n].parent
  <2>4. PathTo(h, n) = PathTo(h, p) \cup {n} /\ PathTo(h, 0) = {}
    BY <2>2, PathToUnrolls
  <2>5. p \in 0..(n-1)
    BY <1>1, <2>2
  <2>6. CASE p = 0
    <3>1. n = 1
      BY <1>1, <2>2, <2>6
    <3> QED BY <2>2, <2>4, <2>6, <3>1
  <2>7. CASE p # 0
    <3> HIDE DEF p, Good
    <3>1. Good(p)
      BY <1>1, <2>2, <2>3, <2>5, <2>7
    <3>2. PathTo(h, p) \subseteq 1..p /\ 1 \in PathTo(h, p)
      BY <3>1 DEF Good
    <3>3. 1..p \subseteq 1..n /\ n \in 1..n
      BY <1>1, <2>2, <2>5
    <3> QED BY <2>2, <2>4, <3>2, <3>3 DEF Good
  <2> QED BY <2>6, <2>7
<1> QED BY <1>2

\* The paths of a history depend on the parents alone.
LEMMA PathsStay ==
    ASSUME NEW h, ParentsFirst(h), NEW g, ParentsFirst(g),
           Len(h.entries) <= Len(g.entries),
           \A i \in 1..Len(h.entries) : g.entries[i].parent = h.entries[i].parent
    PROVE  \A i \in 0..Len(h.entries) : PathTo(g, i) = PathTo(h, i)
<1> DEFINE L == Len(h.entries)
           Bad == {i \in 0..L : PathTo(g, i) # PathTo(h, i)}
<1>1. /\ L \in Nat /\ \A i \in 1..L : h.entries[i].parent \in 0..(i-1)
      /\ \A i \in 1..L : i \in 1..Len(g.entries)
  BY DEF ParentsFirst
<1>2. ASSUME Bad # {} PROVE FALSE
  <2>0. Bad \in SUBSET Nat
    BY <1>1
  <2>1. PICK n \in Bad : \A m \in Bad : n <= m
    <3> HIDE DEF Bad
    <3> QED BY <1>2, <2>0, SmallestExists
  <2>2. n \in 0..L /\ PathTo(g, n) # PathTo(h, n)
    OBVIOUS
  <2>3. \A m \in 0..L : m < n => PathTo(g, m) = PathTo(h, m)
    BY <1>1, <2>1
  <2>4. n # 0
    BY <2>2, PathToUnrolls
  <2>5. n \in 1..L
    BY <1>1, <2>2, <2>4
  <2>6. /\ PathTo(h, n) = PathTo(h, h.entries[n].parent) \cup {n}
        /\ PathTo(g, n) = PathTo(g, h.entries[n].parent) \cup {n}
    BY <1>1, <2>5, PathToUnrolls
  <2>7. h.entries[n].parent \in 0..L /\ h.entries[n].parent < n
    BY <1>1, <2>5
  <2> QED BY <2>2, <2>3, <2>6, <2>7
<1> QED BY <1>2

-----------------------------------------------------------------------------
EntryTypes == Revisions \cup Removals \cup {"comment", "message", "summary"}

EntryRecords ==
    [parent : Nat, type : EntryTypes, of : Texts \cup Comments \cup {NoText} \cup Nat]

\* A revision has a text.
EntryOK(e) == e \in EntryRecords /\ (e.type \in Revisions => e.of \in Texts)

\* The entries are a tree that grew from the agent's first revision.
TreeOK(entries) ==
    /\ entries \in Seq(EntryRecords)
    /\ Len(entries) >= 1
    /\ entries[1].parent = 0 /\ entries[1].type = "agent"
    /\ \A i \in 2..Len(entries) : entries[i].parent \in 1..(i-1)
    /\ \A i \in 1..Len(entries) : EntryOK(entries[i])

\* ... and every branch, main and the current one among them, has its tip in it.
WellFormed(h) ==
    /\ h = [entries |-> h.entries, tips |-> h.tips, branch |-> h.branch]
    /\ TreeOK(h.entries)
    /\ h.tips \in [DOMAIN h.tips -> 1..Len(h.entries)]
    /\ {Main, h.branch} \subseteq DOMAIN h.tips

LEMMA MaxIs ==
    ASSUME NEW n \in Nat, NEW S \in SUBSET (1..n), S # {}
    PROVE  Max(S) \in S /\ \A y \in S : y <= Max(S)
<1> DEFINE T == {n - x : x \in S}
<1>a. ASSUME NEW x \in S PROVE n - x \in Nat
  <2>1. x \in 1..n
    OBVIOUS
  <2> QED BY <2>1
<1>1. T \in SUBSET Nat /\ T # {}
  BY <1>a
<1>2. PICK t \in T : \A y \in T : t <= y
  <2> HIDE DEF T
  <2> QED BY <1>1, SmallestExists
<1>3. PICK x \in S : t = n - x
  OBVIOUS
<1>4. ASSUME NEW y \in S PROVE x >= y
  <2>1. n - x <= n - y
    BY <1>2, <1>3
  <2> QED BY <2>1
<1>5. Max(S) \in S /\ \A y \in S : Max(S) >= y
  BY <1>4 DEF Max
<1> QED BY <1>5

LEMMA MaxIsThat ==
    ASSUME NEW n \in Nat, NEW S \in SUBSET (1..n), NEW m \in S, \A y \in S : y <= m
    PROVE  Max(S) = m
<1>1. Max(S) \in S /\ \A y \in S : y <= Max(S)
  BY MaxIs
<1>2. Max(S) \in 1..n /\ m \in 1..n
  BY <1>1
<1>3. m <= Max(S) /\ Max(S) <= m
  BY <1>1
<1> HIDE DEF Max
<1> QED BY <1>2, <1>3

-----------------------------------------------------------------------------
LEMMA TreeParents ==
    ASSUME NEW h, TreeOK(h.entries)
    PROVE  ParentsFirst(h) /\ \A i \in 2..Len(h.entries) : h.entries[i].parent # 0
<1>1. Len(h.entries) \in Nat
  BY DEF TreeOK
<1>2. ASSUME NEW i \in 1..Len(h.entries) PROVE h.entries[i].parent \in 0..(i-1)
  <2>1. CASE i = 1
    BY <2>1 DEF TreeOK
  <2>2. CASE i # 1
    BY <1>1, <2>2 DEF TreeOK
  <2> QED BY <2>1, <2>2
<1>3. ASSUME NEW i \in 2..Len(h.entries) PROVE h.entries[i].parent # 0
  BY DEF TreeOK
<1> QED BY <1>1, <1>2, <1>3 DEF ParentsFirst

\* The path from any place, so from any tip, holds the root.
LEMMA TipPaths ==
    ASSUME NEW h, TreeOK(h.entries), NEW i \in 1..Len(h.entries)
    PROVE  /\ PathTo(h, i) \subseteq 1..Len(h.entries)
           /\ PathTo(h, i) \subseteq 1..i
           /\ 1 \in PathTo(h, i)
           /\ i \in PathTo(h, i)
<1>1. PathTo(h, i) \subseteq 1..i /\ i \in PathTo(h, i) /\ 1 \in PathTo(h, i)
  BY TreeParents, PathReachesRoot
<1>2. Len(h.entries) \in Nat
  BY DEF TreeOK
<1>3. 1..i \subseteq 1..Len(h.entries)
  BY <1>2
<1> QED BY <1>1, <1>3

\* The texts on a path are texts.
LEMMA TextsOnPath ==
    ASSUME NEW h, WellFormed(h)
    PROVE  /\ PathOf(h) \subseteq 1..Len(h.entries) /\ 1 \in PathOf(h)
           /\ HeadText(h) \in Texts /\ AgentText(h) \in Texts
<1>1. h.tips[h.branch] \in 1..Len(h.entries) /\ TreeOK(h.entries) /\ Len(h.entries) \in Nat
  BY DEF WellFormed, TreeOK
<1>2. PathOf(h) \subseteq 1..Len(h.entries) /\ 1 \in PathOf(h)
  BY <1>1, TipPaths DEF PathOf
<1>3. h.entries[1].type = "agent" /\ \A i \in 1..Len(h.entries) : EntryOK(h.entries[i])
  BY <1>1 DEF TreeOK
<1>4. ASSUME NEW types, types \subseteq Revisions, "agent" \in types
      PROVE  h.entries[Max(OfType(h, PathOf(h), types))].of \in Texts
  <2> DEFINE S == OfType(h, PathOf(h), types)
  <2>1. 1 \in S /\ S \in SUBSET (1..Len(h.entries)) /\ \A i \in S : h.entries[i].type \in types
    BY <1>2, <1>3, <1>4 DEF OfType
  <2> HIDE DEF S
  <2>2. Max(S) \in S
    BY <1>1, <2>1, MaxIs
  <2>3. h.entries[Max(S)].type \in Revisions /\ Max(S) \in 1..Len(h.entries)
    BY <1>4, <2>1, <2>2
  <2>4. h.entries[Max(S)].of \in Texts
    BY <1>3, <2>3 DEF EntryOK
  <2> QED BY <2>4 DEF S
<1>5. HeadText(h) \in Texts
  BY <1>4 DEF HeadText, Revisions
<1>6. AgentText(h) \in Texts
  BY <1>4 DEF AgentText, Revisions
<1> QED BY <1>2, <1>5, <1>6

-----------------------------------------------------------------------------
\* The entries of g begin with those of h.
Grows(h, g) ==
    /\ Len(h.entries) <= Len(g.entries)
    /\ \A i \in 1..Len(h.entries) : g.entries[i] = h.entries[i]

LEMMA GrowthKeepsPaths ==
    ASSUME NEW h, NEW g, TreeOK(h.entries), TreeOK(g.entries), Grows(h, g)
    PROVE  \A i \in 0..Len(h.entries) : PathTo(g, i) = PathTo(h, i)
  BY TreeParents, PathsStay DEF Grows

\* An entry appended to a branch of the tree.
LEMMA AppendIs ==
    ASSUME NEW h, WellFormed(h), NEW b \in DOMAIN h.tips, NEW e, EntryOK(e),
           NEW g, g = AppendEntry(h, b, e)
    PROVE  /\ WellFormed(g) /\ Grows(h, g)
           /\ Len(g.entries) = Len(h.entries) + 1
           /\ g.entries[Len(h.entries) + 1] = [e EXCEPT !.parent = h.tips[b]]
           /\ g.branch = h.branch
           /\ g.tips = [h.tips EXCEPT ![b] = Len(h.entries) + 1]
<1> DEFINE n == Len(h.entries)
           added == [e EXCEPT !.parent = h.tips[b]]
           entries == Append(h.entries, added)
           tips == [h.tips EXCEPT ![b] = n + 1]
<1>1. /\ h = [entries |-> h.entries, tips |-> h.tips, branch |-> h.branch]
      /\ TreeOK(h.entries) /\ h.tips \in [DOMAIN h.tips -> 1..n]
      /\ {Main, h.branch} \subseteq DOMAIN h.tips
      /\ n \in Nat /\ h.entries \in Seq(EntryRecords)
  BY DEF WellFormed, TreeOK
<1>4. h.tips[b] \in 1..n /\ h.tips[b] \in Nat
  BY <1>1
<1>0. n \in Nat
  BY <1>1
<1>2. added.parent = h.tips[b] /\ added.type = e.type /\ added.of = e.of /\ added \in EntryRecords
  <2>1. e \in EntryRecords
    BY DEF EntryOK
  <2> QED BY <1>4, <2>1 DEF EntryRecords
<1>3. EntryOK(added)
  BY <1>2 DEF EntryOK
<1> HIDE DEF added, n
<1>5. g = [entries |-> entries, tips |-> tips, branch |-> h.branch]
  BY <1>1 DEF AppendEntry, added, n
<1>6. /\ entries \in Seq(EntryRecords) /\ Len(entries) = n + 1
      /\ entries[n + 1] = added
      /\ \A i \in 1..n : entries[i] = h.entries[i]
  BY <1>1, <1>2 DEF n
<1>7. tips \in [DOMAIN h.tips -> 1..(n+1)]
  BY <1>1, <1>4
<1> HIDE DEF entries, tips
<1>8. TreeOK(entries)
  <2>1. ASSUME NEW i \in 2..(n+1) PROVE entries[i].parent \in 1..(i-1)
    <3>1. CASE i = n + 1
      BY <1>1, <1>2, <1>4, <1>6, <3>1
    <3>2. CASE i # n + 1
      <4>1. i \in 2..n /\ i \in 1..n
        BY <1>0, <3>2
      <4> QED BY <1>1, <1>6, <4>1 DEF TreeOK, n
    <3> QED BY <3>1, <3>2
  <2>2. ASSUME NEW i \in 1..(n+1) PROVE EntryOK(entries[i])
    <3>1. CASE i = n + 1
      BY <1>3, <1>6, <3>1
    <3>2. CASE i # n + 1
      <4>1. i \in 1..n
        BY <1>0, <3>2
      <4> QED BY <1>1, <1>6, <4>1 DEF TreeOK, n
    <3> QED BY <3>1, <3>2
  <2>3. 1 \in 1..n
    BY <1>1, <1>4
  <2>4. entries[1].parent = 0 /\ entries[1].type = "agent"
    BY <1>1, <1>6, <2>3 DEF TreeOK
  <2> QED BY <1>1, <1>6, <2>1, <2>2, <2>4 DEF TreeOK
<1>9. WellFormed(g)
  BY <1>1, <1>5, <1>6, <1>7, <1>8 DEF WellFormed
<1>10. Grows(h, g)
  BY <1>1, <1>5, <1>6 DEF Grows, n
<1> QED BY <1>5, <1>6, <1>9, <1>10 DEF added, n, tips

-----------------------------------------------------------------------------
\* g is h with e added after the tip of the current branch.
Longer(h, g, e) ==
    /\ WellFormed(h) /\ WellFormed(g) /\ Grows(h, g)
    /\ g.entries[Len(h.entries) + 1].type = e.type
    /\ g.entries[Len(h.entries) + 1].of = e.of
    /\ PathOf(g) = PathOf(h) \cup {Len(h.entries) + 1}

LEMMA AppendIsLonger ==
    ASSUME NEW h, WellFormed(h), NEW e, EntryOK(e),
           NEW g, g = AppendEntry(h, h.branch, e)
    PROVE  Longer(h, g, e)
<1> DEFINE n == Len(h.entries)
<1>1. /\ h.branch \in DOMAIN h.tips /\ TreeOK(h.entries)
      /\ h.tips[h.branch] \in 1..n /\ n \in Nat
      /\ h.tips \in [DOMAIN h.tips -> 1..n]
  BY DEF WellFormed, TreeOK
<1>2. /\ WellFormed(g) /\ Grows(h, g) /\ Len(g.entries) = n + 1
      /\ g.entries[n + 1] = [e EXCEPT !.parent = h.tips[h.branch]]
      /\ g.branch = h.branch /\ g.tips = [h.tips EXCEPT ![h.branch] = n + 1]
  BY <1>1, AppendIs
<1>3. g.entries[n + 1].type = e.type /\ g.entries[n + 1].of = e.of
      /\ g.entries[n + 1].parent = h.tips[h.branch]
  BY <1>2 DEF EntryOK, EntryRecords
<1>4. g.tips[g.branch] = n + 1
  BY <1>1, <1>2
<1>5. TreeOK(g.entries)
  BY <1>2 DEF WellFormed
<1>6. n + 1 \in 1..Len(g.entries)
  BY <1>1, <1>2
<1>7. PathTo(g, n + 1) = PathTo(g, g.entries[n + 1].parent) \cup {n + 1}
  BY <1>5, <1>6, TreeParents, PathToUnrolls
<1>8. h.tips[h.branch] \in 0..n
  BY <1>1
<1>9. PathTo(g, h.tips[h.branch]) = PathTo(h, h.tips[h.branch])
  BY <1>1, <1>2, <1>5, <1>8, GrowthKeepsPaths
<1>10. PathOf(g) = PathOf(h) \cup {n + 1}
  BY <1>3, <1>4, <1>7, <1>9 DEF PathOf
<1> QED BY <1>2, <1>3, <1>10 DEF Longer

\* An entry on another branch is not on the path.
LEMMA AppendBeside ==
    ASSUME NEW h, WellFormed(h), NEW b \in DOMAIN h.tips, b # h.branch, NEW e, EntryOK(e),
           NEW g, g = AppendEntry(h, b, e)
    PROVE  WellFormed(g)
  BY AppendIs

\* The newest entry of some kinds on the longer path.
LEMMA LastOfLonger ==
    ASSUME NEW h, NEW g, NEW e, Longer(h, g, e), NEW types, "agent" \in types
    PROVE  LET last == Max(OfType(g, PathOf(g), types))
           IN  IF e.type \in types
               THEN g.entries[last].of = e.of
               ELSE g.entries[last].of = h.entries[Max(OfType(h, PathOf(h), types))].of
<1> DEFINE n == Len(h.entries)
           old == OfType(h, PathOf(h), types)
           new == OfType(g, PathOf(g), types)
<1>1. n \in Nat /\ TreeOK(h.entries)
  BY DEF Longer, WellFormed, TreeOK
<1>2. PathOf(h) \subseteq 1..n /\ 1 \in PathOf(h)
  BY TextsOnPath DEF Longer
<1>3. \A i \in PathOf(h) : g.entries[i] = h.entries[i]
  BY <1>2 DEF Longer, Grows
<1>4. /\ PathOf(g) = PathOf(h) \cup {n + 1}
      /\ g.entries[n + 1].type = e.type /\ g.entries[n + 1].of = e.of
  BY DEF Longer
<1>5. old \in SUBSET (1..n) /\ old # {}
  <2>1. h.entries[1].type = "agent"
    BY <1>1 DEF TreeOK
  <2> QED BY <1>2, <2>1 DEF OfType
<1>6. CASE e.type \in types
  <2>1. new = old \cup {n + 1}
    BY <1>3, <1>4, <1>6 DEF OfType
  <2> HIDE DEF old, new, n
  <2>2. new \in SUBSET (1..(n+1)) /\ n + 1 \in new /\ \A y \in new : y <= n + 1
    BY <1>1, <1>5, <2>1
  <2>3. Max(new) = n + 1
    <3>1. n + 1 \in Nat
      BY <1>1
    <3> QED BY <2>2, <3>1, MaxIsThat
  <2> QED BY <1>4, <1>6, <2>3 DEF new
<1>7. CASE e.type \notin types
  <2>1. new = old
    BY <1>3, <1>4, <1>7 DEF OfType
  <2>2. old \subseteq PathOf(h)
    BY DEF OfType
  <2> HIDE DEF old, new
  <2>3. Max(old) \in old
    BY <1>1, <1>5, MaxIs
  <2>4. g.entries[Max(new)] = h.entries[Max(old)]
    BY <1>3, <2>1, <2>2, <2>3
  <2> QED BY <1>7, <2>4 DEF old, new
<1> QED BY <1>6, <1>7

LEMMA TextsOfLonger ==
    ASSUME NEW h, NEW g, NEW e, Longer(h, g, e)
    PROVE  /\ HeadText(g) = IF e.type \in Revisions THEN e.of ELSE HeadText(h)
           /\ AgentText(g) = IF e.type = "agent" THEN e.of ELSE AgentText(h)
<1>1. HeadText(g) = IF e.type \in Revisions THEN e.of ELSE HeadText(h)
  <2>1. "agent" \in Revisions
    BY DEF Revisions
  <2> QED BY <2>1, LastOfLonger DEF HeadText
<1>2. AgentText(g) = IF e.type \in {"agent"} THEN e.of ELSE AgentText(h)
  <2>1. "agent" \in {"agent"}
    OBVIOUS
  <2> QED BY <2>1, LastOfLonger DEF AgentText
<1> QED BY <1>1, <1>2

LEMMA OpenOnLonger ==
    ASSUME NEW h, NEW g, NEW e, Longer(h, g, e)
    PROVE  /\ e.type = "comment" => OpenOn(g, PathOf(g)) = OpenOn(h, PathOf(h)) \cup {e.of}
           /\ e.type \in Removals => OpenOn(g, PathOf(g)) = OpenOn(h, PathOf(h)) \ {e.of}
           /\ e.type \notin Removals \cup {"comment"} =>
                OpenOn(g, PathOf(g)) = OpenOn(h, PathOf(h))
<1> DEFINE n == Len(h.entries)
           P == PathOf(h)
           Q == PathOf(g)
           OpenAt(k, R, i) == /\ k.entries[i].type = "comment"
                              /\ \A j \in R : j > i /\ k.entries[j].type \in Removals =>
                                    k.entries[j].of # k.entries[i].of
<1>1. n \in Nat
  BY DEF Longer, WellFormed, TreeOK
<1>2. P \subseteq 1..n
  BY TextsOnPath DEF Longer
<1>3. \A i \in P : g.entries[i] = h.entries[i] /\ i < n + 1 /\ i # n + 1
  BY <1>1, <1>2 DEF Longer, Grows
<1>4. /\ Q = P \cup {n + 1}
      /\ g.entries[n + 1].type = e.type /\ g.entries[n + 1].of = e.of
  BY DEF Longer
<1>5. /\ OpenOn(h, P) = {h.entries[i].of : i \in {i \in P : OpenAt(h, P, i)}}
      /\ OpenOn(g, Q) = {g.entries[i].of : i \in {i \in Q : OpenAt(g, Q, i)}}
  BY DEF OpenOn
<1>6. ASSUME NEW i \in P
      PROVE  OpenAt(g, Q, i) <=> OpenAt(h, P, i) /\ (e.type \in Removals => e.of # h.entries[i].of)
  <2>1. ASSUME NEW j \in Q PROVE j \in P \/ j = n + 1
    BY <1>4
  <2> QED BY <1>3, <1>4, <2>1
<1>7. OpenAt(g, Q, n + 1) <=> e.type = "comment"
  <2>1. ASSUME NEW j \in Q PROVE ~(j > n + 1)
    <3>1. j = n + 1 \/ j \in 1..n
      BY <1>2, <1>4
    <3> QED BY <1>1, <3>1
  <2> QED BY <1>4, <2>1
<1> HIDE DEF OpenAt, P, Q, n
<1>8. CASE e.type = "comment"
  <2>1. e.type \notin Removals
    BY <1>8 DEF Removals
  <2>2. {i \in Q : OpenAt(g, Q, i)} = {i \in P : OpenAt(h, P, i)} \cup {n + 1}
    BY <1>4, <1>6, <1>7, <1>8, <2>1
  <2> DEFINE K == {i \in P : OpenAt(h, P, i)}
  <2>4. K \subseteq P /\ OpenOn(h, P) = {h.entries[i].of : i \in K}
        /\ OpenOn(g, Q) = {g.entries[i].of : i \in K \cup {n + 1}}
    BY <1>5, <2>2
  <2> HIDE DEF K
  <2>3. OpenOn(g, Q) = OpenOn(h, P) \cup {e.of}
    <3>1. \A i \in K : g.entries[i].of = h.entries[i].of
      BY <1>3, <2>4
    <3> QED BY <1>4, <2>4, <3>1
  <2> QED BY <1>8, <2>1, <2>3 DEF P, Q
<1>9. CASE e.type \in Removals
  <2>1. e.type # "comment"
    BY <1>9 DEF Removals
  <2>2. {i \in Q : OpenAt(g, Q, i)} = {i \in P : OpenAt(h, P, i) /\ e.of # h.entries[i].of}
    BY <1>4, <1>6, <1>7, <1>9, <2>1
  <2>3. OpenOn(g, Q) = OpenOn(h, P) \ {e.of}
    BY <1>3, <1>5, <2>2
  <2> QED BY <1>9, <2>1, <2>3 DEF P, Q
<1>10. CASE e.type \notin Removals \cup {"comment"}
  <2>2. {i \in Q : OpenAt(g, Q, i)} = {i \in P : OpenAt(h, P, i)}
    BY <1>4, <1>6, <1>7, <1>10
  <2>3. OpenOn(g, Q) = OpenOn(h, P)
    BY <1>3, <1>5, <2>2
  <2> QED BY <1>10, <2>3 DEF P, Q
<1> QED BY <1>8, <1>9, <1>10

-----------------------------------------------------------------------------
(* A moved tip, a branch switched or begun, a text replaced.               *)

LEMMA MovedIs ==
    ASSUME NEW h, WellFormed(h), NEW b \in DOMAIN h.tips, NEW i \in 1..Len(h.entries)
    PROVE  WellFormed([h EXCEPT !.tips[b] = i])
<1> DEFINE g == [h EXCEPT !.tips[b] = i]
<1>1. h = [entries |-> h.entries, tips |-> h.tips, branch |-> h.branch]
  BY DEF WellFormed
<1>2. g = [entries |-> h.entries, tips |-> [h.tips EXCEPT ![b] = i], branch |-> h.branch]
  BY <1>1
<1>3. [h.tips EXCEPT ![b] = i] \in [DOMAIN h.tips -> 1..Len(h.entries)]
  BY DEF WellFormed
<1> HIDE DEF g
<1>4. WellFormed(g)
  BY <1>2, <1>3 DEF WellFormed
<1> QED BY <1>4 DEF g

LEMMA SwitchedIs ==
    ASSUME NEW h, WellFormed(h), NEW b, HasBranch(h, b)
    PROVE  WellFormed(SwitchBranch(h, b))
<1> DEFINE g == SwitchBranch(h, b)
<1>1. h = [entries |-> h.entries, tips |-> h.tips, branch |-> h.branch]
  BY DEF WellFormed
<1>2. g = [entries |-> h.entries, tips |-> h.tips, branch |-> b]
  BY <1>1 DEF SwitchBranch
<1> HIDE DEF g
<1>3. WellFormed(g)
  BY <1>2 DEF WellFormed, HasBranch
<1> QED BY <1>3 DEF g

LEMMA CreatedIs ==
    ASSUME NEW h, WellFormed(h), NEW b
    PROVE  WellFormed(CreateBranch(h, b))
<1> DEFINE g == CreateBranch(h, b)
           tips == [n \in DOMAIN h.tips \cup {b} |-> IF n = b THEN h.tips[h.branch] ELSE h.tips[n]]
<1>1. h = [entries |-> h.entries, tips |-> h.tips, branch |-> h.branch]
  BY DEF WellFormed
<1>2. g = [entries |-> h.entries, tips |-> tips, branch |-> b]
  <2>1. g = [h EXCEPT !.tips = tips, !.branch = b]
    BY DEF CreateBranch
  <2> HIDE DEF tips, g
  <2> QED BY <1>1, <2>1
<1>3. tips \in [DOMAIN h.tips \cup {b} -> 1..Len(h.entries)]
  <2>1. h.tips[h.branch] \in 1..Len(h.entries) /\ \A n \in DOMAIN h.tips : h.tips[n] \in 1..Len(h.entries)
    BY DEF WellFormed
  <2> QED BY <2>1
<1>4. DOMAIN tips = DOMAIN h.tips \cup {b}
  OBVIOUS
<1> HIDE DEF g, tips
<1>5. WellFormed(g)
  BY <1>2, <1>3, <1>4 DEF WellFormed
<1> QED BY <1>5 DEF g

LEMMA NavigatedIs ==
    ASSUME NEW h, WellFormed(h), NEW target, CanNavigate(h, target), NEW s \in BOOLEAN
    PROVE  WellFormed(NavigateTo(h, target, s))
<1> DEFINE moved == [h EXCEPT !.tips[h.branch] = target]
           e == Entry("summary", target)
<1>1. h.branch \in DOMAIN h.tips /\ target \in 1..Len(h.entries) /\ Len(h.entries) \in Nat
  BY TextsOnPath DEF WellFormed, CanNavigate, TreeOK
<1>2. WellFormed(moved)
  BY <1>1, MovedIs
<1>3. moved.branch = h.branch
  BY DEF WellFormed
<1>4. EntryOK(e)
  BY <1>1 DEF Entry, EntryOK, EntryRecords, EntryTypes, Revisions
<1>5. NavigateTo(h, target, s) = IF s THEN AppendEntry(moved, h.branch, e) ELSE moved
  BY DEF NavigateTo
<1> HIDE DEF moved, e
<1>6. WellFormed(AppendEntry(moved, h.branch, e))
  <2>1. h.branch \in DOMAIN moved.tips
    BY <1>2, <1>3 DEF WellFormed
  <2> QED BY <1>2, <1>4, <2>1, AppendIs
<1> QED BY <1>2, <1>5, <1>6

\* g is h with another text of one of its agent revisions.
Recaptured(h, g, head, text) ==
    /\ head \in 1..Len(h.entries) /\ h.entries[head].type = "agent"
    /\ Len(g.entries) = Len(h.entries)
    /\ \A i \in 1..Len(h.entries) :
          /\ g.entries[i].parent = h.entries[i].parent
          /\ g.entries[i].type = h.entries[i].type
          /\ g.entries[i].of = IF i = head THEN text ELSE h.entries[i].of
    /\ g.tips = h.tips /\ g.branch = h.branch

LEMMA RecapturedIs ==
    ASSUME NEW h, WellFormed(h), NEW text \in Texts, NEW g, g = RecaptureMainHead(h, text)
    PROVE  /\ WellFormed(g)
           /\ Recaptured(h, g, Max(OfType(h, PathTo(h, h.tips[Main]), {"agent"})), text)
<1> DEFINE n == Len(h.entries)
           places == OfType(h, PathTo(h, h.tips[Main]), {"agent"})
           head == Max(places)
<1>1. /\ h = [entries |-> h.entries, tips |-> h.tips, branch |-> h.branch]
      /\ TreeOK(h.entries) /\ n \in Nat /\ h.tips[Main] \in 1..n
      /\ h.entries \in Seq(EntryRecords)
  BY DEF WellFormed, TreeOK
<1>2. PathTo(h, h.tips[Main]) \subseteq 1..n /\ 1 \in PathTo(h, h.tips[Main])
  BY <1>1, TipPaths
<1>3. places \in SUBSET (1..n) /\ places # {} /\ \A i \in places : h.entries[i].type = "agent"
  <2>1. h.entries[1].type = "agent"
    BY <1>1 DEF TreeOK
  <2> QED BY <1>2, <2>1 DEF OfType
<1> HIDE DEF places
<1>4. head \in places
  BY <1>1, <1>3, MaxIs
<1>5. head \in 1..n /\ h.entries[head].type = "agent"
  BY <1>3, <1>4
<1> DEFINE entries == [h.entries EXCEPT ![head].of = text]
<1>6. g = [entries |-> entries, tips |-> h.tips, branch |-> h.branch]
  BY <1>1 DEF RecaptureMainHead, places
<1> HIDE DEF head
<1>7. \A i \in 1..n : EntryOK(h.entries[i]) /\ h.entries[i] \in EntryRecords
  BY <1>1 DEF TreeOK, EntryOK
<1>8. DOMAIN h.entries = 1..n
  BY <1>1
<1>9. ASSUME NEW i \in 1..n
      PROVE  /\ entries[i].parent = h.entries[i].parent
             /\ entries[i].type = h.entries[i].type
             /\ entries[i].of = IF i = head THEN text ELSE h.entries[i].of
             /\ EntryOK(entries[i])
  <2>1. h.entries[i] \in EntryRecords /\ EntryOK(h.entries[i])
    BY <1>7
  <2>2. CASE i = head
    <3>1. entries[i] = [h.entries[i] EXCEPT !.of = text]
      BY <1>8, <2>2
    <3> HIDE DEF entries
    <3>2. entries[i].parent = h.entries[i].parent /\ entries[i].type = h.entries[i].type
          /\ entries[i].of = text /\ entries[i] \in EntryRecords
      BY <2>1, <3>1 DEF EntryRecords
    <3> QED BY <2>1, <2>2, <3>2 DEF EntryOK
  <2>3. CASE i # head
    <3>1. entries[i] = h.entries[i]
      BY <1>8, <2>3
    <3> HIDE DEF entries
    <3> QED BY <2>1, <2>3, <3>1
  <2> QED BY <2>2, <2>3
<1>10. entries \in Seq(EntryRecords) /\ Len(entries) = n
  <2>1. DOMAIN entries = 1..n
    BY <1>8
  <2>2. entries = [i \in 1..n |-> entries[i]]
    BY <2>1
  <2>3. \A i \in 1..n : entries[i] \in EntryRecords
    BY <1>9 DEF EntryOK
  <2> HIDE DEF entries, n
  <2>4. entries \in [1..n -> EntryRecords]
    BY <2>2, <2>3
  <2> QED BY <1>1, <2>4
<1> HIDE DEF entries
<1>11. TreeOK(entries)
  BY <1>1, <1>9, <1>10 DEF TreeOK
<1>12. WellFormed(g)
  BY <1>1, <1>6, <1>10, <1>11 DEF WellFormed
<1>13. Recaptured(h, g, head, text)
  BY <1>5, <1>6, <1>9, <1>10 DEF Recaptured
<1> QED BY <1>12, <1>13 DEF head, places

\* What is open does not change, and neither does which revision is where.
LEMMA RecapturedView ==
    ASSUME NEW h, WellFormed(h), NEW g, WellFormed(g), NEW text, NEW head,
           Recaptured(h, g, head, text)
    PROVE  /\ PathOf(g) = PathOf(h)
           /\ OpenOn(g, PathOf(g)) = OpenOn(h, PathOf(h))
           /\ \A types : OfType(g, PathOf(g), types) = OfType(h, PathOf(h), types)
<1> DEFINE P == PathOf(h)
<1>1. TreeOK(h.entries) /\ TreeOK(g.entries) /\ h.tips[h.branch] \in 1..Len(h.entries)
      /\ Len(h.entries) \in Nat
  BY DEF WellFormed, TreeOK
<1>2. ParentsFirst(h) /\ ParentsFirst(g)
  BY <1>1, TreeParents
<1>3. \A i \in 0..Len(h.entries) : PathTo(g, i) = PathTo(h, i)
  <2>1. Len(h.entries) <= Len(g.entries)
    BY <1>1 DEF Recaptured
  <2>2. \A i \in 1..Len(h.entries) : g.entries[i].parent = h.entries[i].parent
    BY DEF Recaptured
  <2> QED BY <1>2, <2>1, <2>2, PathsStay
<1>4. PathOf(g) = P
  BY <1>1, <1>3 DEF PathOf, Recaptured
<1>5. P \subseteq 1..Len(h.entries)
  BY TextsOnPath
<1>6. \A i \in P : /\ g.entries[i].type = h.entries[i].type
                   /\ h.entries[i].type # "agent" => g.entries[i].of = h.entries[i].of
  BY <1>5 DEF Recaptured
<1> HIDE DEF P
<1>7. \A types : OfType(g, P, types) = OfType(h, P, types)
  BY <1>6 DEF OfType
<1>8. OpenOn(g, P) = OpenOn(h, P)
  <2> DEFINE OpenAt(k, i) == /\ k.entries[i].type = "comment"
                             /\ \A j \in P : j > i /\ k.entries[j].type \in Removals =>
                                   k.entries[j].of # k.entries[i].of
  <2>1. /\ OpenOn(h, P) = {h.entries[i].of : i \in {i \in P : OpenAt(h, i)}}
        /\ OpenOn(g, P) = {g.entries[i].of : i \in {i \in P : OpenAt(g, i)}}
    BY DEF OpenOn
  <2>2. "agent" \notin Removals
    BY DEF Removals
  <2>3. \A i \in P : OpenAt(g, i) <=> OpenAt(h, i)
    BY <1>6, <2>2
  <2>4. \A i \in P : OpenAt(h, i) => g.entries[i].of = h.entries[i].of
    BY <1>6
  <2> HIDE DEF OpenAt
  <2>5. {i \in P : OpenAt(g, i)} = {i \in P : OpenAt(h, i)}
    BY <2>3
  <2> DEFINE K == {i \in P : OpenAt(h, i)}
  <2>6. \A i \in K : g.entries[i].of = h.entries[i].of
    BY <2>4
  <2>7. OpenOn(g, P) = {g.entries[i].of : i \in K} /\ OpenOn(h, P) = {h.entries[i].of : i \in K}
    BY <2>1, <2>5
  <2> HIDE DEF K
  <2> QED BY <2>6, <2>7
<1> QED BY <1>4, <1>7, <1>8 DEF P

\* Where the last revision is the agent's, it is also the agent's last.
LEMMA LastIsAgents ==
    ASSUME NEW h, WellFormed(h),
           h.entries[Max(OfType(h, PathOf(h), Revisions))].type # "reviewer"
    PROVE  Max(OfType(h, PathOf(h), {"agent"})) = Max(OfType(h, PathOf(h), Revisions))
<1> DEFINE revisions == OfType(h, PathOf(h), Revisions)
           agents == OfType(h, PathOf(h), {"agent"})
<1>1. PathOf(h) \subseteq 1..Len(h.entries) /\ 1 \in PathOf(h)
      /\ h.entries[1].type = "agent" /\ Len(h.entries) \in Nat
  BY TextsOnPath DEF WellFormed, TreeOK
<1>2. /\ agents \subseteq revisions /\ agents # {} /\ revisions \in SUBSET (1..Len(h.entries))
      /\ \A i \in revisions : h.entries[i].type # "reviewer" => i \in agents
  BY <1>1 DEF OfType, Revisions
<1>3. h.entries[Max(revisions)].type # "reviewer"
  OBVIOUS
<1> HIDE DEF revisions, agents
<1>4. Max(revisions) \in revisions /\ \A y \in revisions : y <= Max(revisions)
  <2>1. revisions # {}
    BY <1>2
  <2> QED BY <1>1, <1>2, <2>1, MaxIs
<1>5. Max(revisions) \in agents /\ \A y \in agents : y <= Max(revisions)
  BY <1>2, <1>3, <1>4
<1>6. Max(agents) = Max(revisions)
  <2>1. agents \in SUBSET (1..Len(h.entries))
    BY <1>2
  <2> HIDE DEF Max
  <2> QED BY <1>1, <1>5, <2>1, MaxIsThat
<1> QED BY <1>6 DEF revisions, agents

\* Where main's last agent revision is the head of the current path, both
\* texts of the path are the new one.
LEMMA RecapturedTexts ==
    ASSUME NEW h, WellFormed(h), NEW text \in Texts, h.branch = Main,
           h.entries[Max(OfType(h, PathOf(h), Revisions))].type # "reviewer"
    PROVE  /\ HeadText(RecaptureMainHead(h, text)) = text
           /\ AgentText(RecaptureMainHead(h, text)) = text
<1> DEFINE g == RecaptureMainHead(h, text)
           revisions == OfType(h, PathOf(h), Revisions)
           agents == OfType(h, PathOf(h), {"agent"})
           head == Max(agents)
<1>1. WellFormed(g) /\ Recaptured(h, g, head, text)
  BY RecapturedIs DEF PathOf
<1> HIDE DEF g
<1>2. \A types : OfType(g, PathOf(g), types) = OfType(h, PathOf(h), types)
  BY <1>1, RecapturedView
<1>3. g.entries[head].of = text
  BY <1>1 DEF Recaptured
<1>4. head = Max(revisions)
  BY LastIsAgents
<1> HIDE DEF revisions, agents
<1>5. HeadText(g) = text
  BY <1>2, <1>3, <1>4 DEF HeadText, revisions
<1>6. AgentText(g) = text
  BY <1>2, <1>3 DEF AgentText, agents
<1> QED BY <1>5, <1>6 DEF g

-----------------------------------------------------------------------------
(* The entries of a merge.                                                 *)

LEMMA ListIs ==
    ASSUME NEW S, IsFiniteSet(S)
    PROVE  SetToSeq(S) \in [1..Cardinality(S) -> S] /\ Cardinality(S) \in Nat
<1>1. \E f : f \in Bijection(1..Cardinality(S), S)
  <2>1. Cardinality(S) \in Nat
    BY FS_CardinalityType
  <2>2. ExistsBijection(1..Cardinality(S), S)
    BY FS_CardinalityType
  <2> QED BY <2>2 DEF ExistsBijection
<1>2. PICK f : f \in Bijection(1..Cardinality(S), S)
  BY <1>1
<1>3. f \in [1..Cardinality(S) -> S] /\ IsInjective(f)
  BY <1>2 DEF Bijection, Injection, IsInjective
<1> QED BY <1>3, FS_CardinalityType DEF SetToSeq

LEMMA MergedIs ==
    ASSUME NEW new \in SUBSET Comments, NEW gone \in SUBSET Comments,
           IsFiniteSet(new \cup gone), new \cup gone # {}
    PROVE  /\ MergedEntries(new, gone) \in Seq(EntryRecords)
           /\ Len(MergedEntries(new, gone)) >= 1
           /\ \A k \in 1..Len(MergedEntries(new, gone)) : EntryOK(MergedEntries(new, gone)[k])
<1> DEFINE N == {Entry("comment", c) : c \in new}
           G == {Entry("removed-there", c) : c \in gone}
           Added == {e \in EntryRecords : EntryOK(e)}
<1>1. IsFiniteSet(new) /\ IsFiniteSet(gone)
  BY FS_Subset
<1>2. IsFiniteSet(N)
  <2>1. [c \in new |-> Entry("comment", c)] \in Surjection(new, N)
    BY DEF Surjection
  <2> QED BY <1>1, <2>1, FS_Surjection
<1>3. IsFiniteSet(G)
  <2>1. [c \in gone |-> Entry("removed-there", c)] \in Surjection(gone, G)
    BY DEF Surjection
  <2> QED BY <1>1, <2>1, FS_Surjection
<1>4. N \subseteq Added /\ G \subseteq Added
  <2>1. ASSUME NEW c \in Comments
        PROVE  Entry("comment", c) \in Added /\ Entry("removed-there", c) \in Added
    BY DEF Entry, EntryOK, EntryRecords, EntryTypes, Revisions, Removals
  <2> QED BY <2>1
<1>5. N # {} \/ G # {}
  OBVIOUS
<1>6. MergedEntries(new, gone) = SetToSeq(N) \o SetToSeq(G)
  BY DEF MergedEntries
<1> HIDE DEF N, G, Added
<1> DEFINE ns == SetToSeq(N)
           gs == SetToSeq(G)
<1>7. /\ ns \in [1..Cardinality(N) -> N] /\ gs \in [1..Cardinality(G) -> G]
      /\ Cardinality(N) \in Nat /\ Cardinality(G) \in Nat
  BY <1>2, <1>3, ListIs
<1>8. Cardinality(N) # 0 \/ Cardinality(G) # 0
  BY <1>2, <1>3, <1>5, FS_EmptySet
<1> HIDE DEF ns, gs
<1>9. /\ ns \in Seq(Added) /\ Len(ns) = Cardinality(N)
      /\ gs \in Seq(Added) /\ Len(gs) = Cardinality(G)
  BY <1>4, <1>7
<1> DEFINE es == ns \o gs
<1>10. es \in Seq(Added) /\ Len(es) >= 1
  BY <1>7, <1>8, <1>9
<1> HIDE DEF es
<1>11. es \in Seq(EntryRecords) /\ \A k \in 1..Len(es) : es[k] \in Added
  <2>1. \A k \in 1..Len(es) : es[k] \in Added
    BY <1>10
  <2>2. Added \subseteq EntryRecords
    BY DEF Added
  <2> QED BY <1>10, <2>1, <2>2
<1>12. \A k \in 1..Len(es) : EntryOK(es[k])
  BY <1>11 DEF Added
<1> QED BY <1>6, <1>10, <1>11, <1>12 DEF es, ns, gs

LEMMA JoinIs ==
    ASSUME NEW S, NEW a \in Seq(S), NEW c \in Seq(S), NEW q, q = a \o c
    PROVE  /\ q \in Seq(S) /\ Len(q) = Len(a) + Len(c)
           /\ \A i \in 1..Len(a) : q[i] = a[i]
           /\ \A k \in 1..Len(c) : q[Len(a) + k] = c[k]
<1>1. q \in Seq(S)
  OBVIOUS
<1>2. Len(q) = Len(a) + Len(c)
  OBVIOUS
<1>3. \A i \in 1..Len(a) : q[i] = a[i]
  OBVIOUS
<1>4. ASSUME NEW k \in 1..Len(c) PROVE q[Len(a) + k] = c[k]
  <2>1. Len(a) \in Nat /\ Len(c) \in Nat
    OBVIOUS
  <2>2. Len(a) + k \in 1..(Len(a) + Len(c)) /\ Len(a) + k > Len(a) /\ Len(a) + k - Len(a) = k
    BY <2>1
  <2> QED BY <2>1, <2>2
<1> QED BY <1>1, <1>2, <1>3, <1>4

LEMMA AppendAllIs ==
    ASSUME NEW h, WellFormed(h), NEW b \in DOMAIN h.tips,
           NEW es \in Seq(EntryRecords), Len(es) >= 1, \A k \in 1..Len(es) : EntryOK(es[k])
    PROVE  WellFormed(AppendAll(h, b, es))
<1> DEFINE n == Len(h.entries)
           chained == [k \in 1..Len(es) |->
                         [es[k] EXCEPT !.parent = IF k = 1 THEN h.tips[b] ELSE n + k - 1]]
           entries == h.entries \o chained
           tips == [h.tips EXCEPT ![b] = n + Len(es)]
           g == AppendAll(h, b, es)
<1>1. /\ h = [entries |-> h.entries, tips |-> h.tips, branch |-> h.branch]
      /\ TreeOK(h.entries) /\ n \in Nat /\ n >= 1
      /\ h.entries \in Seq(EntryRecords)
      /\ h.tips \in [DOMAIN h.tips -> 1..n]
      /\ {Main, h.branch} \subseteq DOMAIN h.tips
  BY DEF WellFormed, TreeOK
<1>2. h.tips[b] \in 1..n
  BY <1>1
<1>3. DOMAIN es = 1..Len(es) /\ Len(es) \in Nat
  OBVIOUS
<1>4. g = [entries |-> entries, tips |-> tips, branch |-> h.branch]
  <2>1. g = [h EXCEPT !.entries = entries, !.tips[b] = n + Len(es)]
    BY <1>3 DEF AppendAll
  <2> HIDE DEF g, chained, n
  <2> QED BY <1>1, <2>1
<1> HIDE DEF n, g
<1>5. ASSUME NEW k \in 1..Len(es)
      PROVE  /\ chained[k].parent = IF k = 1 THEN h.tips[b] ELSE n + k - 1
             /\ chained[k] \in EntryRecords /\ EntryOK(chained[k])
  <2> DEFINE e == es[k]
             p == IF k = 1 THEN h.tips[b] ELSE n + k - 1
  <2>1. EntryOK(e) /\ e \in EntryRecords
    BY DEF EntryOK
  <2>2. chained[k] = [e EXCEPT !.parent = p]
    OBVIOUS
  <2>3. p \in Nat
    <3>1. k \in Nat /\ k >= 1
      BY <1>3
    <3> QED BY <1>1, <1>2, <3>1
  <2> HIDE DEF chained, e, p
  <2>4. chained[k].parent = p /\ chained[k].type = e.type /\ chained[k].of = e.of
        /\ chained[k] \in EntryRecords
    BY <2>1, <2>2, <2>3 DEF EntryRecords
  <2> QED BY <2>1, <2>4 DEF EntryOK, p
<1>6. chained \in Seq(EntryRecords) /\ Len(chained) = Len(es)
  <2>1. chained \in [1..Len(es) -> EntryRecords]
    BY <1>5
  <2> HIDE DEF chained
  <2> QED BY <1>3, <2>1
<1> HIDE DEF chained
<1>7. /\ entries \in Seq(EntryRecords) /\ Len(entries) = n + Len(es)
      /\ \A i \in 1..n : entries[i] = h.entries[i]
      /\ \A k \in 1..Len(es) : entries[n + k] = chained[k]
  <2>1. entries = h.entries \o chained
    OBVIOUS
  <2> HIDE DEF entries
  <2>2. h.entries \in Seq(EntryRecords) /\ chained \in Seq(EntryRecords)
    BY <1>1, <1>6
  <2>3. /\ entries \in Seq(EntryRecords) /\ Len(entries) = Len(h.entries) + Len(chained)
        /\ \A i \in 1..Len(h.entries) : entries[i] = h.entries[i]
        /\ \A k \in 1..Len(chained) : entries[Len(h.entries) + k] = chained[k]
    BY <2>1, <2>2, JoinIs
  <2>4. n = Len(h.entries) /\ Len(chained) = Len(es)
    BY <1>6 DEF n
  <2> QED BY <2>3, <2>4
<1>8. tips \in [DOMAIN h.tips -> 1..(n + Len(es))]
  <2>1. n + Len(es) \in 1..(n + Len(es)) /\ \A i \in 1..n : i \in 1..(n + Len(es))
    BY <1>1, <1>3
  <2> QED BY <1>1, <2>1
<1> HIDE DEF entries, tips
<1>9. TreeOK(entries)
  <2>1. ASSUME NEW i \in 1..(n + Len(es)), i \notin 1..n
        PROVE  \E k \in 1..Len(es) : i = n + k
    <3>1. i - n \in 1..Len(es) /\ i = n + (i - n)
      BY <1>1, <1>3, <2>1
    <3> QED BY <3>1
  <2>2. ASSUME NEW i \in 2..(n + Len(es)) PROVE entries[i].parent \in 1..(i-1)
    <3>1. CASE i \in 1..n
      <4>1. i \in 2..n
        BY <1>1, <3>1
      <4> QED BY <1>1, <1>7, <3>1, <4>1 DEF TreeOK, n
    <3>2. CASE i \notin 1..n
      <4>1. PICK k \in 1..Len(es) : i = n + k
        BY <1>1, <1>3, <2>1, <3>2
      <4>2. entries[i].parent = IF k = 1 THEN h.tips[b] ELSE n + k - 1
        BY <1>5, <1>7, <4>1
      <4>3. k \in Nat /\ k >= 1
        BY <1>3
      <4> QED BY <1>1, <1>2, <4>1, <4>2, <4>3
    <3> QED BY <3>1, <3>2
  <2>3. ASSUME NEW i \in 1..(n + Len(es)) PROVE EntryOK(entries[i])
    <3>1. CASE i \in 1..n
      BY <1>1, <1>7, <3>1 DEF TreeOK, n
    <3>2. CASE i \notin 1..n
      <4>1. PICK k \in 1..Len(es) : i = n + k
        BY <2>1, <3>2
      <4> QED BY <1>5, <1>7, <4>1
    <3> QED BY <3>1, <3>2
  <2>4. entries[1].parent = 0 /\ entries[1].type = "agent"
    <3>1. 1 \in 1..n
      BY <1>1
    <3> QED BY <1>1, <1>7, <3>1 DEF TreeOK
  <2>5. Len(entries) >= 1
    BY <1>1, <1>3, <1>7
  <2> QED BY <1>7, <2>2, <2>3, <2>4, <2>5 DEF TreeOK
<1>10. DOMAIN tips = DOMAIN h.tips
  BY DEF tips
<1>11. WellFormed(g)
  BY <1>1, <1>4, <1>7, <1>8, <1>9, <1>10 DEF WellFormed
<1> QED BY <1>11 DEF g

-----------------------------------------------------------------------------
(* The fork.                                                               *)

\* How many of the places kept are among the first m.
Rank(kept, m) == Cardinality(kept \cap (1..m))

LEMMA RankSteps ==
    ASSUME NEW n \in Nat, NEW kept \in SUBSET (1..n), NEW m \in Nat
    PROVE  /\ Rank(kept, m) \in Nat /\ Rank(kept, 0) = 0
           /\ m + 1 \in kept => Rank(kept, m + 1) = Rank(kept, m) + 1
           /\ m + 1 \notin kept => Rank(kept, m + 1) = Rank(kept, m)
<1> DEFINE upTo == kept \cap (1..m)
<1>1. IsFiniteSet(upTo)
  <2>1. IsFiniteSet(1..m)
    BY FS_Interval
  <2> QED BY <2>1, FS_Subset
<1>2. Cardinality(upTo) \in Nat
  BY <1>1, FS_CardinalityType
<1>3. kept \cap (1..0) = {}
  OBVIOUS
<1>4. 1..(m+1) = (1..m) \cup {m + 1} /\ m + 1 \notin 1..m
  OBVIOUS
<1>5. m + 1 \notin upTo
  BY <1>4
<1>6. ASSUME m + 1 \in kept PROVE kept \cap (1..(m+1)) = upTo \cup {m + 1}
  BY <1>4, <1>6
<1>7. ASSUME m + 1 \notin kept PROVE kept \cap (1..(m+1)) = upTo
  BY <1>4, <1>7
<1>8. Cardinality(upTo \cup {m + 1}) = Cardinality(upTo) + 1
  <2> HIDE DEF upTo
  <2> QED BY <1>1, <1>5, FS_AddElement
<1>9. Rank(kept, 0) = 0
  BY <1>3, FS_EmptySet DEF Rank
<1> QED BY <1>2, <1>6, <1>7, <1>8, <1>9 DEF Rank

\* There is a k-th place for every k up to their number.
LEMMA NthIs ==
    ASSUME NEW n \in Nat, NEW kept \in SUBSET (1..n), NEW k \in 1..Cardinality(kept)
    PROVE  Nth(kept, k) \in kept /\ Rank(kept, Nth(kept, k)) = k
<1> DEFINE late == {m \in 0..n : Rank(kept, m) >= k}
<1>1. kept \cap (1..n) = kept
  OBVIOUS
<1>2. \A m \in Nat : Rank(kept, m) \in Nat
  BY RankSteps
<1>3. Rank(kept, n) = Cardinality(kept) /\ Rank(kept, 0) = 0
  BY <1>1, RankSteps DEF Rank
<1>4. k \in Nat /\ k >= 1 /\ k <= Cardinality(kept)
  BY <1>2, <1>3
<1>5. n \in late /\ late \in SUBSET Nat
  BY <1>2, <1>3, <1>4
<1>6. PICK m \in late : \A j \in late : m <= j
  <2> HIDE DEF late
  <2> QED BY <1>5, SmallestExists
<1>7. m \in 0..n /\ Rank(kept, m) >= k
  OBVIOUS
<1>8. m # 0
  BY <1>3, <1>4, <1>7
<1>9. m - 1 \in 0..n /\ m - 1 \notin late
  BY <1>6, <1>7, <1>8
<1> DEFINE j == m - 1
<1>10. j \in Nat /\ j + 1 = m
  BY <1>7, <1>8
<1>11. Rank(kept, j) \in Nat /\ Rank(kept, j) < k
  BY <1>2, <1>4, <1>9, <1>10
<1> HIDE DEF j, late
<1>12. /\ j + 1 \in kept => Rank(kept, j + 1) = Rank(kept, j) + 1
       /\ j + 1 \notin kept => Rank(kept, j + 1) = Rank(kept, j)
  BY <1>10, RankSteps
<1>13. m \in kept /\ Rank(kept, m) = k
  BY <1>4, <1>7, <1>10, <1>11, <1>12
<1> QED BY <1>13 DEF Nth, Rank

LEMMA FirstIsRoot ==
    ASSUME NEW n \in Nat, NEW kept \in SUBSET (1..n), 1 \in kept
    PROVE  Cardinality(kept) \in Nat \ {0} /\ Nth(kept, 1) = 1
<1>1. IsFiniteSet(kept)
  <2>1. IsFiniteSet(1..n)
    BY FS_Interval
  <2> QED BY <2>1, FS_Subset
<1>2. Cardinality(kept) \in Nat \ {0}
  BY <1>1, FS_CardinalityType, FS_EmptySet
<1>3. 1 \in 1..Cardinality(kept)
  BY <1>2
<1> DEFINE i == Nth(kept, 1)
<1>4. i \in kept /\ Rank(kept, i) = 1
  BY <1>3, NthIs
<1>5. i \in 1..n
  BY <1>4
<1> HIDE DEF i
<1>6. kept \cap (1..i) = {i}
  <2> DEFINE S == kept \cap (1..i)
  <2>1. 1 \in S /\ i \in S
    BY <1>4, <1>5
  <2>2. IsFiniteSet(S) /\ Cardinality(S) = 1
    BY <1>1, <1>4, FS_Subset DEF Rank
  <2> HIDE DEF S
  <2>3. PICK x : S = {x}
    BY <2>2, FS_Singleton
  <2> QED BY <2>1, <2>3 DEF S
<1>7. 1 \in kept \cap (1..i)
  BY <1>5
<1> QED BY <1>2, <1>6, <1>7 DEF i

\* The copy is a tree of its own, and its head is the agent's.
LEMMA ForkIs ==
    ASSUME NEW h, WellFormed(h), NEW g, g = ForkHistory(h)
    PROVE  WellFormed(g) /\ HeadText(g) = AgentText(g)
<1> DEFINE n == Len(h.entries)
           kept == {i \in PathOf(h) : h.entries[i].type \notin {"message", "reviewer"}}
           size == Cardinality(kept)
           entries == [k \in 1..size |-> [h.entries[Nth(kept, k)] EXCEPT !.parent = k - 1]]
           tips == [b \in {Main} |-> size]
<1>1. n \in Nat /\ TreeOK(h.entries) /\ \A i \in 1..n : EntryOK(h.entries[i])
  BY DEF WellFormed, TreeOK
<1>2. PathOf(h) \subseteq 1..n /\ 1 \in PathOf(h)
  BY TextsOnPath
<1>3. h.entries[1].type = "agent"
  BY <1>1 DEF TreeOK
<1>4. kept \in SUBSET (1..n) /\ 1 \in kept /\ \A i \in kept : h.entries[i].type # "reviewer"
  BY <1>2, <1>3
<1>5. g = [entries |-> entries, tips |-> tips, branch |-> Main]
  BY DEF ForkHistory, Rechained
<1> HIDE DEF kept, n
<1>6. size \in Nat \ {0} /\ Nth(kept, 1) = 1 /\ \A k \in 1..size : Nth(kept, k) \in kept
  BY <1>1, <1>4, FirstIsRoot, NthIs
<1> HIDE DEF size
<1>7. ASSUME NEW k \in 1..size
      PROVE  /\ entries[k].parent = k - 1
             /\ entries[k].type = h.entries[Nth(kept, k)].type
             /\ entries[k].type # "reviewer"
             /\ EntryOK(entries[k]) /\ entries[k] \in EntryRecords
  <2> DEFINE e == h.entries[Nth(kept, k)]
  <2>1. Nth(kept, k) \in 1..n /\ e.type # "reviewer"
    BY <1>4, <1>6
  <2>2. EntryOK(e) /\ e \in EntryRecords
    BY <1>1, <2>1 DEF EntryOK
  <2>3. k - 1 \in Nat
    BY <1>6
  <2>4. entries[k] = [e EXCEPT !.parent = k - 1]
    OBVIOUS
  <2> HIDE DEF e, entries
  <2>5. /\ entries[k].parent = k - 1 /\ entries[k].type = e.type /\ entries[k].of = e.of
        /\ entries[k] \in EntryRecords
    BY <2>2, <2>3, <2>4 DEF EntryRecords
  <2> QED BY <2>1, <2>2, <2>5 DEF EntryOK, e
<1>8. entries \in Seq(EntryRecords) /\ Len(entries) = size
  <2>1. entries \in [1..size -> EntryRecords]
    BY <1>7
  <2> HIDE DEF entries
  <2> QED BY <1>6, <2>1
<1>9. tips \in [DOMAIN tips -> 1..size] /\ Main \in DOMAIN tips
  BY <1>6
<1> HIDE DEF entries, tips
<1>10. TreeOK(entries)
  <2>1. 1 \in 1..size /\ Len(entries) >= 1
    BY <1>6, <1>8
  <2>2. entries[1].parent = 0 /\ entries[1].type = "agent"
    BY <1>3, <1>6, <1>7, <2>1
  <2>3. ASSUME NEW i \in 2..size PROVE entries[i].parent \in 1..(i-1)
    <3>1. i \in 1..size
      BY <1>6
    <3>2. entries[i].parent = i - 1
      BY <1>7, <3>1
    <3> QED BY <1>6, <3>2
  <2> QED BY <1>7, <1>8, <2>1, <2>2, <2>3 DEF TreeOK
<1>11. WellFormed(g)
  BY <1>5, <1>8, <1>9, <1>10 DEF WellFormed
<1>12. OfType(g, PathOf(g), Revisions) = OfType(g, PathOf(g), {"agent"})
  <2>1. PathOf(g) \subseteq 1..size
    BY <1>5, <1>8, <1>11, TextsOnPath
  <2>2. \A i \in PathOf(g) : g.entries[i].type # "reviewer"
    BY <1>5, <1>7, <2>1
  <2> QED BY <2>2 DEF OfType, Revisions
<1> QED BY <1>11, <1>12 DEF HeadText, AgentText

-----------------------------------------------------------------------------
-----------------------------------------------------------------------------
(* What the record shows, put as what its path says.                       *)
FitsPath ==
    /\ content = AgentText(history)
    /\ Shown = HeadText(history)
    /\ DOMAIN shown = OpenOn(history, PathOf(history)) \cap (DOMAIN shown \cup DOMAIN shelved)

PathInv ==
    /\ WellFormed(history)
    /\ content \in Texts
    /\ workingCopy \in Texts \cup {NoText}
    /\ beside \in BOOLEAN
    /\ ~beside => FitsPath /\ workingCopy # content

LEMMA ViewIs ==
    ASSUME NEW h, NEW known
    PROVE  /\ ViewOfPath(h, known).content = AgentText(h)
           /\ ViewOfPath(h, known).text = HeadText(h)
           /\ DOMAIN ViewOfPath(h, known).shown = OpenOn(h, PathOf(h)) \cap DOMAIN known
           /\ DOMAIN ViewOfPath(h, known).shelved = DOMAIN known \ OpenOn(h, PathOf(h))
<1> DEFINE open == OpenOn(h, PathOf(h)) \cap DOMAIN known
           on   == [c \in open |-> known[c]]
           off  == [c \in DOMAIN known \ open |-> known[c]]
<1>1. ViewOfPath(h, known) = [content |-> AgentText(h), text |-> HeadText(h),
                              shown |-> on, shelved |-> off]
  BY DEF ViewOfPath
<1>2. DOMAIN on = open /\ DOMAIN off = DOMAIN known \ open
  OBVIOUS
<1> HIDE DEF on, off
<1> QED BY <1>1, <1>2

LEMMA ShowsWhatFits == FitsPath => ShowsPath
<1> DEFINE known == KnownComments(shown, shelved)
           view  == ViewOfPath(history, known)
<1>1. DOMAIN known = DOMAIN shown \cup DOMAIN shelved
  BY DEF KnownComments
<1>2. ShowsPath <=> content = view.content /\ Shown = view.text /\ DOMAIN shown = DOMAIN view.shown
  BY DEF ShowsPath
<1>3. /\ view.content = AgentText(history) /\ view.text = HeadText(history)
      /\ DOMAIN view.shown = OpenOn(history, PathOf(history)) \cap DOMAIN known
  BY ViewIs
<1> HIDE DEF known, view
<1> QED BY <1>1, <1>2, <1>3 DEF FitsPath

LEMMA EntriesOK ==
    /\ \A c \in Comments : EntryOK(Entry("comment", c)) /\ EntryOK(Entry("removed", c))
    /\ \A t \in Texts : EntryOK(Entry("reviewer", t)) /\ EntryOK(Entry("agent", t))
    /\ EntryOK(Entry("message", NoText))
  BY DEF Entry, EntryOK, EntryRecords, EntryTypes, Revisions, Removals

LEMMA EntryIs ==
    ASSUME NEW type, NEW of
    PROVE  Entry(type, of).type = type /\ Entry(type, of).of = of
  BY DEF Entry

(* A record folded from any well-formed tree fits its path.                *)
LEMMA FoldFits ==
    ASSUME NEW h, WellFormed(h), NEW on, RefreshView(h, on)
    PROVE  PathInv'
<1> DEFINE known == KnownComments(on, shelved)
           view  == ViewOfPath(h, known)
           open  == OpenOn(h, PathOf(h))
<1>1. /\ history' = h /\ content' = view.content
      /\ workingCopy' = IF view.text = view.content THEN NoText ELSE view.text
      /\ shown' = view.shown /\ shelved' = view.shelved /\ beside' = FALSE
  BY DEF RefreshView
<1>2. /\ view.content = AgentText(h) /\ view.text = HeadText(h)
      /\ DOMAIN view.shown = open \cap DOMAIN known
      /\ DOMAIN view.shelved = DOMAIN known \ open
  BY ViewIs
<1>3. AgentText(h) \in Texts /\ HeadText(h) \in Texts
  BY TextsOnPath
<1> HIDE DEF known, view
<1>4. NoText \notin Texts
  BY RecordAssumption
<1>5. Shown' = HeadText(h) /\ workingCopy' # content' /\ workingCopy' \in Texts \cup {NoText}
  BY <1>1, <1>2, <1>3, <1>4 DEF Shown
<1>6. DOMAIN shown' = open \cap (DOMAIN shown' \cup DOMAIN shelved')
  BY <1>1, <1>2
<1>7. FitsPath'
  BY <1>1, <1>2, <1>5, <1>6 DEF FitsPath
<1> QED BY <1>1, <1>2, <1>3, <1>5, <1>7 DEF PathInv

-----------------------------------------------------------------------------
LEMMA PathInitHolds == RecordInit => PathInv
<1> SUFFICES ASSUME RecordInit PROVE PathInv
  OBVIOUS
<1>1. /\ content \in Texts
      /\ history = [entries |-> <<Entry("agent", content)>>,
                    tips |-> [b \in {Main} |-> 1], branch |-> Main]
      /\ workingCopy = NoText /\ shown = <<>> /\ shelved = <<>> /\ beside = FALSE
  BY RecordAssumption DEF RecordInit
<1> DEFINE root == Entry("agent", content)
           tips == [b \in {Main} |-> 1]
<1>2. root.parent = 0 /\ root.type = "agent" /\ root.of = content
  BY DEF Entry
<1>3. EntryOK(root) /\ root \in EntryRecords
  BY <1>1, EntriesOK DEF EntryOK
<1> HIDE DEF root
<1>4. /\ history.entries = <<root>> /\ history.tips = tips /\ history.branch = Main
      /\ history = [entries |-> history.entries, tips |-> history.tips, branch |-> history.branch]
  BY <1>1 DEF root
<1>5. /\ history.entries \in Seq(EntryRecords) /\ Len(history.entries) = 1
      /\ history.entries[1] = root
  BY <1>3, <1>4
<1>6. TreeOK(history.entries)
  BY <1>2, <1>3, <1>5 DEF TreeOK
<1>7. tips \in [DOMAIN tips -> 1..1] /\ DOMAIN tips = {Main}
  OBVIOUS
<1> HIDE DEF tips
<1>8. WellFormed(history)
  BY <1>4, <1>5, <1>6, <1>7 DEF WellFormed
<1>9. PathOf(history) = {1}
  <2>1. PathOf(history) \subseteq 1..1 /\ 1 \in PathOf(history)
    BY <1>5, <1>8, TextsOnPath
  <2> QED BY <2>1
<1>10. \A types : "agent" \in types => OfType(history, PathOf(history), types) = {1}
  BY <1>2, <1>5, <1>9 DEF OfType
<1>11. Max({1}) = 1
  BY MaxIsThat
<1>12. HeadText(history) = content /\ AgentText(history) = content
  BY <1>2, <1>5, <1>10, <1>11 DEF HeadText, AgentText, Revisions
<1>13. FitsPath
  BY <1>1, <1>12, EmptyDomain DEF FitsPath, Shown
<1>14. workingCopy # content
  BY <1>1, RecordAssumption
<1> QED BY <1>1, <1>8, <1>13, <1>14 DEF PathInv

-----------------------------------------------------------------------------
(* The handlers that change the record by hand.                            *)

LEMMA RecordedIs ==
    ASSUME PathInv, NEW e, EntryOK(e), RecordEntry(e)
    PROVE  Longer(history, history', e) /\ WellFormed(history')
  BY AppendIsLonger DEF Longer, PathInv, RecordEntry

\* A comment, new or come back.
LEMMA CommentFits ==
    ASSUME PathInv, NEW c \in Comments, NEW x, RecordEntry(Entry("comment", c)),
           shown' = With(shown, c, x),
           UNCHANGED <<content, workingCopy, shelved, beside>>
    PROVE  PathInv'
<1> DEFINE e == Entry("comment", c)
<1>1. EntryOK(e) /\ e.type = "comment" /\ e.of = c
  BY EntriesOK, EntryIs
<1>2. Longer(history, history', e) /\ WellFormed(history')
  BY <1>1, RecordedIs
<1> HIDE DEF e
<1>3. HeadText(history') = HeadText(history) /\ AgentText(history') = AgentText(history)
  BY <1>1, <1>2, TextsOfLonger DEF Revisions
<1>4. OpenOn(history', PathOf(history')) = OpenOn(history, PathOf(history)) \cup {c}
  BY <1>1, <1>2, OpenOnLonger
<1>5. DOMAIN shown' = DOMAIN shown \cup {c}
  BY DEF With
<1>6. FitsPath => FitsPath'
  BY <1>3, <1>4, <1>5 DEF FitsPath, Shown
<1> QED BY <1>2, <1>6 DEF PathInv

LEMMA RemovalFits ==
    ASSUME PathInv, NEW c \in Comments, RemoveComment(c)
    PROVE  PathInv'
<1> DEFINE e == Entry("removed", c)
<1>1. EntryOK(e) /\ e.type = "removed" /\ e.of = c
  BY EntriesOK, EntryIs
<1>0. /\ RecordEntry(e) /\ c \in DOMAIN shown
      /\ shown' = Without(shown, c) /\ shelved' = With(shelved, c, shown[c])
      /\ UNCHANGED <<content, workingCopy, beside>>
  BY DEF RemoveComment
<1>2. Longer(history, history', e) /\ WellFormed(history')
  BY <1>0, <1>1, RecordedIs
<1> HIDE DEF e
<1>3. HeadText(history') = HeadText(history) /\ AgentText(history') = AgentText(history)
  BY <1>1, <1>2, TextsOfLonger DEF Revisions
<1>4. OpenOn(history', PathOf(history')) = OpenOn(history, PathOf(history)) \ {c}
  BY <1>1, <1>2, OpenOnLonger DEF Removals
<1>5. DOMAIN shown' = DOMAIN shown \ {c} /\ DOMAIN shelved' = DOMAIN shelved \cup {c}
  BY <1>0 DEF With, Without
<1>6. FitsPath => FitsPath'
  BY <1>0, <1>3, <1>4, <1>5 DEF FitsPath, Shown
<1> QED BY <1>0, <1>2, <1>6 DEF PathInv

\* The text of a comment that is shown.
LEMMA NewTextFits ==
    ASSUME PathInv, NEW c \in DOMAIN shown, NEW x, shown' = With(shown, c, x),
           UNCHANGED <<history, content, workingCopy, shelved, beside>>
    PROVE  PathInv'
<1>1. DOMAIN shown' = DOMAIN shown
  BY DEF With
<1>2. FitsPath => FitsPath'
  BY <1>1 DEF FitsPath, Shown
<1> QED BY <1>2 DEF PathInv

LEMMA EditFits ==
    ASSUME PathInv, NEW c \in Comments, EditComment(c)
    PROVE  PathInv'
<1>1. /\ \E x : shown' = With(shown, c, x)
      /\ IF c \in DOMAIN shown THEN history' = history ELSE RecordEntry(Entry("comment", c))
      /\ UNCHANGED <<content, workingCopy, shelved, beside>>
  BY DEF EditComment
<1> QED BY <1>1, CommentFits, NewTextFits

LEMMA ReviewerFits ==
    ASSUME PathInv, NEW text \in Texts, ApplyWorkingCopy(text),
           UNCHANGED <<content, shown, shelved, beside>>
    PROVE  PathInv'
<1>0. NoText \notin Texts
  BY RecordAssumption
<1>1. /\ workingCopy' = IF text = content THEN NoText ELSE text
      /\ IF text = Shown THEN history' = history ELSE RecordEntry(Entry("reviewer", text))
  BY DEF ApplyWorkingCopy
<1>2. Shown' = text /\ workingCopy' # content' /\ workingCopy' \in Texts \cup {NoText}
  BY <1>0, <1>1 DEF Shown, PathInv
<1>3. CASE text = Shown
  <2>1. FitsPath => FitsPath'
    BY <1>1, <1>2, <1>3 DEF FitsPath
  <2> QED BY <1>1, <1>2, <1>3, <2>1 DEF PathInv
<1>4. CASE text # Shown
  <2> DEFINE e == Entry("reviewer", text)
  <2>1. EntryOK(e) /\ e.type = "reviewer" /\ e.of = text
    BY EntriesOK, EntryIs
  <2>2. Longer(history, history', e) /\ WellFormed(history')
    BY <1>1, <1>4, <2>1, RecordedIs
  <2> HIDE DEF e
  <2>3. HeadText(history') = text /\ AgentText(history') = AgentText(history)
    BY <2>1, <2>2, TextsOfLonger DEF Revisions
  <2>4. OpenOn(history', PathOf(history')) = OpenOn(history, PathOf(history))
    BY <2>1, <2>2, OpenOnLonger DEF Removals
  <2>5. FitsPath => FitsPath'
    BY <1>2, <2>3, <2>4 DEF FitsPath
  <2> QED BY <1>2, <2>2, <2>5 DEF PathInv
<1> QED BY <1>3, <1>4

LEMMA MessageFits ==
    ASSUME PathInv, NEW r, SendMessageEntry(r)
    PROVE  PathInv'
<1> DEFINE e == Entry("message", NoText)
<1>1. EntryOK(e) /\ e.type = "message"
  BY EntriesOK, EntryIs
<1>0. RecordEntry(e) /\ UNCHANGED <<content, workingCopy, shown, shelved, beside>>
  BY DEF SendMessageEntry, viewVars
<1>2. Longer(history, history', e) /\ WellFormed(history')
  BY <1>0, <1>1, RecordedIs
<1> HIDE DEF e
<1>3. HeadText(history') = HeadText(history) /\ AgentText(history') = AgentText(history)
  BY <1>1, <1>2, TextsOfLonger DEF Revisions
<1>4. OpenOn(history', PathOf(history')) = OpenOn(history, PathOf(history))
  BY <1>1, <1>2, OpenOnLonger DEF Removals
<1>5. FitsPath => FitsPath'
  BY <1>0, <1>3, <1>4 DEF FitsPath, Shown
<1> QED BY <1>0, <1>2, <1>5 DEF PathInv

\* A revision on main, which takes the reviewer's text away or finds none.
LEMMA RevisionFits ==
    ASSUME PathInv, NEW text \in Texts,
           history' = AppendEntry(history, Main, Entry("agent", text)),
           content' = text, workingCopy' \in {NoText, workingCopy},
           beside' \in BOOLEAN,
           ~beside' => ~beside /\ history.branch = Main /\ workingCopy' = NoText,
           UNCHANGED <<shown, shelved>>
    PROVE  PathInv'
<1> DEFINE e == Entry("agent", text)
<1>1. EntryOK(e) /\ e.type = "agent" /\ e.of = text
  BY EntriesOK, EntryIs
<1>2. WellFormed(history) /\ Main \in DOMAIN history.tips
  BY DEF PathInv, WellFormed
<1> HIDE DEF e
<1>3. WellFormed(history')
  <2>1. history' = AppendEntry(history, Main, e)
    BY DEF e
  <2> QED BY <1>1, <1>2, <2>1, AppendIs
<1>4. ASSUME ~beside' PROVE FitsPath' /\ workingCopy' # content'
  <2>1. history' = AppendEntry(history, history.branch, e)
    BY <1>4 DEF e
  <2>2. Longer(history, history', e)
    BY <1>1, <1>2, <2>1, AppendIsLonger
  <2>3. HeadText(history') = text /\ AgentText(history') = text
    BY <1>1, <2>2, TextsOfLonger DEF Revisions
  <2>4. OpenOn(history', PathOf(history')) = OpenOn(history, PathOf(history))
    BY <1>1, <2>2, OpenOnLonger DEF Removals
  <2>5. FitsPath
    BY <1>4 DEF PathInv
  <2>6. workingCopy' # content'
    BY <1>4, RecordAssumption
  <2> QED BY <1>4, <2>3, <2>4, <2>5, <2>6 DEF FitsPath, Shown
<1> QED BY <1>3, <1>4 DEF PathInv

LEMMA SubmitFits ==
    ASSUME PathInv, NEW text \in Texts, SubmitText(text)
    PROVE  PathInv'
<1>1. /\ history' = AppendEntry(history, Main, Entry("agent", text))
      /\ content' = text /\ workingCopy' = NoText
      /\ beside' = (beside \/ history.branch # Main)
      /\ UNCHANGED <<shown, shelved>>
  BY DEF SubmitText
<1>2. beside' \in BOOLEAN /\ (~beside' => ~beside /\ history.branch = Main)
  BY <1>1
<1> QED BY <1>1, <1>2, RevisionFits

LEMMA CaptureFits ==
    ASSUME PathInv, NEW text \in Texts, ReviseByCapture(text)
    PROVE  PathInv'
<1>1. /\ history' = AppendEntry(history, Main, Entry("agent", text))
      /\ content' = text /\ workingCopy' = workingCopy
      /\ beside' = (beside \/ history.branch # Main \/ workingCopy # NoText)
      /\ UNCHANGED <<shown, shelved>>
  BY DEF ReviseByCapture
<1>2. beside' \in BOOLEAN /\ (~beside' => ~beside /\ history.branch = Main /\ workingCopy = NoText)
  BY <1>1
<1> QED BY <1>1, <1>2, RevisionFits

LEMMA RecaptureFits ==
    ASSUME PathInv, NEW text \in Texts, RecaptureTree(text)
    PROVE  PathInv'
<1>1. /\ text # content /\ history' = RecaptureMainHead(history, text)
      /\ content' = text
      /\ beside' = (beside \/ history.branch # Main \/ Edited)
      /\ UNCHANGED <<workingCopy, shown, shelved>>
  BY DEF RecaptureTree
<1>2. beside' \in BOOLEAN /\ (~beside' => ~beside /\ history.branch = Main /\ ~Edited)
  BY <1>1
<1>3. WellFormed(history)
  BY DEF PathInv
<1> DEFINE head == Max(OfType(history, PathTo(history, history.tips[Main]), {"agent"}))
<1>4. WellFormed(history') /\ Recaptured(history, history', head, text)
  BY <1>1, <1>3, RecapturedIs
<1> HIDE DEF head
<1>5. OpenOn(history', PathOf(history')) = OpenOn(history, PathOf(history))
  BY <1>3, <1>4, RecapturedView
<1>6. ASSUME ~beside' PROVE FitsPath' /\ workingCopy' # content'
  <2>1. history.entries[Max(OfType(history, PathOf(history), Revisions))].type # "reviewer"
    BY <1>2, <1>6 DEF Edited
  <2>2. HeadText(history') = text /\ AgentText(history') = text
    BY <1>1, <1>2, <1>3, <1>6, <2>1, RecapturedTexts
  <2>3. FitsPath /\ workingCopy # content
    BY <1>2, <1>6 DEF PathInv
  <2>4. HeadText(history) = AgentText(history)
    BY <1>3, <2>1, LastIsAgents DEF HeadText, AgentText
  <2>5. workingCopy = NoText
    BY <2>3, <2>4 DEF FitsPath, Shown
  <2>6. workingCopy' # content'
    BY <1>1, <2>5, RecordAssumption
  <2> QED BY <1>1, <1>5, <2>2, <2>3, <2>5, <2>6 DEF FitsPath, Shown
<1> QED BY <1>1, <1>2, <1>4, <1>6 DEF PathInv

-----------------------------------------------------------------------------
LEMMA MergeFits ==
    ASSUME PathInv, NEW notes \in SUBSET Comments, NEW removals \in SUBSET Comments,
           MergeShared(notes, removals)
    PROVE  PathInv'
<1> DEFINE known == DOMAIN shown \cup DOMAIN shelved
           new   == notes \ known
           gone  == {c \in removals : c \in known \cup new} \ RecordedRemovals
           es    == MergedEntries(new, gone)
           moved == AppendAll(history, LinkBranch, es)
<1>1. /\ new \cup gone # {} /\ IsFiniteSet(new \cup gone)
      /\ \E on : RefreshView(moved, on)
  BY DEF MergeShared
<1>2. new \in SUBSET Comments /\ gone \in SUBSET Comments
  OBVIOUS
<1> HIDE DEF new, gone
<1>3. es \in Seq(EntryRecords) /\ Len(es) >= 1 /\ \A k \in 1..Len(es) : EntryOK(es[k])
  BY <1>1, <1>2, MergedIs
<1>4. WellFormed(history) /\ LinkBranch \in DOMAIN history.tips
  BY DEF PathInv, WellFormed, LinkBranch, HasBranch
<1> HIDE DEF es
<1>5. WellFormed(moved)
  BY <1>3, <1>4, AppendAllIs
<1> QED BY <1>1, <1>5, FoldFits

LEMMA ForkFits == ASSUME PathInv, Fork PROVE PathInv'
<1> DEFINE copy  == ForkHistory(history)
           known == KnownComments(shown, shelved)
           view  == ViewOfPath(copy, known)
<1>1. /\ history' = copy /\ content' = view.content /\ workingCopy' = NoText
      /\ shown' = view.shown /\ shelved' = <<>> /\ beside' = FALSE
  BY DEF Fork
<1>2. WellFormed(copy) /\ HeadText(copy) = AgentText(copy)
  BY ForkIs DEF PathInv
<1>3. /\ view.content = AgentText(copy)
      /\ DOMAIN view.shown = OpenOn(copy, PathOf(copy)) \cap DOMAIN known
  BY ViewIs
<1>4. AgentText(copy) \in Texts
  BY <1>2, TextsOnPath
<1> HIDE DEF copy, known, view
<1>5. content' \in Texts /\ workingCopy' # content'
  BY <1>1, <1>3, <1>4, RecordAssumption
<1>6. FitsPath'
  BY <1>1, <1>2, <1>3, EmptyDomain DEF FitsPath, Shown
<1> QED BY <1>1, <1>2, <1>5, <1>6 DEF PathInv

-----------------------------------------------------------------------------
LEMMA PathStepKeeps == PathInv /\ [RecordNext]_recordVars => PathInv'
<1> SUFFICES ASSUME PathInv, [RecordNext]_recordVars PROVE PathInv'
  OBVIOUS
<1>0. WellFormed(history)
  BY DEF PathInv
<1>1. ASSUME NEW c \in Comments, AddComment(c) PROVE PathInv'
  BY <1>1, CommentFits DEF AddComment
<1>2. ASSUME NEW c \in Comments, EditComment(c) \/ RemoveComment(c) PROVE PathInv'
  BY <1>2, EditFits, RemovalFits
<1>3. ASSUME NEW notes \in SUBSET Comments, NEW removals \in SUBSET Comments,
             MergeShared(notes, removals)
      PROVE  PathInv'
  BY <1>3, MergeFits
<1>4. ASSUME NEW t \in Texts, EditText(t) PROVE PathInv'
  BY <1>4, ReviewerFits DEF EditText
<1>5. ASSUME NEW t \in Texts, SubmitText(t) \/ RecaptureTree(t) \/ ReviseByCapture(t)
      PROVE  PathInv'
  BY <1>5, SubmitFits, RecaptureFits, CaptureFits
<1>6. ASSUME NEW r \in BOOLEAN, SendMessageEntry(r) PROVE PathInv'
  BY <1>6, MessageFits
<1>7. ASSUME NEW b \in Branches \cup {Main}, NEW i \in 1..MaxEntries, NEW s \in BOOLEAN,
             Navigate(i, s, b)
      PROVE  PathInv'
  <2> DEFINE standing == SwitchBranch(history, b)
  <2>1. /\ HasBranch(history, b) /\ CanNavigate(standing, i)
        /\ RefreshView(NavigateTo(standing, i, s), shown)
    BY <1>7 DEF Navigate
  <2>2. WellFormed(standing)
    BY <1>0, <2>1, SwitchedIs
  <2> HIDE DEF standing
  <2>3. WellFormed(NavigateTo(standing, i, s))
    BY <2>1, <2>2, NavigatedIs
  <2> QED BY <2>1, <2>3, FoldFits
<1>8. ASSUME NEW b \in Branches \cup {Main}, StartBranch(b) PROVE PathInv'
  <2>1. RefreshView(CreateBranch(history, b), shown)
    BY <1>8 DEF StartBranch
  <2> QED BY <1>0, <2>1, CreatedIs, FoldFits
<1>9. ASSUME NEW b \in Branches \cup {Main}, Switch(b) PROVE PathInv'
  <2>1. HasBranch(history, b) /\ RefreshView(SwitchBranch(history, b), shown)
    BY <1>9 DEF Switch
  <2> QED BY <1>0, <2>1, SwitchedIs, FoldFits
<1>10. CASE UNCHANGED <<history, content, workingCopy, shown, shelved, beside>>
  BY <1>10 DEF PathInv, FitsPath, Shown
<1>11. ASSUME NEW b \in Branches \cup {Main}, SetShares(b) PROVE PathInv'
  BY <1>10, <1>11 DEF SetShares, viewVars
<1>12. CASE Fork
  BY <1>12, ForkFits
<1>13. CASE UNCHANGED recordVars
  BY <1>10, <1>13 DEF recordVars
<1> QED BY <1>1, <1>2, <1>3, <1>4, <1>5, <1>6, <1>7, <1>8, <1>9, <1>11, <1>12, <1>13
        DEF RecordNext

(* Whatever api.ts does to a record by hand and whatever it folds from the *)
(* tree, the artifact, the reviewer's text and the open comments are those *)
(* of the current path, unless a revision has landed beside it.            *)
THEOREM RecordShowsItsPath == RecordSpec => []ShowsItsPathUnlessBeside
<1>1. PathInv => ShowsItsPathUnlessBeside
  BY ShowsWhatFits DEF PathInv, ShowsItsPathUnlessBeside
<1> QED BY <1>1, PathInitHolds, PathStepKeeps, PTL DEF RecordSpec

(* validateHistory, by which a record read back from disk is taken or      *)
(* skipped: a parent exists and comes before its child, main and the current  *)
(* branch exist, every tip names an entry, and its path has a revision.    *)
ValidHistory ==
    /\ \A i \in DOMAIN history.entries : history.entries[i].parent \in 0..(i-1)
    /\ {Main, history.branch} \subseteq DOMAIN history.tips
    /\ \A b \in DOMAIN history.tips :
          /\ history.tips[b] \in DOMAIN history.entries
          /\ \E i \in PathTo(history, history.tips[b]) : history.entries[i].type \in Revisions

(* No handler of api.ts makes a history that validateHistory refuses: what *)
(* the daemon writes of the tree, its next start does not skip.            *)
THEOREM HistoryStaysValid == RecordSpec => []ValidHistory
<1>1. ASSUME PathInv PROVE ValidHistory
  <2>1. WellFormed(history) /\ TreeOK(history.entries)
    BY <1>1 DEF PathInv, WellFormed
  <2>2. DOMAIN history.entries = 1..Len(history.entries) /\ history.entries[1].type = "agent"
    BY <2>1 DEF TreeOK
  <2>3. \A i \in DOMAIN history.entries : history.entries[i].parent \in 0..(i-1)
    BY <2>1, <2>2, TreeParents DEF ParentsFirst
  <2>4. ASSUME NEW b \in DOMAIN history.tips
        PROVE  /\ history.tips[b] \in 1..Len(history.entries)
               /\ 1 \in PathTo(history, history.tips[b])
    <3>1. history.tips[b] \in 1..Len(history.entries)
      BY <2>1 DEF WellFormed
    <3> QED BY <2>1, <3>1, TipPaths
  <2>5. "agent" \in Revisions
    BY DEF Revisions
  <2> QED BY <2>1, <2>2, <2>3, <2>4, <2>5 DEF ValidHistory, WellFormed
<1> QED BY <1>1, PathInitHolds, PathStepKeeps, PTL DEF RecordSpec

-----------------------------------------------------------------------------
(* DiffRefresh.                                                            *)

Version == [version : Nat, text : {Unread.text} \cup Patches]

CaptureRecord == [gen : Nat, seen : Version, crossed : BOOLEAN]

RefreshTypeOK ==
    /\ generation \in Nat
    /\ asOf \in Nat
    /\ outside \in Version
    /\ draft \in Version
    /\ review \in [status : {"pending", "resolved", "deleted"},
                   text : {Unread.text} \cup Patches, version : Nat]
    /\ captures \subseteq CaptureRecord

(* The captures of a Thread that is not deleted are of different           *)
(* generations, none later than the last; after a deletion, which forgets  *)
(* the generation, no capture lands and the Thread never opens again.      *)
Generations ==
    review.status # "deleted" =>
        /\ \A c \in captures : c.gen <= generation
        /\ \A c, d \in captures : c.gen = d.gen => c = d

\* What was read was there.
ReadFromOutside ==
    /\ asOf <= outside.version
    /\ draft.version <= outside.version
    /\ \A c \in captures : c.seen.version <= outside.version

\* The capture that may land has read later than what is shown.
LastCaptureIsNewest ==
    review.status # "deleted" =>
        \A c \in captures :
            c.gen = generation /\ c.seen.version # 0 => c.crossed \/ c.seen.version >= asOf

RefreshIInv ==
    /\ RefreshTypeOK
    /\ Generations
    /\ ReadFromOutside
    /\ LastCaptureIsNewest

-----------------------------------------------------------------------------
LEMMA RefreshInitHolds == RefreshInit => RefreshIInv
<1> SUFFICES ASSUME RefreshInit PROVE RefreshIInv
  OBVIOUS
<1>1. outside = [version |-> 1, text |-> Unread.text]
  BY DEF RefreshInit, Unread
<1>2. /\ review = [status |-> "pending", text |-> outside.text, version |-> 1]
      /\ generation = 0 /\ captures = {} /\ asOf = 1 /\ draft = outside
  BY DEF RefreshInit
<1>3. RefreshTypeOK
  BY <1>1, <1>2 DEF RefreshTypeOK, Version
<1> QED BY <1>1, <1>2, <1>3 DEF RefreshIInv, Generations, ReadFromOutside, LastCaptureIsNewest

LEMMA StartKeeps ==
    ASSUME RefreshIInv, StartCapture, UNCHANGED <<review, outside, draft, asOf>>
    PROVE  RefreshIInv'
<1> DEFINE new == Capture(generation + 1)
<1>1. /\ new \in CaptureRecord
      /\ new.gen = generation + 1 /\ new.seen.version = 0 /\ ~new.crossed
  BY DEF Capture, CaptureRecord, Version, Unread, RefreshIInv, RefreshTypeOK
<1>2. generation' = generation + 1 /\ captures' = captures \cup {new}
  BY DEF StartCapture
<1> HIDE DEF new
<1>3. RefreshTypeOK'
  BY <1>1, <1>2 DEF RefreshIInv, RefreshTypeOK
<1>4. Generations'
  BY <1>1, <1>2 DEF RefreshIInv, RefreshTypeOK, Generations, CaptureRecord
<1>5. ReadFromOutside'
  BY <1>1, <1>2 DEF RefreshIInv, RefreshTypeOK, ReadFromOutside, Version
<1>6. LastCaptureIsNewest'
  BY <1>1, <1>2 DEF RefreshIInv, RefreshTypeOK, Generations, LastCaptureIsNewest, CaptureRecord
<1> QED BY <1>3, <1>4, <1>5, <1>6 DEF RefreshIInv

\* Captures that end without landing disturb nothing, nor does a resolution.
LEMMA FewerCapturesKeep ==
    ASSUME RefreshIInv, captures' \subseteq captures,
           UNCHANGED <<outside, draft, generation, asOf>>,
           review.status # "deleted",
           review' \in [status : {"pending", "resolved", "deleted"},
                        text : {Unread.text} \cup Patches, version : Nat]
    PROVE  RefreshIInv'
  BY DEF RefreshIInv, RefreshTypeOK, Generations, ReadFromOutside, LastCaptureIsNewest

LEMMA LandKeeps ==
    ASSUME RefreshIInv, NEW c \in captures, Land(c)
    PROVE  RefreshIInv'
<1>1. CASE Current(c) /\ Changed(c)
  <2>1. /\ review' = [review EXCEPT !.text = c.seen.text, !.version = c.seen.version]
        /\ captures' = captures \ {c}
        /\ asOf' = c.seen.version
        /\ outside' = outside /\ generation' = generation /\ draft' = draft
        /\ review.status = "pending" /\ c.gen = generation
    BY <1>1 DEF Land, Current, Pending
  <2>2. c.seen.version \in Nat /\ c.seen.version <= outside.version
    BY DEF RefreshIInv, RefreshTypeOK, CaptureRecord, Version, ReadFromOutside
  <2>3. RefreshTypeOK'
    BY <2>1, <2>2 DEF RefreshIInv, RefreshTypeOK, CaptureRecord, Version
  <2>4. \A d \in captures' : d.gen # generation
    BY <2>1 DEF RefreshIInv, Generations
  <2> QED BY <2>1, <2>2, <2>3, <2>4 DEF RefreshIInv, Generations, ReadFromOutside,
                                        LastCaptureIsNewest
<1>2. CASE ~(Current(c) /\ Changed(c))
  <2>1. /\ captures' = captures \ {c}
        /\ UNCHANGED <<review, outside, draft, generation, asOf>>
    BY <1>2 DEF Land
  <2> QED BY <2>1 DEF RefreshIInv, RefreshTypeOK, Generations, ReadFromOutside,
                     LastCaptureIsNewest
<1> QED BY <1>1, <1>2

LEMMA ReadKeeps ==
    ASSUME RefreshIInv, NEW c \in captures, ReadOutside(c)
    PROVE  RefreshIInv'
<1> DEFINE read == [c EXCEPT !.seen = outside]
<1>1. /\ captures' = (captures \ {c}) \cup {read}
      /\ UNCHANGED <<review, outside, draft, generation, asOf>>
  BY DEF ReadOutside, refreshGhosts
<1>2. /\ read \in CaptureRecord
      /\ read.gen = c.gen /\ read.seen = outside /\ read.crossed = c.crossed
  BY DEF RefreshIInv, RefreshTypeOK, CaptureRecord
<1> HIDE DEF read
<1>3. RefreshTypeOK'
  BY <1>1, <1>2 DEF RefreshIInv, RefreshTypeOK
<1>4. Generations'
  <2> SUFFICES ASSUME review.status # "deleted"
               PROVE  /\ \A d \in captures' : d.gen <= generation'
                      /\ \A d, e \in captures' : d.gen = e.gen => d = e
    BY <1>1 DEF Generations
  <2>1. \A d \in captures' : d.gen <= generation'
    BY <1>1, <1>2 DEF RefreshIInv, Generations
  <2>2. ASSUME NEW d \in captures', NEW e \in captures', d.gen = e.gen PROVE d = e
    <3>1. (d = read \/ d \in captures \ {c}) /\ (e = read \/ e \in captures \ {c})
      BY <1>1
    <3> QED BY <1>2, <2>2, <3>1 DEF RefreshIInv, Generations
  <2> QED BY <2>1, <2>2
<1>5. ReadFromOutside'
  BY <1>1, <1>2 DEF RefreshIInv, RefreshTypeOK, ReadFromOutside, Version
<1>6. LastCaptureIsNewest'
  BY <1>1, <1>2 DEF RefreshIInv, RefreshTypeOK, ReadFromOutside, LastCaptureIsNewest, Version
<1> QED BY <1>3, <1>4, <1>5, <1>6 DEF RefreshIInv

LEMMA ReviseKeeps == ASSUME RefreshIInv, Revise PROVE RefreshIInv'
<1> DEFINE Marked(c) == [c EXCEPT !.crossed = TRUE]
<1>1. /\ captures' = {Marked(c) : c \in captures}
      /\ asOf' = draft.version
      /\ review.status # "deleted"
      /\ \E v \in SourcesOf(draft) :
             review' = [status |-> "pending", text |-> draft.text, version |-> v]
      /\ UNCHANGED <<outside, draft, generation>>
  BY DEF Revise, refreshGhosts
<1>7. SourcesOf(draft) \subseteq Nat
  BY DEF SourcesOf, RefreshIInv, RefreshTypeOK, Version
<1>8. /\ review' \in [status : {"pending", "resolved", "deleted"},
                      text : {Unread.text} \cup Patches, version : Nat]
      /\ review'.status = "pending"
  BY <1>1, <1>7 DEF RefreshIInv, RefreshTypeOK, Version
<1>2. ASSUME NEW c \in captures
      PROVE  /\ Marked(c) \in CaptureRecord
             /\ Marked(c).gen = c.gen /\ Marked(c).seen = c.seen /\ Marked(c).crossed
  BY DEF RefreshIInv, RefreshTypeOK, CaptureRecord
<1> HIDE DEF Marked
<1>3. RefreshTypeOK'
  BY <1>1, <1>2, <1>8 DEF RefreshIInv, RefreshTypeOK, Version
<1>4. Generations'
  BY <1>1, <1>2 DEF RefreshIInv, Generations
<1>5. ReadFromOutside'
  BY <1>1, <1>2 DEF RefreshIInv, RefreshTypeOK, ReadFromOutside, Version
<1>6. LastCaptureIsNewest'
  BY <1>1, <1>2 DEF LastCaptureIsNewest
<1> QED BY <1>3, <1>4, <1>5, <1>6 DEF RefreshIInv

-----------------------------------------------------------------------------
LEMMA RefreshStepKeeps == RefreshIInv /\ [RefreshNext]_refreshVars => RefreshIInv'
<1> SUFFICES ASSUME RefreshIInv, [RefreshNext]_refreshVars PROVE RefreshIInv'
  OBVIOUS
<1>1. CASE UNCHANGED <<review, outside, draft, generation, captures, asOf>>
  BY <1>1 DEF RefreshIInv, RefreshTypeOK, Generations, ReadFromOutside, LastCaptureIsNewest
<1>2. ASSUME NEW p \in Patches, MoveOutside(p) PROVE RefreshIInv'
  <2>1. /\ outside' = [version |-> outside.version + 1, text |-> p]
        /\ UNCHANGED <<review, draft, generation, captures, asOf>>
    BY <1>2 DEF MoveOutside, refreshGhosts
  <2>2. \A c \in captures : c.seen.version \in Nat
    BY DEF RefreshIInv, RefreshTypeOK, CaptureRecord, Version
  <2>3. outside' \in Version /\ outside'.version = outside.version + 1 /\ outside.version \in Nat
    BY <2>1 DEF RefreshIInv, RefreshTypeOK, Version
  <2>4. RefreshTypeOK'
    BY <2>1, <2>3 DEF RefreshIInv, RefreshTypeOK
  <2>5. ReadFromOutside'
    BY <2>1, <2>2, <2>3 DEF RefreshIInv, RefreshTypeOK, ReadFromOutside, Version
  <2> QED BY <2>1, <2>4, <2>5 DEF RefreshIInv, Generations, LastCaptureIsNewest
<1>3. CASE WatcherRefresh
  BY <1>1, <1>3, StartKeeps DEF WatcherRefresh
<1>4. CASE ClientRefresh
  BY <1>4, StartKeeps DEF ClientRefresh
<1>5. ASSUME NEW c \in captures, ReadOutside(c) PROVE RefreshIInv'
  BY <1>5, ReadKeeps
<1>6. ASSUME NEW c \in captures, CaptureFails(c) PROVE RefreshIInv'
  <2>1. captures' \subseteq captures /\ UNCHANGED <<review, outside, draft, generation, asOf>>
    BY <1>6 DEF CaptureFails
  <2> QED BY <2>1 DEF RefreshIInv, RefreshTypeOK, Generations, ReadFromOutside,
                     LastCaptureIsNewest
<1>7. ASSUME NEW c \in captures, Land(c) PROVE RefreshIInv'
  BY <1>7, LandKeeps
<1>8. CASE PollAsks
  BY <1>1, <1>8 DEF PollAsks, PollReads, refreshGhosts
<1>9. CASE PollAnswers
  BY <1>1, <1>9 DEF PollAnswers, PollLands, refreshGhosts
<1>15. CASE Draft
  BY <1>15 DEF Draft, refreshGhosts, RefreshIInv, RefreshTypeOK, Generations,
               ReadFromOutside, LastCaptureIsNewest, Version
<1>10. CASE Revise
  BY <1>10, ReviseKeeps
<1>11. CASE Resolve
  <2>1. /\ captures' = captures /\ UNCHANGED <<outside, draft, generation, asOf>>
        /\ review.status # "deleted"
        /\ review' = [review EXCEPT !.status = "resolved"]
    BY <1>11 DEF Resolve, Pending, refreshGhosts
  <2>2. review' \in [status : {"pending", "resolved", "deleted"},
                     text : {Unread.text} \cup Patches, version : Nat]
    BY <2>1 DEF RefreshIInv, RefreshTypeOK
  <2> QED BY <2>1, <2>2, FewerCapturesKeep
<1>12. CASE DeleteReview
  <2>1. /\ review' = [review EXCEPT !.status = "deleted"]
        /\ generation' = 0
        /\ UNCHANGED <<outside, draft, captures, asOf>>
    BY <1>12 DEF DeleteReview, refreshGhosts
  <2>2. review'.status = "deleted" /\ RefreshTypeOK'
    BY <2>1 DEF RefreshIInv, RefreshTypeOK
  <2> QED BY <2>1, <2>2 DEF RefreshIInv, Generations, ReadFromOutside, LastCaptureIsNewest
<1>13. CASE Restart
  <2>1. /\ captures' = {} /\ generation' = 0
        /\ UNCHANGED <<review, outside, draft, asOf>>
    BY <1>13 DEF Restart, refreshGhosts
  <2> QED BY <2>1 DEF RefreshIInv, RefreshTypeOK, Generations, ReadFromOutside,
                     LastCaptureIsNewest
<1>14. CASE UNCHANGED refreshVars
  BY <1>1, <1>14 DEF refreshVars, refreshGhosts
<1> QED BY <1>2, <1>3, <1>4, <1>5, <1>6, <1>7, <1>8, <1>9, <1>10, <1>11, <1>12, <1>13, <1>14, <1>15
        DEF RefreshNext

LEMMA StepShowsNoEarlier ==
    RefreshIInv /\ [RefreshNext]_refreshVars
      => (asOf' < asOf =>
             \/ spent'.revisions = spent.revisions + 1 /\ review'.text = draft.text
             \/ \E c \in captures : c.crossed /\ c.seen.version = asOf')
<1> SUFFICES ASSUME RefreshIInv, [RefreshNext]_refreshVars, asOf' < asOf
             PROVE  \/ spent'.revisions = spent.revisions + 1 /\ review'.text = draft.text
                    \/ \E c \in captures : c.crossed /\ c.seen.version = asOf'
  OBVIOUS
<1>1. asOf' # asOf
  BY DEF RefreshIInv, RefreshTypeOK
<1>2. ASSUME NEW c \in captures, Land(c) PROVE c.crossed /\ c.seen.version = asOf'
  <2>1. /\ Current(c) /\ asOf' = c.seen.version /\ c.seen.version # 0
    BY <1>1, <1>2 DEF Land
  <2>2. c.gen = generation /\ review.status = "pending"
    BY <2>1 DEF Current, Pending
  <2>3. c.crossed \/ c.seen.version >= asOf
    BY <2>1, <2>2 DEF RefreshIInv, LastCaptureIsNewest
  <2>4. c.seen.version \in Nat /\ asOf \in Nat
    BY DEF RefreshIInv, RefreshTypeOK, CaptureRecord, Version
  <2> QED BY <2>1, <2>3, <2>4
<1>3. CASE Revise
  BY <1>3 DEF Revise, refreshGhosts
<1>4. ~Revise => \E c \in captures : Land(c)
  BY <1>1 DEF RefreshNext, refreshVars, MoveOutside, WatcherRefresh, ClientRefresh,
     ReadOutside, CaptureFails, Draft, refreshGhosts, PollAsks, PollReads, PollAnswers, PollLands, Resolve,
     DeleteReview, Restart
<1> QED BY <1>2, <1>3, <1>4

(* However captures overlap, fail and are overtaken, what a review shows   *)
(* was read later than what it showed before, unless a revision was        *)
(* submitted while the capture was under way.                              *)
THEOREM ReviewsGoForward == RefreshSpec => NeverBackInTime
<1>1. RefreshIInv /\ [RefreshNext]_refreshVars
        => [asOf' < asOf =>
               \/ spent'.revisions = spent.revisions + 1 /\ review'.text = draft.text
               \/ \E c \in captures : c.crossed /\ c.seen.version = asOf']_refreshVars
  BY StepShowsNoEarlier
<1> QED BY <1>1, RefreshInitHolds, RefreshStepKeeps, PTL DEF RefreshSpec, NeverBackInTime
==============================================================================
