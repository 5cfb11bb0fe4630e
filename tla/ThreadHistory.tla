---------------------------- MODULE ThreadHistory ----------------------------
(***************************************************************************)
(* The history of a Thread (schema/src/history.ts) and the linear view of  *)
(* its active path (schema/src/path-view.ts), as pure operators.           *)
(*                                                                         *)
(* A history is [entries, tips, branch]: the append-only entries, the tip  *)
(* of every named branch and the current branch.  An entry is named by its *)
(* place, so a parent has a smaller number and 0 is "no parent".  Its      *)
(* `type` tells an agent's revision from a reviewer's, and a removal made  *)
(* here from one merged from a share, which keeps the id it has there;     *)
(* `of` is the revision's text or the comment's id.                        *)
(***************************************************************************)
EXTENDS Naturals, Sequences, SequencesExt

Main == "main"

Entry(type, of) == [parent |-> 0, type |-> type, of |-> of]

Revisions == {"agent", "reviewer"}
Removals  == {"removed", "removed-there"}

HasBranch(h, b) == b \in DOMAIN h.tips

(* The places from the root down to `from`.  A path is the set of them,     *)
(* since its order is that of the places.                                  *)
PathTo(h, from) ==
    LET path[i \in 0..Len(h.entries)] ==
            IF i = 0 THEN {} ELSE path[h.entries[i].parent] \cup {i}
    IN  path[from]

PathOf(h) == PathTo(h, h.tips[h.branch])

OfType(h, path, types) == {i \in path : h.entries[i].type \in types}

\* appendEntry on the branch b; only the tip of b moves.
AppendEntry(h, b, e) ==
    [h EXCEPT !.entries = Append(@, [e EXCEPT !.parent = h.tips[b]]),
              !.tips[b] = Len(h.entries) + 1]

\* appendEntry on b of each of es in turn, of which there is one at least.
AppendAll(h, b, es) ==
    LET n == Len(h.entries)
    IN  [h EXCEPT !.entries = @ \o [k \in DOMAIN es |->
                      [es[k] EXCEPT !.parent = IF k = 1 THEN h.tips[b] ELSE n + k - 1]],
                  !.tips[b] = n + Len(es)]

\* A re-captured tree is the text of main's last agent revision, in place.
RecaptureMainHead(h, text) ==
    LET head == Max(OfType(h, PathTo(h, h.tips[Main]), {"agent"}))
    IN  [h EXCEPT !.entries[head].of = text]

CreateBranch(h, b) ==
    [h EXCEPT !.tips = [n \in DOMAIN @ \cup {b} |-> IF n = b THEN @[h.branch] ELSE @[n]],
              !.branch = b]

SwitchBranch(h, b) == [h EXCEPT !.branch = b]

CanNavigate(h, target) ==
    /\ target # h.tips[h.branch]
    /\ target \in PathOf(h)

\* navigateTo: the tip moves back; a summary of what it leaves is an entry.
NavigateTo(h, target, summarised) ==
    LET moved == [h EXCEPT !.tips[h.branch] = target]
    IN  IF summarised THEN AppendEntry(moved, h.branch, Entry("summary", target)) ELSE moved

\* The k-th of the places kept, and these alone chained anew under the branch b.
Nth(kept, k) == CHOOSE i \in kept : Cardinality(kept \cap (1..i)) = k

Rechained(h, kept, b) ==
    LET size == Cardinality(kept)
    IN  [entries |-> [k \in 1..size |-> [h.entries[Nth(kept, k)] EXCEPT !.parent = k - 1]],
         tips |-> [n \in {b} |-> size],
         branch |-> b]

\* forkHistory: Messages and the reviewer's edits stay behind.
ForkHistory(h) ==
    Rechained(h, {i \in PathOf(h) : h.entries[i].type \notin {"message", "reviewer"}}, Main)

\* The comments the path has open, whatever order it opened them in.
OpenOn(h, path) ==
    {h.entries[i].of : i \in {i \in path :
        /\ h.entries[i].type = "comment"
        /\ \A j \in path :
              j > i /\ h.entries[j].type \in Removals => h.entries[j].of # h.entries[i].of}}

HeadText(h)  == h.entries[Max(OfType(h, PathOf(h), Revisions))].of
AgentText(h) == h.entries[Max(OfType(h, PathOf(h), {"agent"}))].of

\* Mutant of ViewOfPath: comments the path does not reach are dropped.
ViewDropping(h, known) ==
    LET open == OpenOn(h, PathOf(h)) \cap DOMAIN known
    IN  [content |-> AgentText(h), text |-> HeadText(h),
         shown   |-> [c \in open |-> known[c]],
         shelved |-> <<>>]

\* viewOfPath over every comment the record holds, on or off the path.
ViewOfPath(h, known) ==
    LET open == OpenOn(h, PathOf(h)) \cap DOMAIN known
    IN  [content |-> AgentText(h), text |-> HeadText(h),
         shown   |-> [c \in open |-> known[c]],
         shelved |-> [c \in DOMAIN known \ open |-> known[c]]]
=============================================================================
