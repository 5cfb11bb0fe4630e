------------------------- MODULE AcpRecovery_proofs -------------------------
(***************************************************************************)
(* Theorems about AcpRecovery, for any number of prompts, of lines a turn  *)
(* writes, of crashes and of relays.                                       *)
(*                                                                         *)
(* The transcript of a relay is well told whoever reads it: turns follow one *)
(* another, each begins with its one prompt, and nothing of a turn comes   *)
(* before its prompt or after its stop reason.  RecoveryInv ties the task's *)
(* file and the daemon to that transcript.  It says where a place may point *)
(* (Placed), that the relay's mark is never ahead of the task's file       *)
(* (Marked), that what is stored and past the mark is being acknowledged or *)
(* was left so by a crash (Acking, Settled), and that the events of the    *)
(* prompt past the checkpoint are all on their way, in order, in the       *)
(* commits or in the lines the relay has sent (Pending), so that those up  *)
(* to it are all stored (Exact).                                           *)
(* The *Keeps lemmas prove it of each step over any records that stand for a *)
(* task, a relay and a daemon; the *Step lemmas read the actions as such.  *)
(***************************************************************************)
EXTENDS AcpRecovery, FiniteSetTheorems, SequenceTheorems, WellFoundedInduction, TLAPS

-----------------------------------------------------------------------------
(* Numbers and sequences.                                                  *)

\* A nonempty set of naturals has a smallest element.
LEMMA LeastExists ==
    ASSUME NEW S \in SUBSET Nat, S # {}
    PROVE  \E x \in S : \A y \in S : x <= y
<1> DEFINE R == OpToRel(<, Nat)
<1>1. \A x, y \in Nat : <<y, x>> \notin R => x <= y
  BY DEF OpToRel
<1>2. IsWellFoundedOn(R, Nat)
  BY NatLessThanWellFounded
<1> HIDE DEF R
<1>3. PICK x \in S : \A y \in S : ~(<<y, x>> \in R)
  BY <1>2, WFMin
<1> QED BY <1>1, <1>3

\* The latest of a bounded set of places is one of them and after the others.
LEMMA LatestIs ==
    ASSUME NEW S \in SUBSET Nat, NEW N \in Nat, \A x \in S : x <= N, S # {}
    PROVE  Latest(S) \in S /\ \A y \in S : y <= Latest(S)
<1> DEFINE T == {N - x : x \in S}
<1>1. ASSUME NEW x \in S PROVE N - x \in Nat
  <2>1. x \in Nat /\ x <= N
    OBVIOUS
  <2> QED BY <2>1
<1>a. T \in SUBSET Nat /\ T # {}
  BY <1>1
<1>2. PICK t \in T : \A u \in T : t <= u
  BY <1>a, LeastExists
<1>3. PICK x \in S : t = N - x
  OBVIOUS
<1>4. ASSUME NEW y \in S PROVE y <= x
  <2>1. N - x <= N - y
    BY <1>2, <1>3
  <2> QED BY <2>1
<1> QED BY <1>4 DEF Latest

\* An enumeration in order exists of every set of places up to N.
Enumerable(N) == \A S \in SUBSET (1..N) : \E q \in [1..Cardinality(S) -> S] : Ascends(q)

\* A set of places up to N + 1 is enumerated by adding N + 1 last, if it is there.
LEMMA EnumerableStep ==
    ASSUME NEW N \in Nat, Enumerable(N)
    PROVE  Enumerable(N + 1)
<1> SUFFICES ASSUME NEW S \in SUBSET (1..(N+1))
             PROVE  \E q \in [1..Cardinality(S) -> S] : Ascends(q)
  BY DEF Enumerable
<1>1. CASE N + 1 \notin S
  <2>1. S \in SUBSET (1..N)
    BY <1>1
  <2> QED BY <2>1 DEF Enumerable
<1>2. CASE N + 1 \in S
  <2> DEFINE T == S \ {N + 1}
             m == Cardinality(T)
  <2>1. T \in SUBSET (1..N)
    OBVIOUS
  <2>2. IsFiniteSet(1..(N+1))
    BY FS_Interval
  <2>3. IsFiniteSet(S)
    BY <2>2, FS_Subset
  <2>4. Cardinality(T) = Cardinality(S) - 1 /\ IsFiniteSet(T)
    BY <1>2, <2>3, FS_RemoveElement
  <2>5. m \in Nat /\ Cardinality(S) \in Nat
    BY <2>3, <2>4, FS_CardinalityType
  <2>6. PICK q \in [1..m -> T] : Ascends(q)
    BY <2>1 DEF Enumerable
  <2> HIDE DEF m
  <2>7. Cardinality(S) = m + 1
    BY <2>4, <2>5 DEF m
  <2> DEFINE e == [k \in 1..(m+1) |-> IF k <= m THEN q[k] ELSE N + 1]
  <2>8. e \in [1..(m+1) -> S]
    BY <1>2, <2>5, <2>6
  <2>9. Ascends(e)
    <3> SUFFICES ASSUME NEW i \in 1..(m+1), NEW j \in 1..(m+1), i < j
                 PROVE  e[i] < e[j]
      BY DEF Ascends
    <3>1. i \in 1..m /\ e[i] = q[i] /\ q[i] \in T
      BY <2>5, <2>6
    <3>2. CASE j <= m
      BY <2>5, <2>6, <3>1, <3>2 DEF Ascends
    <3>3. CASE ~(j <= m)
      <4>1. e[j] = N + 1
        BY <2>5, <3>3
      <4>2. q[i] \in 1..N
        BY <2>1, <3>1
      <4> QED BY <3>1, <4>1, <4>2
    <3> QED BY <3>2, <3>3
  <2> QED BY <2>7, <2>8, <2>9
<1> QED BY <1>1, <1>2

\* Every bounded set of places has an enumeration in order.
LEMMA AllEnumerable == \A N \in Nat : Enumerable(N)
<1> DEFINE S == {N \in Nat : ~Enumerable(N)}
<1> SUFFICES ASSUME S # {} PROVE FALSE
  OBVIOUS
<1>1. PICK N \in S : \A y \in S : N <= y
  BY LeastExists
<1>2. Enumerable(0)
  <2> SUFFICES ASSUME NEW T \in SUBSET (1..0)
               PROVE  \E q \in [1..Cardinality(T) -> T] : Ascends(q)
    BY DEF Enumerable
  <2>1. T = {}
    OBVIOUS
  <2>2. Cardinality(T) = 0
    BY <2>1, FS_EmptySet
  <2>3. [k \in {} |-> k] \in [1..Cardinality(T) -> T]
    BY <2>2
  <2>4. Ascends([k \in {} |-> k])
    BY DEF Ascends
  <2> QED BY <2>3, <2>4
<1>3. N # 0 /\ N \in Nat
  BY <1>2
<1>4. N - 1 \in Nat /\ (N - 1) + 1 = N
  BY <1>3
<1>5. Enumerable(N - 1)
  BY <1>1, <1>4
<1>6. Enumerable((N - 1) + 1)
  BY <1>4, <1>5, EnumerableStep
<1> QED BY <1>4, <1>6

\* Ascending lists every place of a set, and only those, in order.
LEMMA AscendingIs ==
    ASSUME NEW N \in Nat, NEW S \in SUBSET (1..N)
    PROVE  /\ Ascending(S) \in Seq(Nat)
           /\ Ascends(Ascending(S))
           /\ \A k \in DOMAIN Ascending(S) : Ascending(S)[k] \in S
           /\ \A i \in S : \E k \in DOMAIN Ascending(S) : Ascending(S)[k] = i
<1> DEFINE m == Cardinality(S)
           q == Ascending(S)
<1>1. \E z \in [1..m -> S] : Ascends(z)
  BY AllEnumerable DEF Enumerable
<1>2. q \in [1..m -> S] /\ Ascends(q)
  BY <1>1 DEF Ascending
<1>3. IsFiniteSet(S)
  <2>1. IsFiniteSet(1..N)
    BY FS_Interval
  <2> QED BY <2>1, FS_Subset
<1>4. m \in Nat
  BY <1>3, FS_CardinalityType
<1> HIDE DEF q
<1>5. q \in Injection(1..m, S)
  <2>1. ASSUME NEW i \in 1..m, NEW j \in 1..m, q[i] = q[j] PROVE i = j
    <3>a. q[i] \in S /\ q[j] \in S
      BY <1>2
    <3>b. \A x \in S : x \in Nat
      OBVIOUS
    <3>c. i \in Nat /\ j \in Nat
      BY <1>4
    <3>1. q[i] \in Nat /\ q[j] \in Nat /\ i \in Nat /\ j \in Nat
      BY <3>a, <3>b, <3>c
    <3>2. ~(i < j) /\ ~(j < i)
      BY <1>2, <2>1, <3>1 DEF Ascends
    <3> QED BY <3>1, <3>2
  <2> QED BY <1>2, <2>1 DEF Injection, IsInjective
<1>6. Cardinality(1..m) = m
  BY <1>4, FS_Interval
<1>7. q \in Surjection(1..m, S)
  BY <1>3, <1>5, <1>6, FS_Injection
<1>8. \A i \in S : \E k \in 1..m : q[k] = i
  BY <1>7 DEF Surjection
<1> HIDE DEF m
<1>9. q \in Seq(S)
  BY <1>2, <1>4
<1>10. q \in Seq(Nat)
  <2>1. S \subseteq Nat
    OBVIOUS
  <2> QED BY <1>9, <2>1, SeqMonotonic
<1> QED BY <1>2, <1>8, <1>10 DEF q

-----------------------------------------------------------------------------
(* The transcript of a relay: what holds of its lines, whoever reads them. *)

Turns == {"prompt"} \cup Output
Lines == [kind : Turns \cup {"reply"}, of : Nat]

\* The prompts given are those of the conversation so far.
OfTurns(q, n) == \A i \in DOMAIN q : q[i].kind \in Turns => q[i].of \in 1..n

\* Turns follow one another: each begins with its prompt, given once, and
\* says nothing after its stop reason.
InTurn(l, m) == l.of <= m.of /\ (m.kind = "prompt" \/ l.kind = "stop" => l.of < m.of)

Ordered(q) ==
    \A i, j \in DOMAIN q :
        i < j /\ q[i].kind \in Turns /\ q[j].kind \in Turns => InTurn(q[i], q[j])

AfterPrompts(q) ==
    \A j \in DOMAIN q : q[j].kind \in Output =>
        \E i \in DOMAIN q : i < j /\ q[i] = Line("prompt", q[j].of)

\* A reply names the request that it answers.
Replies(q) ==
    \A i \in DOMAIN q : q[i].kind = "reply" =>
        q[i].of \in DOMAIN q /\ q[q[i].of].kind \in Requests

WellTold(q, n) == OfTurns(q, n) /\ Ordered(q) /\ AfterPrompts(q) /\ Replies(q)

\* LastPrompt and InFlight, of any transcript.
PromptsOf(q) == {i \in DOMAIN q : q[i].kind = "prompt"}
LastOf(q) == IF PromptsOf(q) = {} THEN 0 ELSE q[Latest(PromptsOf(q))].of
Running(q) == LastOf(q) # 0 /\ \A i \in DOMAIN q : q[i] # Line("stop", LastOf(q))

\* The last prompt given is the largest, and what is said is of no later one.
LastFacts(q, n) ==
    /\ LastOf(q) \in 0..n
    /\ LastOf(q) # 0 => \E p \in DOMAIN q : q[p] = Line("prompt", LastOf(q))
    /\ \A i \in DOMAIN q : q[i].kind \in Turns => q[i].of <= LastOf(q)

\* The parts of a line are those it was made of.
LEMMA LineParts == \A k, o : Line(k, o).kind = k /\ Line(k, o).of = o
  BY DEF Line

\* A line is known by its parts.
LEMMA LineIs == \A l \in Lines : l = Line(l.kind, l.of)
  BY DEF Line, Lines

\* Every line the model writes is one of Lines.
LEMMA LineType == \A k \in Turns \cup {"reply"}, o \in Nat : Line(k, o) \in Lines
  BY DEF Line, Lines

\* Appending keeps every place and adds one, after all of them.
LEMMA AppendIs ==
    ASSUME NEW S, NEW q \in Seq(S), NEW l \in S
    PROVE  /\ Append(q, l) \in Seq(S)
           /\ DOMAIN q = 1..Len(q)
           /\ Len(q) \in Nat
           /\ Len(Append(q, l)) = Len(q) + 1
           /\ DOMAIN Append(q, l) = 1..(Len(q) + 1)
           /\ \A i \in DOMAIN q : i \in DOMAIN Append(q, l) /\ Append(q, l)[i] = q[i]
           /\ Append(q, l)[Len(q) + 1] = l
           /\ \A i \in DOMAIN Append(q, l) : i \in DOMAIN q \/ i = Len(q) + 1
<1>1. Append(q, l) \in Seq(S) /\ Len(q) \in Nat /\ DOMAIN q = 1..Len(q)
  OBVIOUS
<1>2. Len(Append(q, l)) = Len(q) + 1
  OBVIOUS
<1>3. DOMAIN Append(q, l) = 1..(Len(q) + 1)
  BY <1>1, <1>2
<1>4. \A i \in 1..Len(q) : Append(q, l)[i] = q[i]
  OBVIOUS
<1>5. Append(q, l)[Len(q) + 1] = l
  OBVIOUS
<1> QED BY <1>1, <1>2, <1>3, <1>4, <1>5

\* The same of places: where the new one is, and where the others are.
LEMMA AppendAt ==
    ASSUME NEW q \in Seq(Nat), NEW e \in Nat
    PROVE  /\ Append(q, e)[Len(q) + 1] = e
           /\ \A x \in DOMAIN q : x \in DOMAIN Append(q, e) /\ Append(q, e)[x] = q[x]
           /\ \A x \in DOMAIN Append(q, e) : x \in DOMAIN q \/ x = Len(q) + 1
  BY AppendIs

\* What folding a well-told transcript yields: its last prompt, and that it is written.
LEMMA LastOfIs ==
    ASSUME NEW n \in Nat, NEW q \in Seq(Lines), WellTold(q, n)
    PROVE  LastFacts(q, n)
<1> USE LineParts
<1>1. DOMAIN q = 1..Len(q) /\ Len(q) \in Nat /\ \A i \in DOMAIN q : q[i] \in Lines
  OBVIOUS
<1>2. \A i \in DOMAIN q : q[i].kind \in Output =>
          \E p \in PromptsOf(q) : p < i /\ q[p].of = q[i].of
  BY DEF WellTold, AfterPrompts, PromptsOf
<1>3. \A i \in DOMAIN q : q[i].kind \in Turns => i \in PromptsOf(q) \/ q[i].kind \in Output
  BY DEF Turns, PromptsOf
<1>4. CASE PromptsOf(q) = {}
  <2>1. LastOf(q) = 0
    BY <1>4 DEF LastOf
  <2>2. \A i \in DOMAIN q : q[i].kind \notin Turns
    BY <1>2, <1>3, <1>4
  <2> QED BY <2>1, <2>2 DEF LastFacts
<1>5. CASE PromptsOf(q) # {}
  <2> DEFINE p == Latest(PromptsOf(q))
  <2>1. PromptsOf(q) \in SUBSET Nat /\ \A x \in PromptsOf(q) : x <= Len(q)
    BY <1>1 DEF PromptsOf
  <2>2. p \in PromptsOf(q) /\ \A y \in PromptsOf(q) : y <= p
    BY <1>1, <1>5, <2>1, LatestIs
  <2>3. LastOf(q) = q[p].of
    BY <1>5 DEF LastOf
  <2> HIDE DEF p
  <2>4. p \in DOMAIN q /\ q[p].kind = "prompt" /\ q[p] \in Lines
    BY <1>1, <2>2 DEF PromptsOf
  <2>5. q[p] = Line("prompt", LastOf(q))
    BY <2>3, <2>4, LineIs
  <2>6. q[p].of \in 1..n
    BY <2>4 DEF WellTold, OfTurns, Turns
  <2>7. ASSUME NEW y \in PromptsOf(q) PROVE q[y].of <= q[p].of
    <3>1. y <= p /\ y \in Nat /\ p \in Nat
      BY <2>1, <2>2
    <3>2. CASE y = p
      BY <2>6, <3>2
    <3>3. CASE y < p
      BY <2>4, <3>3 DEF PromptsOf, WellTold, Ordered, InTurn, Turns
    <3> QED BY <3>1, <3>2, <3>3
  <2>8. \A i \in DOMAIN q : q[i].kind \in Turns => q[i].of <= q[p].of
    BY <1>2, <1>3, <2>7
  <2>9. LastOf(q) \in 0..n
    BY <2>3, <2>6
  <2>10. \A i \in DOMAIN q : q[i].kind \in Turns => q[i].of <= LastOf(q)
    BY <2>3, <2>8
  <2> QED BY <2>4, <2>5, <2>9, <2>10 DEF LastFacts
<1> QED BY <1>4, <1>5

\* A prompt at least as large as every line's is the last one.
LEMMA LastOfBy ==
    ASSUME NEW n \in Nat, NEW q \in Seq(Lines), WellTold(q, n), NEW k \in Nat,
           NEW p \in DOMAIN q, q[p] = Line("prompt", k),
           \A i \in DOMAIN q : q[i].kind = "prompt" => q[i].of <= k
    PROVE  LastOf(q) = k
<1> USE LineParts
<1>1. LastFacts(q, n)
  BY LastOfIs
<1>2. k <= LastOf(q) /\ LastOf(q) \in Nat
  BY <1>1 DEF LastFacts, Turns
<1>3. OfTurns(q, n)
  BY DEF WellTold
<1>4. k \in 1..n
  BY <1>3 DEF OfTurns, Turns
<1>5. LastOf(q) # 0
  BY <1>2, <1>4
<1>6. LastOf(q) <= k
  BY <1>1, <1>5 DEF LastFacts
<1> QED BY <1>2, <1>6

\* A reply changes nothing of the turns.
LEMMA ReplyTold ==
    ASSUME NEW n \in Nat, NEW q \in Seq(Lines), WellTold(q, n),
           NEW r \in DOMAIN q, q[r].kind \in Requests
    PROVE  /\ WellTold(Append(q, Line("reply", r)), n)
           /\ LastOf(Append(q, Line("reply", r))) = LastOf(q)
           /\ Running(Append(q, Line("reply", r))) = Running(q)
<1> DEFINE l == Line("reply", r)
           a == Append(q, l)
<1>0. DOMAIN q = 1..Len(q) /\ Len(q) \in Nat /\ r \in Nat
  OBVIOUS
<1>1. l \in Lines /\ l.kind = "reply" /\ l.of = r /\ l.kind \notin Turns /\ l.kind # "prompt"
  BY <1>0, LineType, LineParts DEF Turns, Output, Events, Requests
<1> HIDE DEF l
<1>2. /\ a \in Seq(Lines) /\ DOMAIN a = 1..(Len(q) + 1)
      /\ \A i \in DOMAIN q : i \in DOMAIN a /\ a[i] = q[i]
      /\ a[Len(q) + 1] = l
      /\ \A i \in DOMAIN a : i \in DOMAIN q \/ i = Len(q) + 1
  BY <1>1, AppendIs
<1> HIDE DEF a
<1>3. \A i \in DOMAIN a : a[i].kind \in Turns => i \in DOMAIN q /\ a[i] = q[i]
  BY <1>1, <1>2
<1>4. OfTurns(a, n)
  BY <1>3 DEF WellTold, OfTurns
<1>5. Ordered(a)
  BY <1>3 DEF WellTold, Ordered
<1>6. AfterPrompts(a)
  <2>1. \A i \in DOMAIN a : a[i].kind \in Output => i \in DOMAIN q /\ a[i] = q[i]
    BY <1>3 DEF Turns
  <2> QED BY <1>2, <2>1 DEF WellTold, AfterPrompts
<1>7. Replies(a)
  BY <1>1, <1>2 DEF WellTold, Replies
<1>8. PromptsOf(a) = PromptsOf(q)
  BY <1>1, <1>2 DEF PromptsOf
<1>9. LastOf(a) = LastOf(q)
  <2>1. CASE PromptsOf(q) = {}
    BY <1>8, <2>1 DEF LastOf
  <2>2. CASE PromptsOf(q) # {}
    <3>1. PromptsOf(q) \in SUBSET Nat /\ \A x \in PromptsOf(q) : x <= Len(q)
      BY <1>0 DEF PromptsOf
    <3>2. Latest(PromptsOf(q)) \in PromptsOf(q)
      BY <1>0, <2>2, <3>1, LatestIs
    <3>3. Latest(PromptsOf(q)) \in DOMAIN q
      BY <3>2 DEF PromptsOf
    <3> QED BY <1>2, <1>8, <2>2, <3>3 DEF LastOf
  <2> QED BY <2>1, <2>2
<1>10. Running(a) = Running(q)
  <2>1. l # Line("stop", LastOf(q))
    BY <1>1, LineParts
  <2> QED BY <1>2, <1>9, <2>1 DEF Running
<1> QED BY <1>4, <1>5, <1>6, <1>7, <1>9, <1>10 DEF WellTold, a, l

\* A running turn says a line: the turn stays the last, and runs unless
\* the line is its stop reason.
LEMMA SaysTold ==
    ASSUME NEW n \in Nat, NEW q \in Seq(Lines), WellTold(q, n), Running(q),
           NEW k \in Output
    PROVE  /\ WellTold(Append(q, Line(k, LastOf(q))), n)
           /\ LastOf(Append(q, Line(k, LastOf(q)))) = LastOf(q)
           /\ Running(Append(q, Line(k, LastOf(q)))) = (k # "stop")
<1> DEFINE l == Line(k, LastOf(q))
           a == Append(q, l)
<1>0. DOMAIN q = 1..Len(q) /\ Len(q) \in Nat
  OBVIOUS
<1>a. LastFacts(q, n)
  BY LastOfIs
<1>b. LastOf(q) \in 1..n /\ LastOf(q) \in Nat
  BY <1>a DEF LastFacts, Running
<1>c. PICK p \in DOMAIN q : q[p] = Line("prompt", LastOf(q))
  BY <1>a, <1>b DEF LastFacts
<1>1. l \in Lines /\ l.kind = k /\ l.of = LastOf(q) /\ l.kind \in Turns /\ k # "prompt" /\ k # "reply"
  BY <1>b, LineType, LineParts DEF Turns, Output, Events, Requests
<1> HIDE DEF l
<1>2. /\ a \in Seq(Lines) /\ DOMAIN a = 1..(Len(q) + 1)
      /\ \A i \in DOMAIN q : i \in DOMAIN a /\ a[i] = q[i]
      /\ a[Len(q) + 1] = l
      /\ \A i \in DOMAIN a : i \in DOMAIN q \/ i = Len(q) + 1
  BY <1>1, AppendIs
<1> HIDE DEF a
<1>4. OfTurns(a, n)
  BY <1>b, <1>1, <1>2 DEF WellTold, OfTurns
<1>5. Ordered(a)
  <2> SUFFICES ASSUME NEW i \in DOMAIN a, NEW j \in DOMAIN a, i < j,
                      a[i].kind \in Turns, a[j].kind \in Turns
               PROVE  InTurn(a[i], a[j])
    BY DEF Ordered
  <2>1. i \in DOMAIN q /\ a[i] = q[i]
    BY <1>0, <1>2
  <2>2. CASE j \in DOMAIN q
    BY <1>2, <2>1, <2>2 DEF WellTold, Ordered
  <2>3. CASE j = Len(q) + 1
    <3>1. q[i].of <= LastOf(q)
      BY <1>a, <2>1 DEF LastFacts
    <3>2. q[i].kind = "stop" => q[i].of # LastOf(q)
      <4>1. q[i] \in Lines
        BY <2>1
      <4>2. q[i] = Line(q[i].kind, q[i].of)
        BY <4>1, LineIs
      <4>3. q[i] # Line("stop", LastOf(q))
        BY <2>1 DEF Running
      <4> QED BY <4>2, <4>3
    <3>a. q[i] \in Lines
      BY <2>1
    <3>3. q[i].of \in Nat
      BY <3>a DEF Lines
    <3>4. a[j] = l
      BY <1>2, <2>3
    <3>5. a[j].kind # "prompt" /\ a[j].of = LastOf(q)
      BY <1>1, <3>4
    <3>6. a[i].of <= a[j].of
      BY <2>1, <3>1, <3>5
    <3>7. q[i].kind = "stop" => q[i].of < LastOf(q)
      BY <1>b, <3>1, <3>2, <3>3
    <3>8. a[i].kind = "stop" => a[i].of < a[j].of
      BY <2>1, <3>5, <3>7
    <3> QED BY <3>5, <3>6, <3>8 DEF InTurn
  <2> QED BY <1>2, <2>2, <2>3
<1>6. AfterPrompts(a)
  <2> SUFFICES ASSUME NEW j \in DOMAIN a, a[j].kind \in Output
               PROVE  \E i \in DOMAIN a : i < j /\ a[i] = Line("prompt", a[j].of)
    BY DEF AfterPrompts
  <2>1. CASE j \in DOMAIN q
    BY <1>2, <2>1 DEF WellTold, AfterPrompts
  <2>2. CASE j = Len(q) + 1
    <3>1. p < j
      BY <1>0, <2>2
    <3> QED BY <1>1, <1>2, <1>c, <2>2, <3>1
  <2> QED BY <1>2, <2>1, <2>2
<1>7. Replies(a)
  BY <1>1, <1>2 DEF WellTold, Replies
<1>8. WellTold(a, n)
  BY <1>4, <1>5, <1>6, <1>7 DEF WellTold
<1>9. LastOf(a) = LastOf(q)
  <2>1. p \in DOMAIN a /\ a[p] = Line("prompt", LastOf(q))
    BY <1>2, <1>c
  <2>2. \A i \in DOMAIN a : a[i].kind = "prompt" => a[i].of <= LastOf(q)
    BY <1>a, <1>1, <1>2 DEF LastFacts, Turns
  <2> QED BY <1>b, <1>2, <1>8, <2>1, <2>2, LastOfBy
<1>10. Running(a) = (k # "stop")
  <2>1. (l = Line("stop", LastOf(q))) <=> (k = "stop")
    BY <1>1, LineParts DEF l
  <2>2. (\A i \in DOMAIN a : a[i] # Line("stop", LastOf(q))) <=> k # "stop"
    BY <1>2, <2>1 DEF Running
  <2> QED BY <1>9, <2>2 DEF Running
<1> QED BY <1>8, <1>9, <1>10 DEF a, l

\* A prompt later than all: its turn is the last, and runs.
LEMMA PromptTold ==
    ASSUME NEW n \in Nat \ {0}, NEW q \in Seq(Lines), WellTold(q, n),
           \A i \in PromptsOf(q) : q[i].of < n
    PROVE  /\ WellTold(Append(q, Line("prompt", n)), n)
           /\ LastOf(Append(q, Line("prompt", n))) = n
           /\ Running(Append(q, Line("prompt", n)))
           /\ \A i \in DOMAIN q : q[i].kind \in Turns => q[i].of < n
<1> DEFINE l == Line("prompt", n)
           a == Append(q, l)
<1>0. DOMAIN q = 1..Len(q) /\ Len(q) \in Nat
  OBVIOUS
<1>1. l \in Lines /\ l.kind = "prompt" /\ l.of = n /\ l.kind \in Turns /\ l.kind \notin Output
  BY LineType, LineParts DEF Turns, Output, Events, Requests
<1> HIDE DEF l
<1>2. /\ a \in Seq(Lines) /\ DOMAIN a = 1..(Len(q) + 1)
      /\ \A i \in DOMAIN q : i \in DOMAIN a /\ a[i] = q[i]
      /\ a[Len(q) + 1] = l
      /\ \A i \in DOMAIN a : i \in DOMAIN q \/ i = Len(q) + 1
  BY <1>1, AppendIs
<1> HIDE DEF a
<1>3. \A i \in DOMAIN q : q[i].kind \in Turns => q[i].of < n
  <2> SUFFICES ASSUME NEW i \in DOMAIN q, q[i].kind \in Turns PROVE q[i].of < n
    OBVIOUS
  <2>1. CASE q[i].kind = "prompt"
    BY <2>1 DEF PromptsOf
  <2>2. CASE q[i].kind \in Output
    <3>1. PICK p \in DOMAIN q : q[p] = Line("prompt", q[i].of)
      BY <2>2 DEF WellTold, AfterPrompts
    <3>2. q[p].kind = "prompt" /\ q[p].of = q[i].of
      BY <3>1, LineParts
    <3> QED BY <3>2 DEF PromptsOf
  <2> QED BY <2>1, <2>2 DEF Turns
<1>4. OfTurns(a, n)
  BY <1>1, <1>2 DEF WellTold, OfTurns
<1>5. Ordered(a)
  <2> SUFFICES ASSUME NEW i \in DOMAIN a, NEW j \in DOMAIN a, i < j,
                      a[i].kind \in Turns, a[j].kind \in Turns
               PROVE  InTurn(a[i], a[j])
    BY DEF Ordered
  <2>1. i \in DOMAIN q /\ a[i] = q[i]
    BY <1>0, <1>2
  <2>2. CASE j \in DOMAIN q
    BY <1>2, <2>1, <2>2 DEF WellTold, Ordered
  <2>3. CASE j = Len(q) + 1
    <3>a. q[i].kind \in Turns /\ q[i] \in Lines
      BY <2>1
    <3>1. q[i].of < n /\ q[i].of \in Nat
      BY <1>3, <2>1, <3>a DEF Lines
    <3>2. a[j].of = n
      BY <1>1, <1>2, <2>3
    <3>3. a[i].of < a[j].of /\ a[i].of <= a[j].of
      BY <2>1, <3>1, <3>2
    <3> QED BY <3>3 DEF InTurn
  <2> QED BY <1>2, <2>2, <2>3
<1>6. AfterPrompts(a)
  <2>1. \A i \in DOMAIN a : a[i].kind \in Output => i \in DOMAIN q /\ a[i] = q[i]
    BY <1>1, <1>2
  <2> QED BY <1>2, <2>1 DEF WellTold, AfterPrompts
<1>7. Replies(a)
  BY <1>1, <1>2 DEF WellTold, Replies
<1>8. WellTold(a, n)
  BY <1>4, <1>5, <1>6, <1>7 DEF WellTold
<1>9. LastOf(a) = n
  <2>1. Len(q) + 1 \in DOMAIN a /\ a[Len(q) + 1] = Line("prompt", n)
    BY <1>0, <1>2 DEF l
  <2>2. \A i \in DOMAIN a : a[i].kind = "prompt" => a[i].of <= n
    <3>1. ASSUME NEW i \in DOMAIN a, a[i].kind = "prompt" PROVE a[i].of <= n
      <4>1. a[i].of \in 1..n
        BY <1>4, <3>1 DEF OfTurns, Turns
      <4> QED BY <4>1
    <3> QED BY <3>1
  <2> QED BY <1>2, <1>8, <2>1, <2>2, LastOfBy
<1>10. Running(a)
  <2>1. l # Line("stop", n)
    BY <1>1, LineParts
  <2>2. ASSUME NEW i \in DOMAIN q PROVE q[i] # Line("stop", n)
    <3>1. q[i] = Line("stop", n) => q[i].kind \in Turns /\ q[i].of = n
      BY LineParts DEF Turns, Output
    <3> QED BY <1>3, <3>1
  <2> QED BY <1>2, <1>9, <2>1, <2>2 DEF Running
<1> QED BY <1>3, <1>8, <1>9, <1>10 DEF a, l

\* A submitted prompt leaves the transcript well told, of older turns only.
LEMMA NextTold ==
    ASSUME NEW n \in Nat, NEW q \in Seq(Lines), WellTold(q, n)
    PROVE  /\ WellTold(q, n + 1)
           /\ \A i \in DOMAIN q : q[i].kind \in Turns => q[i].of < n + 1
<1>1. \A i \in DOMAIN q : q[i].kind \in Turns => q[i].of \in 1..n
  BY DEF WellTold, OfTurns
<1>2. \A i \in DOMAIN q : q[i].kind \in Turns => q[i].of \in 1..(n+1) /\ q[i].of < n + 1
  BY <1>1
<1>3. OfTurns(q, n + 1)
  BY <1>2 DEF OfTurns
<1> QED BY <1>2, <1>3 DEF WellTold

\* A fresh relay's transcript is well told, and nothing runs on it.
LEMMA NothingTold ==
    ASSUME NEW n \in Nat
    PROVE  WellTold(<<>>, n) /\ LastOf(<<>>) = 0 /\ ~Running(<<>>)
<1>1. DOMAIN <<>> = {}
  OBVIOUS
<1> HIDE <1>1
<1>2. PromptsOf(<<>>) = {}
  BY <1>1 DEF PromptsOf
<1>3. LastOf(<<>>) = 0
  BY <1>2 DEF LastOf
<1> QED BY <1>1, <1>3 DEF WellTold, OfTurns, Ordered, AfterPrompts, Replies, Running

\* A stop reason is the last that its turn says.
LEMMA StopIsLast ==
    ASSUME NEW n \in Nat, NEW q \in Seq(Lines), WellTold(q, n),
           NEW i \in DOMAIN q, q[i] = Line("stop", LastOf(q)),
           NEW j \in DOMAIN q, q[j].kind \in Output
    PROVE  j <= i
<1>1. LastFacts(q, n)
  BY LastOfIs
<1>2. q[i].kind = "stop" /\ q[i].of = LastOf(q) /\ q[i].kind \in Turns /\ q[j].kind \in Turns
  BY LineParts DEF Turns, Output
<1>a. LastOf(q) \in Nat
  BY <1>1 DEF LastFacts
<1>b. q[j] \in Lines
  OBVIOUS
<1>c. q[j].of \in Nat
  BY <1>b DEF Lines
<1>d. q[j].of <= LastOf(q)
  BY <1>1, <1>2 DEF LastFacts
<1>3. q[j].of <= LastOf(q) /\ LastOf(q) \in Nat /\ q[j].of \in Nat
  BY <1>a, <1>c, <1>d
<1>4. i < j => q[i].of < q[j].of
  BY <1>2 DEF WellTold, Ordered, InTurn
<1>5. i \in Nat /\ j \in Nat
  OBVIOUS
<1> QED BY <1>2, <1>3, <1>4, <1>5

-----------------------------------------------------------------------------
(* The inductive invariant, of a task t, a relay r, a daemon d and the     *)
(* places g that crashes left unacknowledged.                              *)

Tasks ==
    [prompt : 0..MaxPrompts, phase : {"queued", "dispatched", "done"}, cursor : Nat,
     epoch : Nat, progress : Seq(Nat), outcome : {"none", "completed", "failed"}]

Relays ==
    [epoch : 1..MaxRelays, lines : Seq(Lines), acked : Nat, following : BOOLEAN,
     sent : Seq(Nat)]

Daemons ==
    [stage : {"idle", "down", "dispatching", "prompting", "waiting"}, cursor : Nat,
     commits : Seq(Nat), toAck : Nat, serving : SUBSET Nat, stop : Nat]

\* The task was dispatched to this relay; and is not over yet.
Here(t, r) == t.phase # "queued" /\ t.epoch = r.epoch
Live(t, r) == t.phase = "dispatched" /\ t.epoch = r.epoch

AtWork(d) == d.stage \in {"prompting", "waiting"}

\* A prompt that is yet to be sent, and not lost, is on no transcript.
Asked(t, r, d) ==
    t.phase = "queued" \/ d.stage = "dispatching" =>
        \A i \in PromptsOf(r.lines) : r.lines[i].of < t.prompt

\* What the daemon does fits the task; a turn that runs is the task's.
Phased(t, r, d) ==
    /\ t.epoch <= r.epoch
    /\ t.phase # "done" => t.prompt # 0
    /\ t.phase = "queued" => t.progress = <<>>
    /\ d.stage = "dispatching" => Live(t, r) /\ r.following
    /\ AtWork(d) => Live(t, r) /\ r.following /\ LastOf(r.lines) # 0
    /\ d.stage = "idle" /\ ~Live(t, r) => r.following
    /\ t.phase = "dispatched" /\ ~Live(t, r) =>
           r.lines = <<>> /\ d.stage \in {"idle", "down"}
    /\ Running(r.lines) =>
           Live(t, r) /\ LastOf(r.lines) = t.prompt /\ (AtWork(d) \/ ~r.following)

\* A daemon that has no handler has nothing under way.
Rested(r, d) ==
    /\ ~AtWork(d) => d.commits = <<>> /\ d.stop = 0 /\ r.sent = <<>>
    /\ d.stop # 0 => d.stop = LastOf(r.lines) /\ ~Running(r.lines) /\ r.sent = <<>>
    /\ d.stage = "down" => d.serving = {} /\ d.cursor = 0

Place(r, i, kinds) == i \in DOMAIN r.lines /\ r.lines[i].kind \in kinds

\* What is kept of the transcript's places is on the transcript.
Placed(t, r, d) ==
    /\ d.cursor <= Len(r.lines)
    /\ r.acked <= Len(r.lines)
    /\ \A k \in DOMAIN d.commits : Place(r, d.commits[k], Events)
    /\ \A k \in DOMAIN r.sent : Place(r, r.sent[k], Output)
    /\ \A x \in d.serving : Place(r, x, Requests)
    /\ Here(t, r) =>
           /\ t.cursor <= Len(r.lines)
           /\ \A k \in DOMAIN t.progress :
                  t.progress[k] \in DOMAIN r.lines /\ t.progress[k] <= t.cursor

\* The checkpoint is before the prompt's stop reason, and nothing that the
\* prompt said past it is acknowledged.
Marked(t, r) ==
    Live(t, r) =>
        /\ \A i \in DOMAIN r.lines : r.lines[i] = Line("stop", t.prompt) => t.cursor < i
        /\ \A i \in DOMAIN r.lines :
               r.lines[i] = Line("event", t.prompt) /\ i <= r.acked => i <= t.cursor

\* A handler acknowledges the checkpoint; what the prompt said up to it is
\* acknowledged, or about to be, or was left so by a crash.
Acking(t, r, d, g) ==
    /\ d.toAck # 0 => d.toAck = t.cursor /\ (AtWork(d) \/ d.stage = "dispatching")
    /\ Live(t, r) =>
           \A i \in DOMAIN r.lines :
               r.lines[i] = Line("event", t.prompt) /\ i <= t.cursor
                   => i <= r.acked \/ i = d.toAck \/ i \in g

\* What was said in the turns before is acknowledged, or was left unacknowledged.
Settled(t, r, g) ==
    \A i \in DOMAIN r.lines :
        r.lines[i].kind = "event" =>
            i <= r.acked \/ i \in g \/ (r.lines[i].of = t.prompt /\ Live(t, r))

\* A list of places past the checkpoint: of another turn's events, only
\* those that were left unacknowledged.
Own(t, r, q, g) ==
    \A k \in DOMAIN q :
        /\ q[k] > t.cursor
        /\ r.lines[q[k]].kind = "event" => r.lines[q[k]].of = t.prompt \/ q[k] \in g

In(i, q) == \E k \in DOMAIN q : q[k] = i

\* What a handler has still to commit or to read is what the prompt said
\* past the checkpoint, in order.
Pending(t, r, d, g) ==
    AtWork(d) =>
        /\ Ascends(d.commits) /\ Ascends(r.sent)
        /\ \A k \in DOMAIN d.commits, l \in DOMAIN r.sent : d.commits[k] < r.sent[l]
        /\ Own(t, r, d.commits, g) /\ Own(t, r, r.sent, g)
        /\ \A i \in DOMAIN r.lines :
               r.lines[i] = Line("event", t.prompt) /\ i > t.cursor
                   => In(i, d.commits) \/ In(i, r.sent)

\* ProgressIsTheOutput.
Exact(t, r, g) ==
    Here(t, r) =>
        /\ Ascends(t.progress)
        /\ \A k \in DOMAIN t.progress :
               r.lines[t.progress[k]].kind = "event" =>
                   r.lines[t.progress[k]].of = t.prompt \/ t.progress[k] \in g
        /\ \A i \in DOMAIN r.lines :
               r.lines[i] = Line("event", t.prompt) /\ i <= t.cursor => In(i, t.progress)

Good(t, r, d, g) ==
    /\ t \in Tasks /\ r \in Relays /\ d \in Daemons
    /\ WellTold(r.lines, t.prompt)
    /\ Asked(t, r, d)
    /\ Phased(t, r, d)
    /\ Rested(r, d)
    /\ Placed(t, r, d)
    /\ Marked(t, r)
    /\ Acking(t, r, d, g)
    /\ Settled(t, r, g)
    /\ Pending(t, r, d, g)
    /\ Exact(t, r, g)

RecoveryInv ==
    /\ Good(task, relay, daemon, unacked)
    /\ crashes \in 0..MaxCrashes /\ ended \in Nat /\ skipped \in BOOLEAN
    /\ unacked \in SUBSET Nat

\* The fields of the three records, and where they range.
LEMMA Fields ==
    ASSUME NEW t \in Tasks, NEW r \in Relays, NEW d \in Daemons
    PROVE  /\ t.prompt \in Nat /\ t.prompt \in 0..MaxPrompts /\ t.cursor \in Nat
           /\ t.epoch \in Nat /\ t.progress \in Seq(Nat)
           /\ r.epoch \in 1..MaxRelays /\ r.epoch \in Nat /\ r.lines \in Seq(Lines)
           /\ r.acked \in Nat /\ r.sent \in Seq(Nat) /\ r.following \in BOOLEAN
           /\ d.cursor \in Nat /\ d.commits \in Seq(Nat) /\ d.serving \in SUBSET Nat
           /\ d.stop \in Nat /\ d.toAck \in Nat
<1>1. t.prompt \in 0..MaxPrompts /\ t.cursor \in Nat /\ t.epoch \in Nat /\ t.progress \in Seq(Nat)
  BY DEF Tasks
<1>2. /\ r.epoch \in 1..MaxRelays /\ r.lines \in Seq(Lines) /\ r.acked \in Nat
      /\ r.sent \in Seq(Nat) /\ r.following \in BOOLEAN
  BY DEF Relays
<1>3. /\ d.cursor \in Nat /\ d.commits \in Seq(Nat) /\ d.serving \in SUBSET Nat
      /\ d.stop \in Nat /\ d.toAck \in Nat
  BY DEF Daemons
<1>4. t.prompt \in Nat
  BY <1>1
<1>5. r.epoch \in Nat
  BY <1>2
<1> QED BY <1>1, <1>2, <1>3, <1>4, <1>5

\* LastPrompt, InFlight and the rest, of the relay's transcript.
LEMMA Reading ==
    ASSUME relay \in Relays
    PROVE  /\ LastPrompt = LastOf(relay.lines)
           /\ InFlight = Running(relay.lines)
           /\ Prompts = PromptsOf(relay.lines)
<1>1. Prompts = PromptsOf(relay.lines)
  BY DEF Prompts, PromptsOf
<1>2. LastPrompt = LastOf(relay.lines)
  BY <1>1 DEF LastPrompt, LastOf
<1>3. InFlight <=> Running(relay.lines)
  BY <1>2 DEF InFlight, Running, Places
<1>4. InFlight \in BOOLEAN /\ Running(relay.lines) \in BOOLEAN
  BY DEF InFlight, Running
<1> QED BY <1>1, <1>2, <1>3, <1>4

\* Ascending lists, and what one more or one less place makes of them.
LEMMA AscendsAppend ==
    ASSUME NEW q \in Seq(Nat), NEW e \in Nat, Ascends(q),
           \A k \in DOMAIN q : q[k] < e
    PROVE  Ascends(Append(q, e))
<1>1. /\ DOMAIN q = 1..Len(q) /\ Len(q) \in Nat
      /\ DOMAIN Append(q, e) = 1..(Len(q) + 1)
      /\ \A i \in DOMAIN q : i \in DOMAIN Append(q, e) /\ Append(q, e)[i] = q[i]
      /\ Append(q, e)[Len(q) + 1] = e
      /\ \A i \in DOMAIN Append(q, e) : i \in DOMAIN q \/ i = Len(q) + 1
  BY AppendIs
<1> DEFINE a == Append(q, e)
<1> HIDE DEF a
<1>2. ASSUME NEW i \in DOMAIN a, NEW j \in DOMAIN a, i < j PROVE a[i] < a[j]
  <2>1. i \in DOMAIN q
    BY <1>1, <1>2 DEF a
  <2>2. CASE j \in DOMAIN q
    BY <1>1, <1>2, <2>1, <2>2 DEF a, Ascends
  <2>3. CASE j = Len(q) + 1
    BY <1>1, <2>1, <2>3 DEF a
  <2> QED BY <1>1, <2>2, <2>3 DEF a
<1> QED BY <1>2 DEF a, Ascends

\* Taking the head leaves the other elements, one place earlier.
LEMMA TailIs ==
    ASSUME NEW q \in Seq(Nat), q # <<>>
    PROVE  /\ Tail(q) \in Seq(Nat) /\ Head(q) \in Nat
           /\ 1 \in DOMAIN q /\ Head(q) = q[1]
           /\ \A k \in DOMAIN Tail(q) : k + 1 \in DOMAIN q /\ Tail(q)[k] = q[k + 1] /\ k \in Nat
           /\ \A k \in DOMAIN q : k = 1 \/ (k - 1 \in DOMAIN Tail(q) /\ Tail(q)[k - 1] = q[k])
<1>1. Len(q) \in Nat \ {0} /\ DOMAIN q = 1..Len(q)
  BY EmptySeq
<1>2. Tail(q) \in Seq(Nat) /\ Len(Tail(q)) = Len(q) - 1 /\ Head(q) \in Nat /\ Head(q) = q[1]
  OBVIOUS
<1>3. DOMAIN Tail(q) = 1..(Len(q) - 1)
  BY <1>2
<1>4. \A k \in 1..(Len(q) - 1) : Tail(q)[k] = q[k + 1]
  OBVIOUS
<1> QED BY <1>1, <1>2, <1>3, <1>4

\* The tail of an ascending sequence ascends, above its head.
LEMMA TailAscends ==
    ASSUME NEW q \in Seq(Nat), q # <<>>, Ascends(q)
    PROVE  /\ Ascends(Tail(q))
           /\ \A k \in DOMAIN Tail(q) : Head(q) < Tail(q)[k]
<1>1. /\ 1 \in DOMAIN q /\ Head(q) = q[1]
      /\ \A k \in DOMAIN Tail(q) : k + 1 \in DOMAIN q /\ Tail(q)[k] = q[k + 1] /\ k \in Nat
  BY TailIs
<1> DEFINE u == Tail(q)
<1>2. \A k \in DOMAIN u : k >= 1
  BY TailIs
<1> HIDE DEF u
<1>3. ASSUME NEW i \in DOMAIN u, NEW j \in DOMAIN u, i < j PROVE u[i] < u[j]
  <2>1. i + 1 < j + 1
    BY <1>1, <1>3 DEF u
  <2> QED BY <1>1, <2>1 DEF u, Ascends
<1>4. ASSUME NEW k \in DOMAIN u PROVE Head(q) < u[k]
  <2>1. 1 < k + 1
    BY <1>1, <1>2 DEF u
  <2> QED BY <1>1, <2>1 DEF u, Ascends
<1> QED BY <1>3, <1>4 DEF u, Ascends

\* What a transcript q2 that continues q keeps of it.
Continues(q, q2) ==
    /\ Len(q) <= Len(q2)
    /\ \A i \in DOMAIN q : i \in DOMAIN q2 /\ q2[i] = q[i] /\ i <= Len(q)
    /\ \A i \in DOMAIN q2 : i \in DOMAIN q \/ i > Len(q)

\* A transcript with one more line continues the one before it.
LEMMA AppendContinues ==
    ASSUME NEW q \in Seq(Lines), NEW l \in Lines
    PROVE  Continues(q, Append(q, l))
<1>1. /\ DOMAIN q = 1..Len(q) /\ Len(q) \in Nat
      /\ Len(Append(q, l)) = Len(q) + 1
      /\ \A i \in DOMAIN q : i \in DOMAIN Append(q, l) /\ Append(q, l)[i] = q[i]
      /\ \A i \in DOMAIN Append(q, l) : i \in DOMAIN q \/ i = Len(q) + 1
  BY AppendIs
<1> QED BY <1>1 DEF Continues

\* Places stay where they are while the transcript goes on.
LEMMA PlacedOn ==
    ASSUME NEW t \in Tasks, NEW r \in Relays, NEW d \in Daemons, Placed(t, r, d),
           NEW r2 \in Relays, Continues(r.lines, r2.lines), r2.epoch = r.epoch,
           r2.acked = r.acked, \A k \in DOMAIN r2.sent : Place(r2, r2.sent[k], Output)
    PROVE  Placed(t, r2, d)
<1>0. /\ r.acked \in Nat /\ d.cursor \in Nat /\ t.cursor \in Nat
      /\ r.lines \in Seq(Lines) /\ r2.lines \in Seq(Lines)
  BY Fields
<1>1. Len(r.lines) \in Nat /\ Len(r2.lines) \in Nat /\ Len(r.lines) <= Len(r2.lines)
  BY <1>0 DEF Continues
<1>2. d.cursor <= Len(r2.lines) /\ r2.acked <= Len(r2.lines)
  BY <1>0, <1>1 DEF Placed
<1>3. \A i, kinds : Place(r, i, kinds) => Place(r2, i, kinds)
  BY DEF Continues, Place
<1>4. /\ \A k \in DOMAIN d.commits : Place(r2, d.commits[k], Events)
      /\ \A x \in d.serving : Place(r2, x, Requests)
  BY <1>3 DEF Placed
<1>5. Here(t, r2) => Here(t, r)
  BY DEF Here
<1>6. ASSUME Here(t, r2)
      PROVE  /\ t.cursor <= Len(r2.lines)
             /\ \A k \in DOMAIN t.progress :
                    t.progress[k] \in DOMAIN r2.lines /\ t.progress[k] <= t.cursor
  <2>1. /\ t.cursor <= Len(r.lines)
        /\ \A k \in DOMAIN t.progress :
               t.progress[k] \in DOMAIN r.lines /\ t.progress[k] <= t.cursor
    BY <1>5, <1>6 DEF Placed
  <2> QED BY <1>0, <1>1, <2>1 DEF Continues
<1> QED BY <1>2, <1>4, <1>6 DEF Placed

\* The stored progress is exact for as long as lines come after the checkpoint.
LEMMA ExactOn ==
    ASSUME NEW t \in Tasks, NEW r \in Relays, NEW d \in Daemons, NEW g, Placed(t, r, d), Exact(t, r, g),
           NEW r2 \in Relays, Continues(r.lines, r2.lines), r2.epoch = r.epoch
    PROVE  Exact(t, r2, g)
<1> SUFFICES ASSUME Here(t, r2)
             PROVE  /\ Ascends(t.progress)
                    /\ \A k \in DOMAIN t.progress :
                           r2.lines[t.progress[k]].kind = "event"
                               => r2.lines[t.progress[k]].of = t.prompt \/ t.progress[k] \in g
                    /\ \A i \in DOMAIN r2.lines :
                           r2.lines[i] = Line("event", t.prompt) /\ i <= t.cursor
                               => In(i, t.progress)
  BY DEF Exact
<1>0. /\ t.cursor \in Nat /\ r.lines \in Seq(Lines) /\ r2.lines \in Seq(Lines)
  BY Fields
<1>1. Here(t, r)
  BY DEF Here
<1>2. /\ t.cursor <= Len(r.lines)
      /\ \A k \in DOMAIN t.progress : t.progress[k] \in DOMAIN r.lines
  BY <1>1 DEF Placed
<1>3. \A k \in DOMAIN t.progress : r2.lines[t.progress[k]] = r.lines[t.progress[k]]
  BY <1>2 DEF Continues
<1>4. ASSUME NEW i \in DOMAIN r2.lines, i <= t.cursor PROVE i \in DOMAIN r.lines /\ r2.lines[i] = r.lines[i]
  <2>1. i \in Nat /\ Len(r.lines) \in Nat
    BY <1>0
  <2>2. ~(i > Len(r.lines))
    BY <1>0, <1>2, <1>4, <2>1
  <2> QED BY <2>2 DEF Continues
<1>5. /\ Ascends(t.progress)
      /\ \A k \in DOMAIN t.progress :
             r.lines[t.progress[k]].kind = "event" =>
                 r.lines[t.progress[k]].of = t.prompt \/ t.progress[k] \in g
      /\ \A i \in DOMAIN r.lines :
             r.lines[i] = Line("event", t.prompt) /\ i <= t.cursor => In(i, t.progress)
  BY <1>1 DEF Exact
<1> QED BY <1>3, <1>4, <1>5

\* The marks stay where they are when what comes is a line of any kind.
LEMMA MarkedOn ==
    ASSUME NEW t \in Tasks, NEW r \in Relays, NEW d \in Daemons,
           Placed(t, r, d), Marked(t, r),
           NEW r2 \in Relays, Continues(r.lines, r2.lines), r2.epoch = r.epoch,
           r2.acked = r.acked
    PROVE  Marked(t, r2)
<1> SUFFICES ASSUME Live(t, r2)
             PROVE  /\ \A i \in DOMAIN r2.lines :
                           r2.lines[i] = Line("stop", t.prompt) => t.cursor < i
                    /\ \A i \in DOMAIN r2.lines :
                           r2.lines[i] = Line("event", t.prompt) /\ i <= r2.acked
                               => i <= t.cursor
  BY DEF Marked
<1>0. /\ t.cursor \in Nat /\ r.acked \in Nat
      /\ r.lines \in Seq(Lines) /\ r2.lines \in Seq(Lines)
  BY Fields
<1>1. Live(t, r) /\ Here(t, r)
  BY DEF Live, Here
<1>2. t.cursor <= Len(r.lines) /\ r.acked <= Len(r.lines) /\ Len(r.lines) \in Nat
  BY <1>0, <1>1 DEF Placed
<1>3. /\ \A i \in DOMAIN r.lines : r.lines[i] = Line("stop", t.prompt) => t.cursor < i
      /\ \A i \in DOMAIN r.lines :
             r.lines[i] = Line("event", t.prompt) /\ i <= r.acked => i <= t.cursor
  BY <1>1 DEF Marked
<1>4. ASSUME NEW i \in DOMAIN r2.lines
      PROVE  \/ i \in DOMAIN r.lines /\ r2.lines[i] = r.lines[i]
             \/ i > Len(r.lines) /\ i \in Nat
  BY <1>0 DEF Continues
<1>5. ASSUME NEW i \in DOMAIN r2.lines, i > Len(r.lines) /\ i \in Nat
      PROVE  t.cursor < i /\ ~(i <= r2.acked)
  BY <1>0, <1>2, <1>5
<1> QED BY <1>3, <1>4, <1>5

\* What is being acknowledged stays so while lines come after the checkpoint.
LEMMA AckingOn ==
    ASSUME NEW t \in Tasks, NEW r \in Relays, NEW d \in Daemons, NEW g,
           Placed(t, r, d), Acking(t, r, d, g),
           NEW r2 \in Relays, Continues(r.lines, r2.lines), r2.epoch = r.epoch,
           r2.acked = r.acked,
           NEW d2, d2.toAck = d.toAck,
           AtWork(d) \/ d.stage = "dispatching" => AtWork(d2) \/ d2.stage = "dispatching"
    PROVE  Acking(t, r2, d2, g)
<1>0. t.cursor \in Nat /\ r.lines \in Seq(Lines) /\ r2.lines \in Seq(Lines)
  BY Fields
<1>1. d2.toAck # 0 => d2.toAck = t.cursor /\ (AtWork(d2) \/ d2.stage = "dispatching")
  BY DEF Acking
<1>2. ASSUME Live(t, r2), NEW i \in DOMAIN r2.lines, r2.lines[i] = Line("event", t.prompt),
             i <= t.cursor
      PROVE  i <= r2.acked \/ i = d2.toAck \/ i \in g
  <2>1. Live(t, r) /\ Here(t, r)
    BY <1>2 DEF Live, Here
  <2>2. t.cursor <= Len(r.lines) /\ Len(r.lines) \in Nat /\ i \in Nat
    BY <1>0, <2>1 DEF Placed
  <2>3. ~(i > Len(r.lines))
    BY <1>0, <1>2, <2>2
  <2>4. i \in DOMAIN r.lines /\ r.lines[i] = r2.lines[i]
    BY <2>3 DEF Continues
  <2> QED BY <1>2, <2>1, <2>4 DEF Acking
<1> QED BY <1>1, <1>2 DEF Acking

\* Lists of places mean the same while the transcript goes on.
LEMMA OwnOn ==
    ASSUME NEW t, NEW r, NEW g, NEW r2, Continues(r.lines, r2.lines), NEW q,
           \A k \in DOMAIN q : q[k] \in DOMAIN r.lines, Own(t, r, q, g)
    PROVE  Own(t, r2, q, g)
  BY DEF Own, Continues

-----------------------------------------------------------------------------
(* What each step does to it.                                              *)

\* The empty sequence has no places.
LEMMA EmptyDomain == DOMAIN <<>> = {}
  OBVIOUS

\* The process says a line of the turn that runs.
LEMMA OutputKeeps ==
    ASSUME NEW t, NEW r, NEW d, NEW g, Good(t, r, d, g), Running(r.lines), NEW k \in Output,
           NEW r2 \in Relays, r2.epoch = r.epoch, r2.acked = r.acked,
           r2.following = r.following,
           r2.lines = Append(r.lines, Line(k, LastOf(r.lines))),
           r2.sent = IF r.following THEN Append(r.sent, Len(r.lines) + 1) ELSE r.sent
    PROVE  Good(t, r2, d, g)
<1>a. /\ t \in Tasks /\ r \in Relays /\ d \in Daemons
      /\ WellTold(r.lines, t.prompt)
  BY DEF Good
<1>b. Asked(t, r, d) /\ Phased(t, r, d) /\ Rested(r, d) /\ Placed(t, r, d)
  BY DEF Good
<1>c. /\ Marked(t, r) /\ Settled(t, r, g) /\ Pending(t, r, d, g) /\ Exact(t, r, g)
      /\ Acking(t, r, d, g)
  BY DEF Good
<1>0. /\ t.prompt \in Nat /\ t.cursor \in Nat /\ r.lines \in Seq(Lines) /\ r.acked \in Nat
      /\ r.sent \in Seq(Nat) /\ d.commits \in Seq(Nat) /\ r.following \in BOOLEAN
  BY <1>a, Fields
<1> DEFINE l == Line(k, LastOf(r.lines))
           e == Len(r.lines) + 1
<1>1. Live(t, r) /\ LastOf(r.lines) = t.prompt /\ (AtWork(d) \/ ~r.following)
  BY <1>b DEF Phased
<1>2. l \in Lines /\ l.kind = k /\ l.of = t.prompt /\ k \in Turns /\ k # "prompt"
  BY <1>0, <1>1, LineType, LineParts DEF Turns, Output, Events, Requests
<1> HIDE DEF l
<1>3. r2.lines = Append(r.lines, l)
  BY DEF l
<1>4. Continues(r.lines, r2.lines)
  BY <1>0, <1>2, <1>3, AppendContinues
<1>5. /\ DOMAIN r.lines = 1..Len(r.lines) /\ Len(r.lines) \in Nat
      /\ \A i \in DOMAIN r.lines : i \in DOMAIN r2.lines /\ r2.lines[i] = r.lines[i]
      /\ e \in DOMAIN r2.lines /\ r2.lines[e] = l
      /\ \A i \in DOMAIN r2.lines : i \in DOMAIN r.lines \/ i = e
  BY <1>0, <1>2, <1>3, AppendIs
<1>6. WellTold(r2.lines, t.prompt) /\ LastOf(r2.lines) = LastOf(r.lines)
  BY <1>a, <1>0, SaysTold
<1>7. ASSUME AtWork(d)
      PROVE  /\ Pending(t, r2, d, g) /\ Rested(r2, d)
             /\ \A x \in DOMAIN r2.sent : Place(r2, r2.sent[x], Output)
  <2>1. r.following
    BY <1>b, <1>7 DEF Phased
  <2>2. r2.sent = Append(r.sent, e)
    BY <2>1
  <2>3. e \in Nat
    BY <1>5
  <2>4. /\ \A x \in DOMAIN r.sent : x \in DOMAIN r2.sent /\ r2.sent[x] = r.sent[x]
        /\ \A x \in DOMAIN r2.sent : x \in DOMAIN r.sent \/ r2.sent[x] = e
        /\ \E x \in DOMAIN r2.sent : r2.sent[x] = e
    <3>a. /\ DOMAIN Append(r.sent, e) = 1..(Len(r.sent) + 1)
          /\ Len(r.sent) \in Nat
      BY <1>0, <2>3, AppendIs
    <3>b. Len(r.sent) + 1 \in DOMAIN Append(r.sent, e)
      BY <3>a
    <3>c. r.sent \in Seq(Nat)
      BY <1>0
    <3> HIDE DEF e
    <3>1. /\ Append(r.sent, e)[Len(r.sent) + 1] = e
          /\ \A x \in DOMAIN r.sent : x \in DOMAIN Append(r.sent, e) /\ Append(r.sent, e)[x] = r.sent[x]
          /\ \A x \in DOMAIN Append(r.sent, e) : x \in DOMAIN r.sent \/ x = Len(r.sent) + 1
      BY <3>c, <2>3, AppendAt
    <3> QED BY <2>2, <3>1, <3>b
  <2>5. /\ Ascends(d.commits) /\ Ascends(r.sent)
        /\ \A x \in DOMAIN d.commits, y \in DOMAIN r.sent : d.commits[x] < r.sent[y]
        /\ Own(t, r, d.commits, g) /\ Own(t, r, r.sent, g)
        /\ \A i \in DOMAIN r.lines :
               r.lines[i] = Line("event", t.prompt) /\ i > t.cursor
                   => In(i, d.commits) \/ In(i, r.sent)
    BY <1>c, <1>7 DEF Pending
  <2>6. /\ \A x \in DOMAIN d.commits : d.commits[x] \in DOMAIN r.lines
        /\ \A x \in DOMAIN r.sent : r.sent[x] \in DOMAIN r.lines
    BY <1>b DEF Placed, Place
  <2>7. \A i \in DOMAIN r.lines : i < e /\ i \in Nat
    BY <1>5
  <2>8. Ascends(r2.sent)
    BY <1>0, <2>2, <2>3, <2>5, <2>6, <2>7, AscendsAppend
  <2>9. \A x \in DOMAIN d.commits, y \in DOMAIN r2.sent : d.commits[x] < r2.sent[y]
    BY <2>4, <2>5, <2>6, <2>7
  <2>10. t.cursor < e
    <3>1. t.cursor <= Len(r.lines)
      BY <1>1, <1>b DEF Placed, Here, Live
    <3> QED BY <1>0, <1>5, <3>1
  <2>11. Own(t, r2, d.commits, g)
    BY <1>4, <2>5, <2>6, OwnOn
  <2>12. Own(t, r2, r2.sent, g)
    <3>1. Own(t, r2, r.sent, g)
      BY <1>4, <2>5, <2>6, OwnOn
    <3>2. e > t.cursor /\ r2.lines[e].of = t.prompt
      BY <1>2, <1>5, <2>10
    <3> QED BY <2>4, <3>1, <3>2 DEF Own
  <2>13. ASSUME NEW i \in DOMAIN r2.lines, r2.lines[i] = Line("event", t.prompt), i > t.cursor
         PROVE  In(i, d.commits) \/ In(i, r2.sent)
    <3>1. CASE i = e
      BY <2>4, <3>1 DEF In
    <3>2. CASE i \in DOMAIN r.lines
      BY <1>5, <2>4, <2>5, <2>13, <3>2 DEF In
    <3> QED BY <1>5, <3>1, <3>2
  <2>14. Pending(t, r2, d, g)
    BY <2>5, <2>8, <2>9, <2>11, <2>12, <2>13 DEF Pending
  <2>15. \A x \in DOMAIN r2.sent : Place(r2, r2.sent[x], Output)
    <3>1. \A x \in DOMAIN r.sent : Place(r2, r.sent[x], Output)
      BY <1>b, <1>4 DEF Placed, Place, Continues
    <3>2. Place(r2, e, Output)
      BY <1>2, <1>5 DEF Place
    <3> QED BY <2>4, <3>1, <3>2
  <2>16. Rested(r2, d)
    <3>1. d.stop = 0 /\ d.stage # "down"
      BY <1>b, <1>7 DEF Rested, AtWork
    <3> QED BY <1>7, <3>1 DEF Rested
  <2> QED BY <2>14, <2>15, <2>16
<1>8. ASSUME ~AtWork(d)
      PROVE  /\ Pending(t, r2, d, g) /\ Rested(r2, d)
             /\ \A x \in DOMAIN r2.sent : Place(r2, r2.sent[x], Output)
  <2>1. r2.sent = r.sent
    BY <1>1, <1>8
  <2>2. r2.sent = <<>> /\ d.stop = 0
    BY <1>b, <1>8, <2>1 DEF Rested
  <2>3. Pending(t, r2, d, g)
    BY <1>8 DEF Pending
  <2>4. \A x \in DOMAIN r2.sent : Place(r2, r2.sent[x], Output)
    BY <2>2, EmptyDomain
  <2>5. Rested(r2, d)
    BY <1>b, <2>2 DEF Rested
  <2> QED BY <2>3, <2>4, <2>5
<1>9. /\ Pending(t, r2, d, g) /\ Rested(r2, d)
      /\ \A x \in DOMAIN r2.sent : Place(r2, r2.sent[x], Output)
  BY <1>7, <1>8
<1>10. Placed(t, r2, d)
  BY <1>a, <1>b, <1>4, <1>9, PlacedOn
<1>11. Marked(t, r2) /\ Exact(t, r2, g)
  BY <1>a, <1>b, <1>c, <1>4, MarkedOn, ExactOn
<1>12. Asked(t, r2, d)
  BY <1>b, <1>2, <1>5 DEF Asked, PromptsOf
<1>13. Live(t, r2)
  BY <1>1 DEF Live
<1>14. Phased(t, r2, d)
  <2>1. r2.lines # <<>>
    BY <1>5
  <2>2. d.stage = "dispatching" => r2.following
    BY <1>b DEF Phased
  <2> QED BY <1>1, <1>6, <1>b, <1>13 DEF Phased, Live
<1>15. Settled(t, r2, g)
  BY <1>c, <1>1, <1>2, <1>5, <1>13 DEF Settled
<1>16. Acking(t, r2, d, g)
  BY <1>a, <1>b, <1>c, <1>4, AckingOn
<1> QED BY <1>a, <1>6, <1>9, <1>10, <1>11, <1>12, <1>14, <1>15, <1>16 DEF Good

\* A request is answered.
LEMMA ReplyKeeps ==
    ASSUME NEW t, NEW r, NEW d, NEW g, Good(t, r, d, g), NEW x \in d.serving,
           NEW r2 \in Relays, r2.epoch = r.epoch, r2.acked = r.acked,
           r2.following = r.following, r2.sent = r.sent,
           r2.lines = Append(r.lines, Line("reply", x)),
           NEW d2 \in Daemons, d2.stage = d.stage, d2.cursor = d.cursor,
           d2.commits = d.commits, d2.stop = d.stop, d2.serving = d.serving \ {x},
           d2.toAck = d.toAck
    PROVE  Good(t, r2, d2, g)
<1>a. /\ t \in Tasks /\ r \in Relays /\ d \in Daemons
      /\ WellTold(r.lines, t.prompt)
  BY DEF Good
<1>b. Asked(t, r, d) /\ Phased(t, r, d) /\ Rested(r, d) /\ Placed(t, r, d)
  BY DEF Good
<1>c. /\ Marked(t, r) /\ Settled(t, r, g) /\ Pending(t, r, d, g) /\ Exact(t, r, g)
      /\ Acking(t, r, d, g)
  BY DEF Good
<1>0. /\ t.prompt \in Nat /\ r.lines \in Seq(Lines) /\ x \in Nat
  BY <1>a, Fields
<1> DEFINE l == Line("reply", x)
           e == Len(r.lines) + 1
<1>1. Place(r, x, Requests)
  BY <1>b DEF Placed
<1>2. l \in Lines /\ l.kind = "reply" /\ l.kind \notin Turns /\ l.kind # "prompt" /\ l.kind # "event"
  BY <1>0, LineType, LineParts DEF Turns, Output, Events, Requests
<1>3. WellTold(r2.lines, t.prompt) /\ LastOf(r2.lines) = LastOf(r.lines)
      /\ Running(r2.lines) = Running(r.lines)
  BY <1>a, <1>0, <1>1, ReplyTold DEF Place
<1>z. l # Line("event", t.prompt)
  BY LineParts
<1> HIDE DEF l
<1>4. r2.lines = Append(r.lines, l)
  BY DEF l
<1>5. Continues(r.lines, r2.lines)
  BY <1>0, <1>2, <1>4, AppendContinues
<1>6. /\ DOMAIN r.lines = 1..Len(r.lines) /\ Len(r.lines) \in Nat
      /\ \A i \in DOMAIN r.lines : i \in DOMAIN r2.lines /\ r2.lines[i] = r.lines[i]
      /\ e \in DOMAIN r2.lines /\ r2.lines[e] = l
      /\ \A i \in DOMAIN r2.lines : i \in DOMAIN r.lines \/ i = e
  BY <1>0, <1>2, <1>4, AppendIs
<1>7. AtWork(d2) = AtWork(d)
  BY DEF AtWork
<1>8. \A k \in DOMAIN r2.sent : Place(r2, r2.sent[k], Output)
  BY <1>b, <1>5 DEF Placed, Place, Continues
<1>9. Placed(t, r2, d)
  BY <1>a, <1>b, <1>5, <1>8, PlacedOn
<1>10. Placed(t, r2, d2)
  BY <1>9 DEF Placed
<1>11. Marked(t, r2) /\ Exact(t, r2, g)
  BY <1>a, <1>b, <1>c, <1>5, MarkedOn, ExactOn
<1>12. Asked(t, r2, d2)
  BY <1>b, <1>2, <1>6 DEF Asked, PromptsOf
<1>13. Live(t, r2) = Live(t, r)
  BY DEF Live
<1>14. Phased(t, r2, d2)
  <2>1. ~(t.phase = "dispatched" /\ ~Live(t, r))
    <3>1. DOMAIN r.lines # {}
      BY <1>1 DEF Place
    <3>2. r.lines # <<>>
      BY <3>1, EmptyDomain
    <3> QED BY <1>b, <3>2 DEF Phased
  <2> QED BY <1>b, <1>3, <1>7, <1>13, <2>1 DEF Phased
<1>15. Rested(r2, d2)
  <2>1. d.stage # "down"
    BY <1>b DEF Rested
  <2> QED BY <1>b, <1>3, <1>7, <2>1 DEF Rested
<1>16. Settled(t, r2, g)
  BY <1>c, <1>2, <1>6, <1>13 DEF Settled
<1>17. Pending(t, r2, d2, g)
  <2> SUFFICES ASSUME AtWork(d)
               PROVE  Pending(t, r2, d2, g)
    BY <1>7 DEF Pending
  <2>1. /\ Ascends(d.commits) /\ Ascends(r.sent)
        /\ \A k \in DOMAIN d.commits, m \in DOMAIN r.sent : d.commits[k] < r.sent[m]
        /\ Own(t, r, d.commits, g) /\ Own(t, r, r.sent, g)
        /\ \A i \in DOMAIN r.lines :
               r.lines[i] = Line("event", t.prompt) /\ i > t.cursor
                   => In(i, d.commits) \/ In(i, r.sent)
    BY <1>c DEF Pending
  <2>2. /\ \A k \in DOMAIN d.commits : d.commits[k] \in DOMAIN r.lines
        /\ \A k \in DOMAIN r.sent : r.sent[k] \in DOMAIN r.lines
    BY <1>b DEF Placed, Place
  <2>3. Own(t, r2, d.commits, g) /\ Own(t, r2, r.sent, g)
    BY <1>5, <2>1, <2>2, OwnOn
  <2>4. \A i \in DOMAIN r2.lines :
               r2.lines[i] = Line("event", t.prompt) /\ i > t.cursor
                   => In(i, d.commits) \/ In(i, r.sent)
    BY <1>6, <1>z, <2>1
  <2> QED BY <2>1, <2>3, <2>4 DEF Pending
<1>18. Acking(t, r2, d2, g)
  BY <1>a, <1>b, <1>c, <1>5, <1>7, AckingOn
<1> QED BY <1>a, <1>3, <1>10, <1>11, <1>12, <1>14, <1>15, <1>16, <1>17, <1>18 DEF Good

\* The task's prompt goes out, to a process that has not seen it.
LEMMA PromptKeeps ==
    ASSUME NEW t, NEW r, NEW d, NEW g, Good(t, r, d, g), Live(t, r), ~AtWork(d), d.toAck = 0,
           \A i \in PromptsOf(r.lines) : r.lines[i].of < t.prompt,
           NEW r2 \in Relays, r2.epoch = r.epoch, r2.acked = r.acked,
           r2.following, r2.sent = r.sent,
           r2.lines = Append(r.lines, Line("prompt", t.prompt)),
           NEW d2 \in Daemons, d2.stage = "prompting", d2.cursor \in {d.cursor, t.cursor},
           d2.commits = d.commits, d2.stop = d.stop, d2.serving = d.serving, d2.toAck = 0
    PROVE  Good(t, r2, d2, g)
<1>a. /\ t \in Tasks /\ r \in Relays /\ d \in Daemons
      /\ WellTold(r.lines, t.prompt)
  BY DEF Good
<1>b. Asked(t, r, d) /\ Phased(t, r, d) /\ Rested(r, d) /\ Placed(t, r, d)
  BY DEF Good
<1>c. /\ Marked(t, r) /\ Settled(t, r, g) /\ Pending(t, r, d, g) /\ Exact(t, r, g)
      /\ Acking(t, r, d, g)
  BY DEF Good
<1>0. /\ t.prompt \in Nat \ {0} /\ r.lines \in Seq(Lines) /\ t.cursor \in Nat /\ d.cursor \in Nat
  BY <1>a, <1>b, Fields DEF Phased, Live
<1> DEFINE l == Line("prompt", t.prompt)
           e == Len(r.lines) + 1
<1>2. l \in Lines /\ l.kind = "prompt"
  BY <1>0, LineType, LineParts DEF Turns
<1>3. /\ WellTold(r2.lines, t.prompt) /\ LastOf(r2.lines) = t.prompt /\ Running(r2.lines)
      /\ \A i \in DOMAIN r.lines : r.lines[i].kind \in Turns => r.lines[i].of < t.prompt
  BY <1>a, <1>0, PromptTold
<1>z. l # Line("event", t.prompt)
  BY LineParts
<1> HIDE DEF l
<1>4. r2.lines = Append(r.lines, l)
  BY DEF l
<1>5. Continues(r.lines, r2.lines)
  BY <1>0, <1>2, <1>4, AppendContinues
<1>6. /\ DOMAIN r.lines = 1..Len(r.lines) /\ Len(r.lines) \in Nat
      /\ \A i \in DOMAIN r.lines : i \in DOMAIN r2.lines /\ r2.lines[i] = r.lines[i]
      /\ e \in DOMAIN r2.lines /\ r2.lines[e] = l
      /\ \A i \in DOMAIN r2.lines : i \in DOMAIN r.lines \/ i = e
  BY <1>0, <1>2, <1>4, AppendIs
<1>7. AtWork(d2)
  BY DEF AtWork
<1>y. d.commits = <<>> /\ d.stop = 0 /\ r.sent = <<>>
  BY <1>b DEF Rested
<1>8. \A k \in DOMAIN r2.sent : Place(r2, r2.sent[k], Output)
  BY <1>y, EmptyDomain
<1>9. Placed(t, r2, d)
  BY <1>a, <1>b, <1>5, <1>8, PlacedOn
<1>x. Here(t, r2)
  BY DEF Here, Live
<1>10. Placed(t, r2, d2)
  BY <1>9, <1>x DEF Placed
<1>11. Marked(t, r2) /\ Exact(t, r2, g)
  BY <1>a, <1>b, <1>c, <1>5, MarkedOn, ExactOn
<1>12. Asked(t, r2, d2)
  BY DEF Asked, Live
<1>13. Live(t, r2)
  BY DEF Live
<1>14. Phased(t, r2, d2)
  BY <1>b, <1>0, <1>3, <1>7, <1>13 DEF Phased, Live
<1>15. Rested(r2, d2)
  BY <1>y, <1>7 DEF Rested
<1>16. Settled(t, r2, g)
  BY <1>c, <1>2, <1>6, <1>13 DEF Settled
<1>17. Pending(t, r2, d2, g)
  <2>1. \A i \in DOMAIN r2.lines : r2.lines[i] # Line("event", t.prompt)
    <3>1. ASSUME NEW i \in DOMAIN r.lines PROVE r.lines[i] # Line("event", t.prompt)
      <4>1. r.lines[i] = Line("event", t.prompt) => r.lines[i].kind \in Turns /\ r.lines[i].of = t.prompt
        BY LineParts DEF Turns, Output, Events
      <4> QED BY <1>0, <1>3, <4>1
    <3> QED BY <1>6, <1>z, <3>1
  <2>2. Ascends(<<>>) /\ Own(t, r2, <<>>, g)
    BY EmptyDomain DEF Ascends, Own
  <2> QED BY <1>y, <2>1, <2>2, EmptyDomain DEF Pending
<1>18. Acking(t, r2, d2, g)
  BY <1>a, <1>b, <1>c, <1>5, <1>7, AckingOn
<1> QED BY <1>a, <1>3, <1>10, <1>11, <1>12, <1>14, <1>15, <1>16, <1>17, <1>18 DEF Good

\* The next prompt is asked for.
LEMMA SubmitKeeps ==
    ASSUME NEW t, NEW r, NEW d, NEW g, Good(t, r, d, g), t.phase = "done", d.stage = "idle",
           NEW t2 \in Tasks, t2.prompt = t.prompt + 1, t2.phase = "queued",
           t2.progress = <<>>, t2.epoch = 0
    PROVE  Good(t2, r, d, g)
<1>a. /\ t \in Tasks /\ r \in Relays /\ d \in Daemons
      /\ WellTold(r.lines, t.prompt)
  BY DEF Good
<1>b. Asked(t, r, d) /\ Phased(t, r, d) /\ Rested(r, d) /\ Placed(t, r, d)
  BY DEF Good
<1>c. Settled(t, r, g) /\ Acking(t, r, d, g)
  BY DEF Good
<1>0. t.prompt \in Nat /\ r.lines \in Seq(Lines) /\ r.epoch \in Nat
  BY <1>a, Fields
<1>1. /\ WellTold(r.lines, t2.prompt)
      /\ \A i \in DOMAIN r.lines : r.lines[i].kind \in Turns => r.lines[i].of < t2.prompt
  BY <1>a, <1>0, NextTold
<1>2. ~Live(t, r) /\ ~Live(t2, r) /\ ~Here(t2, r) /\ ~AtWork(d)
  BY DEF Live, Here, AtWork
<1>3. Asked(t2, r, d)
  BY <1>1 DEF Asked, PromptsOf, Turns
<1>4. Phased(t2, r, d)
  BY <1>b, <1>0, <1>2 DEF Phased
<1>5. Placed(t2, r, d)
  BY <1>b, <1>2 DEF Placed
<1>6. Settled(t2, r, g)
  BY <1>c, <1>2 DEF Settled
<1>7. /\ Marked(t2, r) /\ Pending(t2, r, d, g) /\ Exact(t2, r, g)
      /\ Acking(t2, r, d, g)
  BY <1>c, <1>2 DEF Marked, Pending, Exact, Acking
<1> QED BY <1>a, <1>b, <1>1, <1>3, <1>4, <1>5, <1>6, <1>7 DEF Good

\* Its checkpoint is committed, to be acknowledged.
LEMMA DispatchKeeps ==
    ASSUME NEW t, NEW r, NEW d, NEW g, Good(t, r, d, g), t.phase = "queued", d.stage = "idle",
           NEW t2 \in Tasks, t2.prompt = t.prompt, t2.phase = "dispatched",
           t2.progress = t.progress, t2.epoch = r.epoch, t2.cursor = d.cursor,
           NEW d2 \in Daemons, d2.stage = "dispatching", d2.cursor = d.cursor,
           d2.commits = d.commits, d2.stop = d.stop, d2.serving = d.serving,
           d2.toAck = d.cursor
    PROVE  Good(t2, r, d2, g)
<1>a. /\ t \in Tasks /\ r \in Relays /\ d \in Daemons
      /\ WellTold(r.lines, t.prompt)
  BY DEF Good
<1>b. Asked(t, r, d) /\ Phased(t, r, d) /\ Rested(r, d) /\ Placed(t, r, d)
  BY DEF Good
<1>c. Settled(t, r, g) /\ Acking(t, r, d, g)
  BY DEF Good
<1>0. /\ t.prompt \in Nat \ {0} /\ r.lines \in Seq(Lines) /\ r.acked \in Nat
      /\ d.cursor \in Nat /\ r.following \in BOOLEAN
  BY <1>a, <1>b, Fields DEF Phased
<1>1. \A i \in PromptsOf(r.lines) : r.lines[i].of < t.prompt
  BY <1>b DEF Asked
<1>2. \A i \in DOMAIN r.lines : r.lines[i].kind \in Turns => r.lines[i].of < t.prompt
  BY <1>a, <1>0, <1>1, PromptTold
<1>3. ASSUME NEW i \in DOMAIN r.lines
      PROVE  r.lines[i] # Line("event", t.prompt) /\ r.lines[i] # Line("stop", t.prompt)
  <2>1. \A k \in Output : r.lines[i] = Line(k, t.prompt) =>
            r.lines[i].kind \in Turns /\ r.lines[i].of = t.prompt
    BY LineParts DEF Turns
  <2>2. \A k \in Output : r.lines[i] # Line(k, t.prompt)
    BY <1>0, <1>2, <2>1
  <2> QED BY <2>2 DEF Output, Events
<1>4. Live(t2, r) /\ ~Live(t, r) /\ ~AtWork(d) /\ ~AtWork(d2)
  BY DEF Live, AtWork
<1>6. d.cursor <= Len(r.lines)
  BY <1>b DEF Placed
<1>7. t2.progress = <<>>
  BY <1>b DEF Phased
<1>8. Asked(t2, r, d2)
  BY <1>1 DEF Asked
<1>9. Phased(t2, r, d2)
  <2>1. r.following /\ ~Running(r.lines)
    BY <1>b, <1>4 DEF Phased
  <2>2. t2.epoch <= r.epoch
    BY <1>a, Fields
  <2> QED BY <1>0, <1>4, <2>1, <2>2 DEF Phased
<1>10. Rested(r, d2)
  BY <1>b, <1>4 DEF Rested
<1>11. Placed(t2, r, d2)
  BY <1>b, <1>6, <1>7, EmptyDomain DEF Placed, Place
<1>12. Marked(t2, r)
  BY <1>3 DEF Marked
<1>13. Settled(t2, r, g)
  BY <1>c, <1>4 DEF Settled
<1>14. Pending(t2, r, d2, g)
  BY <1>4 DEF Pending
<1>15. Exact(t2, r, g)
  BY <1>3, <1>7, EmptyDomain DEF Exact, Ascends
<1>16. Acking(t2, r, d2, g)
  BY <1>3 DEF Acking
<1> QED BY <1>a, <1>8, <1>9, <1>10, <1>11, <1>12, <1>13, <1>14, <1>15, <1>16 DEF Good

\* A checkpoint is acknowledged: nothing past it is.
LEMMA AckKeeps ==
    ASSUME NEW t, NEW r, NEW d, NEW g, Good(t, r, d, g), d.toAck # 0,
           NEW r2 \in Relays, r2.epoch = r.epoch, r2.lines = r.lines,
           r2.following = r.following, r2.sent = r.sent,
           r2.acked = IF d.toAck > r.acked THEN d.toAck ELSE r.acked,
           NEW d2 \in Daemons, d2.stage = d.stage, d2.cursor = d.cursor,
           d2.commits = d.commits, d2.stop = d.stop, d2.serving = d.serving, d2.toAck = 0
    PROVE  Good(t, r2, d2, g)
<1>a. /\ t \in Tasks /\ r \in Relays /\ d \in Daemons
      /\ WellTold(r.lines, t.prompt)
  BY DEF Good
<1>b. Asked(t, r, d) /\ Phased(t, r, d) /\ Rested(r, d) /\ Placed(t, r, d)
  BY DEF Good
<1>c. /\ Marked(t, r) /\ Settled(t, r, g) /\ Pending(t, r, d, g) /\ Exact(t, r, g)
      /\ Acking(t, r, d, g)
  BY DEF Good
<1>0. /\ t.cursor \in Nat /\ r.lines \in Seq(Lines) /\ r.acked \in Nat
      /\ \A i \in DOMAIN r.lines : i \in Nat
  BY <1>a, Fields
<1>1. d.toAck = t.cursor /\ (AtWork(d) \/ d.stage = "dispatching")
  BY <1>c DEF Acking
<1>2. Live(t, r) /\ Here(t, r)
  BY <1>b, <1>1 DEF Phased, Live, Here
<1>3. /\ r2.acked \in Nat /\ r.acked <= r2.acked /\ t.cursor <= r2.acked
      /\ r2.acked \in {r.acked, t.cursor}
  BY <1>0, <1>1
<1>4. Live(t, r2) /\ Here(t, r2) /\ AtWork(d2) = AtWork(d)
  BY <1>2 DEF Live, Here, AtWork
<1>5. Asked(t, r2, d2)
  BY <1>b DEF Asked
<1>6. Phased(t, r2, d2)
  BY <1>b, <1>2, <1>4 DEF Phased
<1>7. Rested(r2, d2)
  BY <1>b, <1>4 DEF Rested
<1>8. Placed(t, r2, d2)
  <2>1. t.cursor <= Len(r.lines) /\ r.acked <= Len(r.lines)
    BY <1>2, <1>b DEF Placed
  <2>2. r2.acked <= Len(r2.lines)
    BY <1>3, <2>1
  <2> QED BY <1>b, <1>2, <2>2 DEF Placed, Place
<1>9. Marked(t, r2)
  BY <1>c, <1>2, <1>3 DEF Marked
<1>10. Acking(t, r2, d2, g)
  BY <1>0, <1>1, <1>3 DEF Acking
<1>11. Settled(t, r2, g)
  <2>1. \A i \in DOMAIN r.lines : i <= r.acked => i <= r2.acked
    BY <1>0, <1>3
  <2> QED BY <1>c, <1>2, <1>4, <2>1 DEF Settled
<1>12. Pending(t, r2, d2, g)
  BY <1>c, <1>4 DEF Pending, Own
<1>13. Exact(t, r2, g)
  BY <1>c, <1>2 DEF Exact
<1> QED BY <1>a, <1>5, <1>6, <1>7, <1>8, <1>9, <1>10, <1>11, <1>12, <1>13 DEF Good

\* Every event is committed and the stop reason is there.
LEMMA CompleteKeeps ==
    ASSUME NEW t, NEW r, NEW d, NEW g, Good(t, r, d, g), AtWork(d), d.stop # 0, d.commits = <<>>,
           d.toAck = 0,
           NEW t2 \in Tasks, t2.prompt = t.prompt, t2.phase = "done",
           t2.progress = t.progress, t2.epoch = t.epoch, t2.cursor = t.cursor,
           NEW d2 \in Daemons, d2.stage = "idle", d2.cursor = d.cursor,
           d2.commits = <<>>, d2.stop = 0, d2.serving = d.serving, d2.toAck = 0
    PROVE  Good(t2, r, d2, g)
<1>a. /\ t \in Tasks /\ r \in Relays /\ d \in Daemons
      /\ WellTold(r.lines, t.prompt)
  BY DEF Good
<1>b. Asked(t, r, d) /\ Phased(t, r, d) /\ Rested(r, d) /\ Placed(t, r, d)
  BY DEF Good
<1>c. /\ Marked(t, r) /\ Settled(t, r, g) /\ Pending(t, r, d, g) /\ Exact(t, r, g)
      /\ Acking(t, r, d, g)
  BY DEF Good
<1>0. t.cursor \in Nat /\ r.lines \in Seq(Lines) /\ r.acked \in Nat
  BY <1>a, Fields
<1>1. Live(t, r) /\ r.following /\ ~Running(r.lines) /\ r.sent = <<>> /\ Here(t, r)
  BY <1>b DEF Phased, Rested, Live, Here
<1>2. ~Live(t2, r) /\ Here(t2, r) /\ ~AtWork(d2)
  BY <1>1 DEF Live, Here, AtWork
<1>3. Asked(t2, r, d2)
  BY DEF Asked
<1>4. Phased(t2, r, d2)
  BY <1>b, <1>1, <1>2 DEF Phased
<1>5. Rested(r, d2)
  BY <1>1 DEF Rested
<1>6. Placed(t2, r, d2)
  BY <1>b, <1>1, <1>2, EmptyDomain DEF Placed
<1>7. Settled(t2, r, g)
  <2> SUFFICES ASSUME NEW i \in DOMAIN r.lines, r.lines[i].kind = "event", ~(i <= r.acked),
                      i \notin g
               PROVE  FALSE
    BY DEF Settled
  <2>1. r.lines[i].of = t.prompt
    BY <1>c DEF Settled
  <2>a. r.lines[i] \in Lines
    BY <1>0
  <2>2. r.lines[i] = Line("event", t.prompt)
    BY <2>1, <2>a, LineIs
  <2>3. ~(i > t.cursor)
    <3>1. ~In(i, <<>>)
      BY EmptyDomain DEF In
    <3> QED BY <1>1, <1>c, <2>2, <3>1 DEF Pending
  <2>4. i \in Nat /\ i # 0
    BY <1>0
  <2>5. i <= t.cursor
    BY <1>0, <2>3, <2>4
  <2> QED BY <1>1, <1>c, <2>2, <2>4, <2>5 DEF Acking
<1>8. Marked(t2, r) /\ Pending(t2, r, d2, g) /\ Acking(t2, r, d2, g)
  BY <1>2 DEF Marked, Pending, Acking
<1>9. Exact(t2, r, g)
  BY <1>1, <1>c DEF Exact
<1> QED BY <1>a, <1>3, <1>4, <1>5, <1>6, <1>7, <1>8, <1>9 DEF Good

\* The daemon is gone, or is there again.
LEMMA RestartKeeps ==
    ASSUME NEW t, NEW r, NEW d, NEW g, Good(t, r, d, g),
           NEW r2 \in Relays, r2.epoch = r.epoch, r2.lines = r.lines, r2.acked = r.acked,
           r2.sent = <<>>,
           NEW d2 \in Daemons, d2.cursor = 0, d2.commits = <<>>, d2.stop = 0, d2.serving = {},
           d2.toAck = 0,
           NEW g2, g \subseteq g2, d.toAck # 0 => d.toAck \in g2,
           \/ d2.stage = "down" /\ r2.following = FALSE
           \/ d2.stage = "idle" /\ r2.following = ~Running(r.lines)
    PROVE  Good(t, r2, d2, g2)
<1>a. /\ t \in Tasks /\ r \in Relays /\ d \in Daemons
      /\ WellTold(r.lines, t.prompt)
  BY DEF Good
<1>b. Asked(t, r, d) /\ Phased(t, r, d) /\ Rested(r, d) /\ Placed(t, r, d)
  BY DEF Good
<1>c. Marked(t, r) /\ Settled(t, r, g) /\ Exact(t, r, g) /\ Acking(t, r, d, g)
  BY DEF Good
<1>1. ~AtWork(d2) /\ d2.stage \in {"idle", "down"}
  BY DEF AtWork
<1>2. Live(t, r2) = Live(t, r) /\ Here(t, r2) = Here(t, r)
  BY DEF Live, Here
<1>3. Asked(t, r2, d2)
  BY <1>b, <1>1 DEF Asked
<1>4. Phased(t, r2, d2)
  <2>1. d2.stage = "idle" /\ ~Live(t, r2) => r2.following
    BY <1>b, <1>2 DEF Phased
  <2>2. Running(r2.lines) => Live(t, r2) /\ LastOf(r2.lines) = t.prompt /\ ~r2.following
    BY <1>b, <1>2 DEF Phased
  <2>3. t.phase = "dispatched" /\ ~Live(t, r2) => r2.lines = <<>>
    BY <1>b, <1>2 DEF Phased
  <2> QED BY <1>b, <1>1, <2>1, <2>2, <2>3 DEF Phased
<1>5. Rested(r2, d2)
  BY DEF Rested
<1>6. Placed(t, r2, d2)
  <2>1. 0 <= Len(r2.lines)
    BY <1>a, Fields
  <2>2. r.acked <= Len(r.lines)
    BY <1>b DEF Placed
  <2> QED BY <1>b, <1>2, <2>1, <2>2, EmptyDomain DEF Placed
<1>7. Marked(t, r2)
  BY <1>c, <1>2 DEF Marked
<1>8. Pending(t, r2, d2, g2)
  BY <1>1 DEF Pending
<1>9. Settled(t, r2, g2)
  BY <1>c, <1>2 DEF Settled
<1>10. Exact(t, r2, g2)
  BY <1>c, <1>2 DEF Exact
<1>11. Acking(t, r2, d2, g2)
  <2>1. ASSUME Live(t, r2), NEW i \in DOMAIN r.lines, r.lines[i] = Line("event", t.prompt),
               i <= t.cursor
        PROVE  i <= r.acked \/ i \in g2
    <3>1. i # 0
      BY <1>a, Fields
    <3> QED BY <1>c, <1>2, <2>1, <3>1 DEF Acking
  <2> QED BY <2>1 DEF Acking
<1> QED BY <1>a, <1>3, <1>4, <1>5, <1>6, <1>7, <1>8, <1>9, <1>10, <1>11 DEF Good

\* A prompt of another relay is given up.
LEMMA ElsewhereKeeps ==
    ASSUME NEW t, NEW r, NEW d, NEW g, Good(t, r, d, g), t.phase = "dispatched", d.stage = "idle",
           t.epoch # r.epoch,
           NEW t2 \in Tasks, t2.prompt = t.prompt, t2.phase = "done", t2.epoch = t.epoch
    PROVE  Good(t2, r, d, g)
<1>a. /\ t \in Tasks /\ r \in Relays /\ d \in Daemons
      /\ WellTold(r.lines, t.prompt)
  BY DEF Good
<1>b. Asked(t, r, d) /\ Phased(t, r, d) /\ Rested(r, d) /\ Placed(t, r, d)
  BY DEF Good
<1>1. ~Live(t, r) /\ ~Live(t2, r) /\ ~Here(t2, r) /\ ~AtWork(d)
  BY DEF Live, Here, AtWork
<1>2. r.lines = <<>>
  BY <1>b, <1>1 DEF Phased
<1>3. Asked(t2, r, d)
  BY DEF Asked
<1>4. Phased(t2, r, d)
  BY <1>b, <1>1 DEF Phased
<1>5. Placed(t2, r, d)
  BY <1>b, <1>1 DEF Placed
<1>6. Settled(t2, r, g)
  BY <1>2, EmptyDomain DEF Settled
<1>c. Acking(t, r, d, g)
  BY DEF Good
<1>7. /\ Marked(t2, r) /\ Pending(t2, r, d, g) /\ Exact(t2, r, g)
      /\ Acking(t2, r, d, g)
  BY <1>1, <1>c DEF Marked, Pending, Exact, Acking
<1> QED BY <1>a, <1>b, <1>3, <1>4, <1>5, <1>6, <1>7 DEF Good

\* Another relay has the conversation.
LEMMA EndKeeps ==
    ASSUME NEW t, NEW r, NEW d, NEW g, NEW g2, Good(t, r, d, g),
           NEW r2 \in Relays, r2.epoch = r.epoch + 1, r2.lines = <<>>, r2.acked = 0,
           r2.following = TRUE, r2.sent = <<>>,
           NEW t2 \in Tasks, t2.prompt = t.prompt, t2.epoch = t.epoch,
           t2.progress = t.progress,
           t2.phase = IF AtWork(d) \/ d.stage = "dispatching" THEN "done" ELSE t.phase,
           NEW d2 \in Daemons, d2.cursor = 0, d2.commits = <<>>, d2.stop = 0, d2.serving = {},
           d2.toAck = 0,
           d2.stage \in {"idle", "down"}
    PROVE  Good(t2, r2, d2, g2)
<1>a. /\ t \in Tasks /\ r \in Relays /\ d \in Daemons
      /\ WellTold(r.lines, t.prompt)
  BY DEF Good
<1>b. Asked(t, r, d) /\ Phased(t, r, d) /\ Rested(r, d) /\ Placed(t, r, d)
  BY DEF Good
<1>0. t.prompt \in Nat /\ t.epoch \in Nat /\ r.epoch \in Nat
  BY <1>a, Fields
<1>1. t2.epoch < r2.epoch /\ t2.epoch \in Nat /\ r2.epoch \in Nat
  BY <1>0, <1>b DEF Phased
<1>2. ~Live(t2, r2) /\ ~Here(t2, r2) /\ ~AtWork(d2)
  BY <1>1 DEF Live, Here, AtWork
<1>3. WellTold(r2.lines, t2.prompt) /\ LastOf(r2.lines) = 0 /\ ~Running(r2.lines)
  BY <1>0, NothingTold
<1>4. Asked(t2, r2, d2)
  BY EmptyDomain DEF Asked, PromptsOf
<1>5. Phased(t2, r2, d2)
  BY <1>1, <1>2, <1>3, <1>b DEF Phased
<1>6. Rested(r2, d2)
  BY DEF Rested
<1>7. Placed(t2, r2, d2)
  <2>1. Len(r2.lines) = 0
    BY EmptySeq
  <2> QED BY <1>2, <2>1, EmptyDomain DEF Placed
<1>8. Settled(t2, r2, g2)
  BY EmptyDomain DEF Settled
<1>9. /\ Marked(t2, r2) /\ Pending(t2, r2, d2, g2) /\ Exact(t2, r2, g2)
      /\ Acking(t2, r2, d2, g2)
  BY <1>2 DEF Marked, Pending, Exact, Acking
<1> QED BY <1>3, <1>4, <1>5, <1>6, <1>7, <1>8, <1>9 DEF Good

\* The handler reads a line: an event is to be committed, the stop reason it
\* waits for is the last line that there is to read.
LEMMA DeliverKeeps ==
    ASSUME NEW t, NEW r, NEW d, NEW g, Good(t, r, d, g), r.sent # <<>>,
           NEW h, h = Head(r.sent),
           NEW r2 \in Relays, r2.epoch = r.epoch, r2.lines = r.lines, r2.acked = r.acked,
           r2.following = r.following, r2.sent = Tail(r.sent),
           NEW d2 \in Daemons, d2.stage = d.stage, d2.cursor = h, d2.toAck = d.toAck,
           d2.commits = IF r.lines[h].kind \in Events /\ d.stage # "idle"
                        THEN Append(d.commits, h) ELSE d.commits,
           d2.serving = IF r.lines[h].kind \in Requests THEN d.serving \cup {h} ELSE d.serving,
           d2.stop = IF AtWork(d) /\ r.lines[h] = Line("stop", LastOf(r.lines))
                     THEN LastOf(r.lines) ELSE d.stop
    PROVE  Good(t, r2, d2, g)
<1>a. /\ t \in Tasks /\ r \in Relays /\ d \in Daemons
      /\ WellTold(r.lines, t.prompt)
  BY DEF Good
<1>b. Asked(t, r, d) /\ Phased(t, r, d) /\ Rested(r, d) /\ Placed(t, r, d)
  BY DEF Good
<1>c. /\ Marked(t, r) /\ Settled(t, r, g) /\ Pending(t, r, d, g) /\ Exact(t, r, g)
      /\ Acking(t, r, d, g)
  BY DEF Good
<1>0. /\ t.prompt \in Nat /\ t.cursor \in Nat /\ r.lines \in Seq(Lines)
      /\ r.sent \in Seq(Nat) /\ d.commits \in Seq(Nat)
  BY <1>a, Fields
<1>1. AtWork(d) /\ AtWork(d2) /\ d.stage # "idle"
  BY <1>b DEF Rested, AtWork
<1>2. Live(t, r) /\ r.following /\ LastOf(r.lines) # 0
  BY <1>b, <1>1 DEF Phased
<1>3. Live(t, r2) = Live(t, r) /\ Here(t, r2) = Here(t, r)
  BY DEF Live, Here
<1>4. /\ Ascends(d.commits) /\ Ascends(r.sent)
      /\ \A x \in DOMAIN d.commits, y \in DOMAIN r.sent : d.commits[x] < r.sent[y]
      /\ Own(t, r, d.commits, g) /\ Own(t, r, r.sent, g)
      /\ \A i \in DOMAIN r.lines :
             r.lines[i] = Line("event", t.prompt) /\ i > t.cursor
                 => In(i, d.commits) \/ In(i, r.sent)
  BY <1>c, <1>1 DEF Pending
<1>5. /\ r2.sent \in Seq(Nat) /\ h \in Nat
      /\ 1 \in DOMAIN r.sent /\ h = r.sent[1]
      /\ \A k \in DOMAIN r2.sent : k + 1 \in DOMAIN r.sent /\ r2.sent[k] = r.sent[k + 1] /\ k \in Nat
      /\ \A k \in DOMAIN r.sent : k = 1 \/ (k - 1 \in DOMAIN r2.sent /\ r2.sent[k - 1] = r.sent[k])
  BY SMTT(30), <1>0, TailIs
<1>6. Ascends(r2.sent) /\ \A k \in DOMAIN r2.sent : h < r2.sent[k]
  BY <1>0, <1>4, TailAscends
<1>7. Place(r, h, Output)
  BY <1>b, <1>5 DEF Placed
<1>8. \A k \in DOMAIN r2.sent : Place(r, r2.sent[k], Output)
  BY <1>b, <1>5 DEF Placed
<1>9. ASSUME NEW i, In(i, r.sent) PROVE i = h \/ In(i, r2.sent)
  <2>1. PICK k \in DOMAIN r.sent : r.sent[k] = i
    BY <1>9 DEF In
  <2>2. k = 1 \/ (k - 1 \in DOMAIN r2.sent /\ r2.sent[k - 1] = i)
    BY <1>5, <2>1
  <2>3. k = 1 => i = h
    BY <1>5, <2>1
  <2> QED BY <2>2, <2>3 DEF In
<1>10. d.stop = 0
  BY <1>b DEF Rested
<1>11. ASSUME r.lines[h] = Line("stop", LastOf(r.lines))
       PROVE  r2.sent = <<>> /\ ~Running(r.lines)
  <2>1. h \in DOMAIN r.lines
    BY <1>7 DEF Place
  <2>2. ASSUME NEW k \in DOMAIN r2.sent PROVE FALSE
    <3>1. r2.sent[k] \in DOMAIN r.lines /\ r.lines[r2.sent[k]].kind \in Output
      BY <1>8 DEF Place
    <3>2. r2.sent[k] <= h
      BY <1>a, <1>0, <1>11, <2>1, <3>1, StopIsLast
    <3>3. h < r2.sent[k] /\ r2.sent[k] \in Nat
      BY <1>5, <1>6
    <3> QED BY <1>5, <3>2, <3>3
  <2>3. r2.sent = <<>>
    <3>1. r2.sent # <<>> => 1 \in DOMAIN r2.sent
      BY <1>5, TailIs
    <3> QED BY <2>2, <3>1
  <2> QED BY <1>11, <2>1, <2>3 DEF Running
<1>12. Rested(r2, d2)
  <2>1. d.stage # "down"
    BY <1>1 DEF AtWork
  <2> QED BY <1>1, <1>10, <1>11, <2>1 DEF Rested
<1>13. /\ \A k \in DOMAIN d2.commits :
              \/ k \in DOMAIN d.commits /\ d2.commits[k] = d.commits[k]
              \/ d2.commits[k] = h /\ r.lines[h].kind \in Events
       /\ \A k \in DOMAIN d.commits : k \in DOMAIN d2.commits /\ d2.commits[k] = d.commits[k]
       /\ r.lines[h].kind \in Events => In(h, d2.commits)
       /\ Ascends(d2.commits)
  <2>1. CASE r.lines[h].kind \in Events
    <3>1. d2.commits = Append(d.commits, h)
      BY <1>1, <2>1
    <3>a. DOMAIN Append(d.commits, h) = 1..(Len(d.commits) + 1) /\ Len(d.commits) \in Nat
      BY <1>0, <1>5, AppendIs
    <3>b. Len(d.commits) + 1 \in DOMAIN Append(d.commits, h)
      BY <3>a
    <3>2. /\ Append(d.commits, h)[Len(d.commits) + 1] = h
          /\ \A k \in DOMAIN d.commits : k \in DOMAIN Append(d.commits, h) /\ Append(d.commits, h)[k] = d.commits[k]
          /\ \A k \in DOMAIN Append(d.commits, h) : k \in DOMAIN d.commits \/ k = Len(d.commits) + 1
      BY SMTT(60), <1>0, <1>5, AppendIs
    <3>3. \A k \in DOMAIN d.commits : d.commits[k] < h
      BY <1>4, <1>5
    <3>4. Ascends(Append(d.commits, h))
      BY <1>0, <1>4, <1>5, <3>3, AscendsAppend
    <3> QED BY <2>1, <3>1, <3>2, <3>4, <3>b DEF In
  <2>2. CASE ~(r.lines[h].kind \in Events)
    <3>1. d2.commits = d.commits
      BY <2>2
    <3> QED BY <1>4, <2>2, <3>1
  <2> QED BY <2>1, <2>2
<1>14. Placed(t, r2, d2)
  <2>1. h \in 1..Len(r.lines)
    BY <1>0, <1>7 DEF Place
  <2>2. d2.cursor <= Len(r2.lines)
    BY <2>1
  <2>3. \A k \in DOMAIN d2.commits : Place(r2, d2.commits[k], Events)
    BY <1>b, <1>7, <1>13 DEF Placed, Place
  <2>4. \A x \in d2.serving : Place(r2, x, Requests)
    BY <1>b, <1>7 DEF Placed, Place
  <2>5. \A k \in DOMAIN r2.sent : Place(r2, r2.sent[k], Output)
    BY <1>8 DEF Place
  <2> QED BY <1>b, <1>3, <2>2, <2>3, <2>4, <2>5 DEF Placed
<1>15. Pending(t, r2, d2, g)
  <2>1. \A x \in DOMAIN d2.commits, y \in DOMAIN r2.sent : d2.commits[x] < r2.sent[y]
    BY <1>4, <1>5, <1>6, <1>13
  <2>2. Own(t, r2, r2.sent, g)
    <3> SUFFICES ASSUME NEW k \in DOMAIN r2.sent
                 PROVE  /\ r2.sent[k] > t.cursor
                        /\ r2.lines[r2.sent[k]].kind = "event"
                               => r2.lines[r2.sent[k]].of = t.prompt \/ r2.sent[k] \in g
      BY DEF Own
    <3>1. k + 1 \in DOMAIN r.sent /\ r2.sent[k] = r.sent[k + 1]
      BY <1>5
    <3>2. /\ r.sent[k + 1] > t.cursor
          /\ r.lines[r.sent[k + 1]].kind = "event" =>
                 r.lines[r.sent[k + 1]].of = t.prompt \/ r.sent[k + 1] \in g
      BY <1>4, <3>1 DEF Own
    <3> QED BY <3>1, <3>2
  <2>3. h > t.cursor /\ (r.lines[h].kind = "event" => r.lines[h].of = t.prompt \/ h \in g)
    BY <1>4, <1>5 DEF Own
  <2>4. Own(t, r2, d2.commits, g)
    BY <1>4, <1>13, <2>3 DEF Own
  <2>5. ASSUME NEW i \in DOMAIN r.lines, r.lines[i] = Line("event", t.prompt), i > t.cursor
        PROVE  In(i, d2.commits) \/ In(i, r2.sent)
    <3>1. In(i, d.commits) => In(i, d2.commits)
      BY <1>13 DEF In
    <3>2. i = h => In(i, d2.commits)
      <4>1. r.lines[i].kind = "event"
        BY <2>5, LineParts
      <4> QED BY <1>13, <4>1 DEF Events
    <3> QED BY <1>4, <1>9, <2>5, <3>1, <3>2
  <2> QED BY <1>6, <1>13, <2>1, <2>2, <2>4, <2>5 DEF Pending
<1>16. Asked(t, r2, d2)
  BY <1>b DEF Asked
<1>17. Phased(t, r2, d2)
  BY <1>b, <1>1, <1>3 DEF Phased
<1>18. Marked(t, r2) /\ Settled(t, r2, g) /\ Exact(t, r2, g)
  BY <1>c, <1>3 DEF Marked, Settled, Exact
<1>19. Acking(t, r2, d2, g)
  BY <1>c, <1>1, <1>3 DEF Acking
<1> QED BY <1>a, <1>12, <1>14, <1>15, <1>16, <1>17, <1>18, <1>19 DEF Good

\* The first event is committed with its place, to be acknowledged.
LEMMA CommitKeeps ==
    ASSUME NEW t, NEW r, NEW d, NEW g, Good(t, r, d, g), AtWork(d), d.commits # <<>>,
           d.toAck = 0,
           NEW h, h = Head(d.commits),
           NEW t2 \in Tasks, t2.prompt = t.prompt, t2.phase = t.phase, t2.epoch = t.epoch,
           t2.progress = Append(t.progress, h), t2.cursor = h,
           NEW d2 \in Daemons, d2.stage = d.stage, d2.cursor = d.cursor,
           d2.commits = Tail(d.commits), d2.stop = d.stop, d2.serving = d.serving,
           d2.toAck = h
    PROVE  Good(t2, r, d2, g)
<1>a. /\ t \in Tasks /\ r \in Relays /\ d \in Daemons
      /\ WellTold(r.lines, t.prompt)
  BY DEF Good
<1>b. Asked(t, r, d) /\ Phased(t, r, d) /\ Rested(r, d) /\ Placed(t, r, d)
  BY DEF Good
<1>c. /\ Marked(t, r) /\ Settled(t, r, g) /\ Pending(t, r, d, g) /\ Exact(t, r, g)
      /\ Acking(t, r, d, g)
  BY DEF Good
<1>0. /\ t.prompt \in Nat /\ t.cursor \in Nat /\ r.lines \in Seq(Lines) /\ r.acked \in Nat
      /\ r.sent \in Seq(Nat) /\ d.commits \in Seq(Nat) /\ t.progress \in Seq(Nat)
      /\ r.following \in BOOLEAN
  BY <1>a, Fields
<1>1. Live(t, r) /\ Here(t, r) /\ Live(t2, r) /\ Here(t2, r) /\ AtWork(d2)
  BY <1>b DEF Phased, Live, Here, AtWork
<1>2. /\ Ascends(d.commits) /\ Ascends(r.sent)
      /\ \A x \in DOMAIN d.commits, y \in DOMAIN r.sent : d.commits[x] < r.sent[y]
      /\ Own(t, r, d.commits, g) /\ Own(t, r, r.sent, g)
      /\ \A i \in DOMAIN r.lines :
             r.lines[i] = Line("event", t.prompt) /\ i > t.cursor
                 => In(i, d.commits) \/ In(i, r.sent)
  BY <1>c DEF Pending
<1>3. /\ d2.commits \in Seq(Nat) /\ h \in Nat
      /\ 1 \in DOMAIN d.commits /\ h = d.commits[1]
      /\ \A k \in DOMAIN d2.commits :
             k + 1 \in DOMAIN d.commits /\ d2.commits[k] = d.commits[k + 1] /\ k \in Nat
      /\ \A k \in DOMAIN d.commits :
             k = 1 \/ (k - 1 \in DOMAIN d2.commits /\ d2.commits[k - 1] = d.commits[k])
  <2> DEFINE q == d.commits
             u == Tail(q)
  <2>1. /\ u \in Seq(Nat) /\ Head(q) \in Nat
        /\ 1 \in DOMAIN q /\ Head(q) = q[1]
        /\ \A k \in DOMAIN u : k + 1 \in DOMAIN q /\ u[k] = q[k + 1] /\ k \in Nat
        /\ \A k \in DOMAIN q : k = 1 \/ (k - 1 \in DOMAIN u /\ u[k - 1] = q[k])
    BY <1>0, TailIs
  <2>2. d2.commits = u /\ h = Head(q)
    OBVIOUS
  <2> HIDE DEF u
  <2> QED BY <2>1, <2>2
<1>4. Ascends(d2.commits) /\ \A k \in DOMAIN d2.commits : h < d2.commits[k]
  BY <1>0, <1>2, TailAscends
<1>5. h > t.cursor /\ (r.lines[h].kind = "event" => r.lines[h].of = t.prompt \/ h \in g)
  BY <1>2, <1>3 DEF Own
<1>6. Place(r, h, Events) /\ h \in DOMAIN r.lines
  BY <1>b, <1>3 DEF Placed, Place
<1>7. ASSUME NEW i, In(i, d.commits) PROVE i = h \/ In(i, d2.commits)
  <2>1. PICK k \in DOMAIN d.commits : d.commits[k] = i
    BY <1>7 DEF In
  <2>2. k = 1 \/ (k - 1 \in DOMAIN d2.commits /\ d2.commits[k - 1] = i)
    BY <1>3, <2>1
  <2>3. k = 1 => i = h
    BY <1>3, <2>1
  <2> QED BY <2>2, <2>3 DEF In
<1>8. \A i : In(i, r.sent) => h < i
  BY <1>2, <1>3 DEF In
<1>9. \A i : In(i, d2.commits) => h < i
  BY <1>4 DEF In
<1>10. h \in 1..Len(r.lines) /\ Len(r.lines) \in Nat
  BY SMTT(30), <1>0, <1>6
<1>11. /\ \A i \in DOMAIN r.lines : r.lines[i] = Line("stop", t.prompt) => t.cursor < i
       /\ \A i \in DOMAIN r.lines :
              r.lines[i] = Line("event", t.prompt) /\ i <= r.acked => i <= t.cursor
  BY <1>1, <1>c DEF Marked
<1>13. \A i \in DOMAIN r.lines : i \in Nat
  BY <1>0
<1>14. /\ \A k \in DOMAIN t2.progress :
              (k \in DOMAIN t.progress /\ t2.progress[k] = t.progress[k]) \/ t2.progress[k] = h
       /\ \A k \in DOMAIN t.progress : k \in DOMAIN t2.progress /\ t2.progress[k] = t.progress[k]
       /\ In(h, t2.progress)
  <2>a. DOMAIN Append(t.progress, h) = 1..(Len(t.progress) + 1) /\ Len(t.progress) \in Nat
    BY <1>0, <1>3, AppendIs
  <2>b. Len(t.progress) + 1 \in DOMAIN Append(t.progress, h)
    BY <2>a
  <2>2. /\ Append(t.progress, h)[Len(t.progress) + 1] = h
        /\ \A k \in DOMAIN t.progress : k \in DOMAIN Append(t.progress, h) /\ Append(t.progress, h)[k] = t.progress[k]
        /\ \A k \in DOMAIN Append(t.progress, h) : k \in DOMAIN t.progress \/ k = Len(t.progress) + 1
    BY SMTT(60), <1>0, <1>3, AppendIs
  <2> QED BY <2>2, <2>b DEF In
<1>15. \A k \in DOMAIN t.progress :
           t.progress[k] \in DOMAIN r.lines /\ t.progress[k] <= t.cursor /\ t.progress[k] < h
  <2>1. \A k \in DOMAIN t.progress : t.progress[k] \in DOMAIN r.lines /\ t.progress[k] <= t.cursor
    BY <1>1, <1>b DEF Placed
  <2> QED BY SMTT(30), <1>0, <1>3, <1>5, <1>13, <2>1
<1>16. Asked(t2, r, d2)
  BY <1>b DEF Asked
<1>17. Phased(t2, r, d2)
  <2>1. t2.phase = "dispatched" /\ d2.stage # "dispatching" /\ d2.stage # "idle"
    BY <1>1 DEF Live, AtWork
  <2> QED BY <1>b, <1>1, <2>1 DEF Phased
<1>18. Rested(r, d2)
  <2>1. d2.stage # "down"
    BY <1>1 DEF AtWork
  <2> QED BY <1>b, <1>1, <2>1 DEF Rested
<1>19. Placed(t2, r, d2)
  <2>1. d2.cursor <= Len(r.lines) /\ r.acked <= Len(r.lines) /\ h <= Len(r.lines)
    BY <1>b, <1>10 DEF Placed
  <2>2. \A k \in DOMAIN d2.commits : Place(r, d2.commits[k], Events)
    BY <1>b, <1>3 DEF Placed, Place
  <2>3. \A k \in DOMAIN r.sent : Place(r, r.sent[k], Output)
    BY <1>b DEF Placed, Place
  <2>4. \A x \in d2.serving : Place(r, x, Requests)
    BY <1>b DEF Placed, Place
  <2>5. \A k \in DOMAIN t2.progress : t2.progress[k] \in DOMAIN r.lines /\ t2.progress[k] <= h
    BY <1>6, <1>10, <1>13, <1>14, <1>15
  <2> QED BY <2>1, <2>2, <2>3, <2>4, <2>5 DEF Placed
<1>20. Marked(t2, r)
  <2>1. ASSUME NEW i \in DOMAIN r.lines, r.lines[i] = Line("stop", t.prompt) PROVE h < i
    <3>1. r.lines[i].kind = "stop" /\ r.lines[i].of = t.prompt /\ r.lines[i].kind \in Turns
      BY <2>1, LineParts DEF Turns, Output
    <3>2. r.lines[h].kind \in Turns /\ r.lines[h].kind # "stop"
      BY <1>6 DEF Place, Turns, Output, Events
    <3>3. r.lines[h].of \in 1..t.prompt
      BY <1>a, <1>6, <3>2 DEF WellTold, OfTurns
    <3>4. ~(i < h)
      <4>1. i < h => t.prompt < r.lines[h].of
        BY <1>a, <1>6, <3>1, <3>2 DEF WellTold, Ordered, InTurn
      <4> QED BY SMTT(30), <1>0, <3>3, <4>1
    <3>5. i # h
      BY <3>1, <3>2
    <3> QED BY <1>3, <1>13, <3>4, <3>5
  <2>2. ASSUME NEW i \in DOMAIN r.lines, r.lines[i] = Line("event", t.prompt), i <= r.acked
        PROVE  i <= h
    <3>1. i <= t.cursor
      BY <1>11, <2>2
    <3> QED BY <1>0, <1>3, <1>5, <1>13, <3>1
  <2> QED BY <2>1, <2>2 DEF Marked
<1>21. Settled(t2, r, g)
  BY <1>c, <1>1 DEF Settled
<1>22. Pending(t2, r, d2, g)
  <2>1. \A x \in DOMAIN d2.commits, y \in DOMAIN r.sent : d2.commits[x] < r.sent[y]
    BY <1>2, <1>3
  <2>2. Own(t2, r, r.sent, g)
    BY <1>2, <1>3 DEF Own
  <2>3. Own(t2, r, d2.commits, g)
    BY SMTT(30), <1>2, <1>3, <1>4 DEF Own
  <2>4. ASSUME NEW i \in DOMAIN r.lines, r.lines[i] = Line("event", t.prompt), i > h
        PROVE  In(i, d2.commits) \/ In(i, r.sent)
    <3>1. i > t.cursor /\ i # h
      BY <1>0, <1>3, <1>5, <1>13, <2>4
    <3> QED BY <1>2, <1>7, <2>4, <3>1
  <2> QED BY <1>2, <1>4, <2>1, <2>2, <2>3, <2>4 DEF Pending
<1>23. Exact(t2, r, g)
  <2>1. /\ Ascends(t.progress)
        /\ \A k \in DOMAIN t.progress :
               r.lines[t.progress[k]].kind = "event" =>
                   r.lines[t.progress[k]].of = t.prompt \/ t.progress[k] \in g
        /\ \A i \in DOMAIN r.lines :
               r.lines[i] = Line("event", t.prompt) /\ i <= t.cursor => In(i, t.progress)
    BY <1>1, <1>c DEF Exact
  <2>2. Ascends(t2.progress)
    BY <1>0, <1>3, <1>15, <2>1, AscendsAppend
  <2>3. ASSUME NEW i \in DOMAIN r.lines, r.lines[i] = Line("event", t.prompt), i <= h
        PROVE  In(i, t2.progress)
    <3>1. CASE i = h
      BY <1>14, <3>1
    <3>2. CASE i <= t.cursor
      BY <1>14, <2>1, <2>3, <3>2 DEF In
    <3>3. CASE i # h /\ i > t.cursor
      <4>1. In(i, d.commits) \/ In(i, r.sent)
        BY <1>2, <2>3, <3>3
      <4>2. h < i
        BY <1>7, <1>8, <1>9, <3>3, <4>1
      <4> QED BY <1>3, <1>13, <2>3, <4>2
    <3> QED BY <1>0, <1>13, <3>1, <3>2, <3>3
  <2> QED BY <1>5, <1>14, <2>1, <2>2, <2>3 DEF Exact
<1>24. Acking(t2, r, d2, g)
  <2>1. ASSUME NEW i \in DOMAIN r.lines, r.lines[i] = Line("event", t.prompt), i <= h, i # h
        PROVE  i <= r.acked \/ i \in g
    <3>1. i \in Nat /\ i # 0
      BY <1>0
    <3>2. CASE i <= t.cursor
      BY <1>1, <1>c, <2>1, <3>1, <3>2 DEF Acking
    <3>3. CASE i > t.cursor
      <4>1. In(i, d.commits) \/ In(i, r.sent)
        BY <1>2, <2>1, <3>3
      <4>2. h < i
        BY <1>7, <1>8, <1>9, <2>1, <4>1
      <4> QED BY <1>3, <2>1, <3>1, <4>2
    <3> QED BY <1>0, <3>1, <3>2, <3>3
  <2> QED BY <1>1, <2>1 DEF Acking
<1> QED BY <1>a, <1>16, <1>17, <1>18, <1>19, <1>20, <1>21, <1>22, <1>23, <1>24 DEF Good

\* A resumed handler catches up with the places P of the transcript, which
\* are past the checkpoint and hold every event that is.
LEMMA CatchUpKeeps ==
    ASSUME NEW t, NEW r, NEW d, NEW g, Good(t, r, d, g), Live(t, r), ~AtWork(d), LastOf(r.lines) # 0,
           NEW P \in SUBSET DOMAIN r.lines,
           \A i \in P : i > t.cursor /\ i > r.acked,
           \A i \in DOMAIN r.lines :
               r.lines[i].kind = "event" /\ i > t.cursor /\ i > r.acked => i \in P,
           NEW r2 \in Relays, r2.epoch = r.epoch, r2.lines = r.lines, r2.acked = r.acked,
           r2.following, r2.sent = <<>>,
           NEW d2 \in Daemons, d2.stage = "waiting", d2.toAck = d.toAck,
           d2.cursor = (IF P = {} THEN t.cursor ELSE Latest(P)),
           d2.commits = Ascending({i \in P : r.lines[i].kind \in Events}),
           d2.serving = d.serving \cup {i \in P : r.lines[i].kind \in Requests},
           d2.stop = IF Running(r.lines) THEN 0 ELSE LastOf(r.lines)
    PROVE  Good(t, r2, d2, g)
<1>a. /\ t \in Tasks /\ r \in Relays /\ d \in Daemons
      /\ WellTold(r.lines, t.prompt)
  BY DEF Good
<1>b. Asked(t, r, d) /\ Phased(t, r, d) /\ Rested(r, d) /\ Placed(t, r, d)
  BY DEF Good
<1>c. Marked(t, r) /\ Settled(t, r, g) /\ Exact(t, r, g) /\ Acking(t, r, d, g)
  BY DEF Good
<1>0. /\ t.prompt \in Nat /\ t.cursor \in Nat /\ r.lines \in Seq(Lines) /\ r.acked \in Nat
  BY <1>a, Fields
<1>1. DOMAIN r.lines = 1..Len(r.lines) /\ Len(r.lines) \in Nat
  BY <1>0
<1>2. Live(t, r2) /\ Here(t, r) /\ AtWork(d2) /\ Here(t, r2)
  BY DEF Live, Here, AtWork
<1> DEFINE E == {i \in P : r.lines[i].kind \in Events}
           q == Ascending(E)
<1>3. E \in SUBSET (1..Len(r.lines))
  BY <1>1
<1>4. /\ q \in Seq(Nat) /\ Ascends(q)
      /\ \A k \in DOMAIN q : q[k] \in E
      /\ \A i \in E : In(i, q)
  BY <1>1, <1>3, AscendingIs DEF In
<1>5. d2.commits = q
  OBVIOUS
<1> HIDE DEF q
<1>6. Asked(t, r2, d2)
  BY <1>b DEF Asked, Live
<1>7. Phased(t, r2, d2)
  BY <1>b, <1>2 DEF Phased, Live
<1>8. Rested(r2, d2)
  BY <1>2 DEF Rested
<1>9. Placed(t, r2, d2)
  <2>1. t.cursor <= Len(r.lines)
    BY <1>2, <1>b DEF Placed
  <2>2. P # {} => Latest(P) \in P
    <3>1. P \in SUBSET Nat /\ \A x \in P : x <= Len(r.lines)
      BY <1>1
    <3> QED BY <1>1, <3>1, LatestIs
  <2>3. d2.cursor <= Len(r2.lines)
    <3>1. CASE P = {}
      BY <2>1, <3>1
    <3>2. CASE P # {}
      <4>1. Latest(P) \in 1..Len(r.lines)
        BY <1>1, <2>2, <3>2
      <4> QED BY <3>2, <4>1
    <3> QED BY <3>1, <3>2
  <2>4. \A k \in DOMAIN d2.commits : Place(r2, d2.commits[k], Events)
    BY <1>4, <1>5 DEF Place
  <2>5. \A x \in d2.serving : Place(r2, x, Requests)
    BY <1>b DEF Placed, Place
  <2>6. \A k \in DOMAIN r2.sent : Place(r2, r2.sent[k], Output)
    BY EmptyDomain
  <2> QED BY <1>b, <1>2, <2>3, <2>4, <2>5, <2>6 DEF Placed
<1>10. Pending(t, r2, d2, g)
  <2>1. Own(t, r2, q, g)
    <3> SUFFICES ASSUME NEW k \in DOMAIN q
                 PROVE  q[k] > t.cursor /\
                        (r.lines[q[k]].kind = "event" => r.lines[q[k]].of = t.prompt \/ q[k] \in g)
      BY DEF Own
    <3>1. q[k] \in P /\ q[k] \in Nat
      BY <1>1, <1>4
    <3>2. q[k] > t.cursor /\ q[k] > r.acked
      BY <3>1
    <3>3. ~(q[k] <= r.acked)
      BY <1>0, <3>1, <3>2
    <3> QED BY <1>c, <3>1, <3>2, <3>3 DEF Settled
  <2>2. ASSUME NEW i \in DOMAIN r.lines, r.lines[i] = Line("event", t.prompt), i > t.cursor
        PROVE  In(i, q)
    <3>1. i \in Nat
      BY <1>1
    <3>2. ~(i <= r.acked)
      BY <1>0, <1>c, <2>2, <3>1 DEF Marked
    <3>3. r.lines[i].kind = "event"
      BY <2>2, LineParts
    <3>4. i \in E
      BY <1>0, <2>2, <3>1, <3>2, <3>3 DEF Events
    <3> QED BY <1>4, <3>4
  <2>3. Ascends(<<>>) /\ Own(t, r2, <<>>, g)
    BY EmptyDomain DEF Ascends, Own
  <2> QED BY <1>4, <1>5, <2>1, <2>2, <2>3, EmptyDomain DEF Pending
<1>11. Marked(t, r2) /\ Settled(t, r2, g) /\ Exact(t, r2, g)
  BY <1>c, <1>2 DEF Marked, Settled, Exact, Live, Here
<1>12. Acking(t, r2, d2, g)
  BY <1>c, <1>2 DEF Acking
<1> QED BY <1>a, <1>6, <1>7, <1>8, <1>9, <1>10, <1>11, <1>12 DEF Good

-----------------------------------------------------------------------------
(* The records of the module's variables, step by step.                    *)

\* It holds before anything is asked.
LEMMA RecoveryInvInit == AcpInit => RecoveryInv
<1> SUFFICES ASSUME AcpInit PROVE RecoveryInv
  OBVIOUS
<1>0. MaxPrompts \in Nat /\ MaxRelays \in Nat \ {0} /\ MaxCrashes \in Nat
  BY RecoveryAssumption DEF RecoveryAssumption
<1>1. /\ task.prompt = 0 /\ task.phase = "done" /\ task.epoch = 0 /\ task.progress = <<>>
      /\ task.cursor = 0
  BY DEF AcpInit
<1>2. /\ relay.epoch = 1 /\ relay.lines = <<>> /\ relay.acked = 0 /\ relay.following = TRUE
      /\ relay.sent = <<>>
  BY DEF AcpInit, FreshRelay
<1>3. /\ daemon.stage = "idle" /\ daemon.cursor = 0 /\ daemon.commits = <<>>
      /\ daemon.serving = {} /\ daemon.stop = 0 /\ daemon.toAck = 0
  BY DEF AcpInit, Resting
<1>4. task \in Tasks
  BY <1>0 DEF AcpInit, Tasks
<1>5. relay \in Relays
  <2>1. <<>> \in Seq(Lines) /\ <<>> \in Seq(Nat) /\ 1 \in 1..MaxRelays
    BY <1>0
  <2> QED BY <2>1 DEF AcpInit, FreshRelay, Relays
<1>6. daemon \in Daemons
  BY DEF AcpInit, Resting, Daemons
<1>7. WellTold(relay.lines, task.prompt) /\ LastOf(relay.lines) = 0 /\ ~Running(relay.lines)
  BY <1>1, <1>2, NothingTold
<1>8. ~Live(task, relay) /\ ~Here(task, relay) /\ ~AtWork(daemon)
  BY <1>1, <1>2, <1>3 DEF Live, Here, AtWork
<1>9. Asked(task, relay, daemon) /\ Rested(relay, daemon)
  BY <1>1, <1>2, <1>3, <1>8 DEF Asked, Rested
<1>10. Phased(task, relay, daemon)
  BY <1>1, <1>2, <1>3, <1>7, <1>8 DEF Phased
<1>11. Placed(task, relay, daemon)
  <2>1. Len(relay.lines) = 0
    BY <1>2, EmptySeq
  <2> QED BY <1>2, <1>3, <1>8, <2>1, EmptyDomain DEF Placed
<1>12. Settled(task, relay, unacked)
  BY <1>2, EmptyDomain DEF Settled
<1>13. /\ Marked(task, relay) /\ Pending(task, relay, daemon, unacked) /\ Exact(task, relay, unacked)
       /\ Acking(task, relay, daemon, unacked)
  BY <1>3, <1>8 DEF Marked, Pending, Exact, Acking
<1>14. Good(task, relay, daemon, unacked)
  BY <1>4, <1>5, <1>6, <1>7, <1>9, <1>10, <1>11, <1>12, <1>13 DEF Good
<1>15. crashes = 0 /\ ended = 0 /\ skipped = FALSE /\ unacked = {}
  BY DEF AcpInit
<1>16. crashes \in 0..MaxCrashes /\ ended \in Nat
  BY <1>0, <1>15
<1>17. skipped \in BOOLEAN /\ unacked \in SUBSET Nat
  BY <1>15
<1> QED BY <1>14, <1>16, <1>17 DEF RecoveryInv

\* record, of a line that is sent to a follower or not.
LEMMA RecordedIs ==
    ASSUME relay \in Relays, NEW l \in Lines, relay' = Recorded(l)
    PROVE  /\ relay' \in Relays /\ relay'.epoch = relay.epoch /\ relay'.acked = relay.acked
           /\ relay'.following = relay.following /\ relay'.lines = Append(relay.lines, l)
           /\ l.kind \in Output =>
                  relay'.sent = IF relay.following THEN Append(relay.sent, Len(relay.lines) + 1)
                                ELSE relay.sent
           /\ l.kind \notin Output => relay'.sent = relay.sent
<1> DEFINE place == Len(relay.lines) + 1
           s == IF relay.following /\ l.kind \in Output
                THEN Append(relay.sent, place) ELSE relay.sent
<1>1. relay' = [relay EXCEPT !.lines = Append(@, l), !.sent = s]
  BY DEF Recorded
<1>2. relay.lines \in Seq(Lines) /\ relay.sent \in Seq(Nat)
  BY DEF Relays
<1>3. place \in Nat
  BY <1>2
<1>4. Append(relay.lines, l) \in Seq(Lines)
  BY <1>2, AppendIs
<1>5. s \in Seq(Nat)
  <2>1. Append(relay.sent, place) \in Seq(Nat)
    BY <1>2, <1>3, AppendIs
  <2> QED BY <1>2, <2>1
<1>6. /\ relay'.epoch = relay.epoch /\ relay'.acked = relay.acked
      /\ relay'.following = relay.following /\ relay'.lines = Append(relay.lines, l)
      /\ relay'.sent = s
  <2> HIDE DEF s
  <2> QED BY <1>1 DEF Relays
<1>7. relay' \in Relays
  <2> HIDE DEF s
  <2> QED BY <1>1, <1>4, <1>5 DEF Relays
<1>8. l.kind \in Output => s = IF relay.following THEN Append(relay.sent, place) ELSE relay.sent
  OBVIOUS
<1>9. l.kind \notin Output => s = relay.sent
  OBVIOUS
<1> QED BY <1>6, <1>7, <1>8, <1>9

\* The process writes an event, a request or a stop reason of the turn that runs.
LEMMA SaysKeeps ==
    ASSUME Good(task, relay, daemon, unacked), InFlight, NEW k \in Output,
           relay' = Recorded(Line(k, LastPrompt)), UNCHANGED <<task, daemon, unacked>>
    PROVE  Good(task', relay', daemon', unacked')
<1>1. relay \in Relays /\ WellTold(relay.lines, task.prompt) /\ task \in Tasks /\ daemon \in Daemons
  BY DEF Good
<1>2. LastPrompt = LastOf(relay.lines) /\ Running(relay.lines)
  BY <1>1, Reading
<1>3. LastOf(relay.lines) \in Nat
  <2>1. LastFacts(relay.lines, task.prompt) /\ task.prompt \in Nat
    BY <1>1, Fields, LastOfIs
  <2> QED BY <2>1 DEF LastFacts
<1> DEFINE l == Line(k, LastOf(relay.lines))
<1>4. l \in Lines /\ l.kind \in Output
  BY <1>3, LineType, LineParts DEF Turns
<1>5. relay' = Recorded(l)
  BY <1>2
<1> HIDE DEF l
<1>6. /\ relay' \in Relays /\ relay'.epoch = relay.epoch /\ relay'.acked = relay.acked
      /\ relay'.following = relay.following /\ relay'.lines = Append(relay.lines, l)
      /\ relay'.sent = IF relay.following THEN Append(relay.sent, Len(relay.lines) + 1)
                       ELSE relay.sent
  BY <1>1, <1>4, <1>5, RecordedIs
<1>7. Good(task, relay', daemon, unacked)
  BY <1>2, <1>6, OutputKeeps DEF l
<1> QED BY <1>7

\* The handler answers a request of the agent's.
LEMMA AnswerKeeps ==
    ASSUME Good(task, relay, daemon, unacked), NEW x \in daemon.serving, Reply(x)
    PROVE  Good(task', relay', daemon', unacked')
<1>1. relay \in Relays /\ daemon \in Daemons /\ task \in Tasks
  BY DEF Good
<1>2. x \in Nat
  BY <1>1, Fields
<1> DEFINE l == Line("reply", x)
<1>3. l \in Lines /\ l.kind \notin Output
  BY <1>2, LineType, LineParts DEF Output, Events, Requests
<1>4. relay' = Recorded(l)
  BY DEF Reply
<1> HIDE DEF l
<1>5. /\ relay' \in Relays /\ relay'.epoch = relay.epoch /\ relay'.acked = relay.acked
      /\ relay'.following = relay.following /\ relay'.lines = Append(relay.lines, l)
      /\ relay'.sent = relay.sent
  BY <1>1, <1>3, <1>4, RecordedIs
<1>6. /\ daemon' \in Daemons /\ daemon'.stage = daemon.stage /\ daemon'.cursor = daemon.cursor
      /\ daemon'.commits = daemon.commits /\ daemon'.stop = daemon.stop
      /\ daemon'.serving = daemon.serving \ {x} /\ daemon'.toAck = daemon.toAck
  BY <1>1 DEF Reply, Daemons
<1>7. Good(task, relay', daemon', unacked)
  BY <1>5, <1>6, ReplyKeeps DEF l
<1> QED BY <1>7 DEF Reply, ghosts

\* An acknowledgement only raises the relay's mark.
LEMMA AckedIs ==
    ASSUME NEW r \in Relays, NEW c \in Nat, NEW r2, r2 = Acked(r, c)
    PROVE  /\ r2 \in Relays /\ r2.epoch = r.epoch /\ r2.lines = r.lines
           /\ r2.following = r.following /\ r2.sent = r.sent
           /\ r2.acked = IF c > r.acked THEN c ELSE r.acked
<1> DEFINE a == IF c > r.acked THEN c ELSE r.acked
<1>1. a \in Nat
  BY DEF Relays
<1>2. r2 = [r EXCEPT !.acked = a]
  BY DEF Acked
<1> HIDE DEF a
<1>3. /\ r2 \in Relays /\ r2.epoch = r.epoch /\ r2.lines = r.lines
      /\ r2.following = r.following /\ r2.sent = r.sent /\ r2.acked = a
  BY <1>1, <1>2 DEF Relays
<1> QED BY <1>3 DEF a

\* A prompt is submitted.
LEMMA SubmitStep ==
    ASSUME Good(task, relay, daemon, unacked), Submit
    PROVE  Good(task', relay', daemon', unacked')
<1>0. MaxPrompts \in Nat
  BY RecoveryAssumption DEF RecoveryAssumption
<1>1. task \in Tasks /\ task.prompt \in Nat
  BY Fields DEF Good
<1>2. task.prompt + 1 \in 0..MaxPrompts
  BY <1>0, <1>1 DEF Submit
<1>3. /\ task'.prompt = task.prompt + 1 /\ task'.phase = "queued" /\ task'.progress = <<>>
      /\ task'.epoch = 0
  BY DEF Submit
<1>4. task' \in Tasks
  <2>1. <<>> \in Seq(Nat)
    OBVIOUS
  <2> QED BY <1>2, <2>1 DEF Submit, Tasks
<1>5. task.phase = "done" /\ daemon.stage = "idle"
  BY DEF Submit
<1>6. Good(task', relay, daemon, unacked)
  BY <1>3, <1>4, <1>5, SubmitKeeps
<1> QED BY <1>6 DEF Submit, ghosts

\* The prompt is checkpointed at the cursor the daemon holds.
LEMMA DispatchStep ==
    ASSUME Good(task, relay, daemon, unacked), Dispatch
    PROVE  Good(task', relay', daemon', unacked')
<1>1. /\ task \in Tasks /\ relay \in Relays /\ daemon \in Daemons /\ daemon.cursor \in Nat
      /\ relay.epoch \in Nat
  BY Fields DEF Good
<1>2. /\ task'.prompt = task.prompt /\ task'.phase = "dispatched"
      /\ task'.progress = task.progress /\ task'.epoch = relay.epoch
      /\ task'.cursor = daemon.cursor
  BY <1>1 DEF Dispatch, Tasks
<1>3. task' \in Tasks
  BY <1>1 DEF Dispatch, Tasks
<1>4. /\ daemon' \in Daemons /\ daemon'.stage = "dispatching" /\ daemon'.cursor = daemon.cursor
      /\ daemon'.commits = daemon.commits /\ daemon'.stop = daemon.stop
      /\ daemon'.serving = daemon.serving /\ daemon'.toAck = daemon.cursor
  BY <1>1 DEF Dispatch, Daemons
<1>5. task.phase = "queued" /\ daemon.stage = "idle"
  BY DEF Dispatch
<1>6. Good(task', relay, daemon', unacked)
  BY <1>2, <1>3, <1>4, <1>5, DispatchKeeps
<1> QED BY <1>6 DEF Dispatch, ghosts

\* The daemon acknowledges what it has committed.
LEMMA AcknowledgeStep ==
    ASSUME Good(task, relay, daemon, unacked), Acknowledge
    PROVE  Good(task', relay', daemon', unacked')
<1>1. relay \in Relays /\ daemon \in Daemons /\ daemon.toAck \in Nat
  BY Fields DEF Good
<1>2. relay' = Acked(relay, daemon.toAck) /\ daemon.toAck # 0
  BY DEF Acknowledge
<1>3. /\ relay' \in Relays /\ relay'.epoch = relay.epoch /\ relay'.lines = relay.lines
      /\ relay'.following = relay.following /\ relay'.sent = relay.sent
      /\ relay'.acked = IF daemon.toAck > relay.acked THEN daemon.toAck ELSE relay.acked
  BY <1>1, <1>2, AckedIs
<1>4. /\ daemon' \in Daemons /\ daemon'.stage = daemon.stage /\ daemon'.cursor = daemon.cursor
      /\ daemon'.commits = daemon.commits /\ daemon'.stop = daemon.stop
      /\ daemon'.serving = daemon.serving /\ daemon'.toAck = 0
  BY <1>1 DEF Acknowledge, Daemons
<1>5. Good(task, relay', daemon', unacked)
  BY <1>2, <1>3, <1>4, AckKeeps
<1> QED BY <1>5 DEF Acknowledge, ghosts

\* A written prompt is one more line of the transcript.
LEMMA PromptedIs ==
    ASSUME NEW r \in Relays, task \in Tasks, NEW r2, r2 = Prompted(r)
    PROVE  /\ r2 \in Relays /\ r2.epoch = r.epoch /\ r2.acked = r.acked
           /\ r2.lines = Append(r.lines, Line("prompt", task.prompt))
           /\ r2.following = r.following /\ r2.sent = r.sent
<1> DEFINE q == Append(r.lines, Line("prompt", task.prompt))
<1>1. task.prompt \in Nat /\ r.lines \in Seq(Lines)
  BY DEF Tasks, Relays
<1>2. Line("prompt", task.prompt) \in Lines
  BY <1>1, LineType DEF Turns
<1>3. q \in Seq(Lines)
  BY <1>1, <1>2, AppendIs
<1>4. r2 = [r EXCEPT !.lines = q]
  BY DEF Prompted
<1> HIDE DEF q
<1>5. /\ r2 \in Relays /\ r2.epoch = r.epoch /\ r2.acked = r.acked /\ r2.lines = q
      /\ r2.following = r.following /\ r2.sent = r.sent
  BY <1>3, <1>4 DEF Relays
<1> QED BY <1>5 DEF q

\* The prompt is written to the relay.
LEMMA SendPromptStep ==
    ASSUME Good(task, relay, daemon, unacked), SendPrompt
    PROVE  Good(task', relay', daemon', unacked')
<1>1. task \in Tasks /\ relay \in Relays /\ daemon \in Daemons
  BY DEF Good
<1>2. /\ relay' \in Relays /\ relay'.epoch = relay.epoch /\ relay'.acked = relay.acked
      /\ relay'.lines = Append(relay.lines, Line("prompt", task.prompt))
      /\ relay'.following = relay.following /\ relay'.sent = relay.sent
  BY <1>1, PromptedIs DEF SendPrompt
<1>3. daemon.stage = "dispatching" /\ task' = task /\ daemon.toAck = 0
  BY DEF SendPrompt
<1>4. Live(task, relay) /\ relay.following /\ ~AtWork(daemon)
  BY <1>3 DEF Good, Phased, AtWork
<1>5. \A i \in PromptsOf(relay.lines) : relay.lines[i].of < task.prompt
  BY <1>3 DEF Good, Asked
<1>6. /\ daemon' \in Daemons /\ daemon'.stage = "prompting" /\ daemon'.cursor = daemon.cursor
      /\ daemon'.commits = daemon.commits /\ daemon'.stop = daemon.stop
      /\ daemon'.serving = daemon.serving /\ daemon'.toAck = 0
  BY <1>1, <1>3 DEF SendPrompt, Daemons
<1>7. relay'.following
  BY <1>2, <1>4
<1>8. Good(task, relay', daemon', unacked)
  BY <1>2, <1>3, <1>4, <1>5, <1>6, <1>7, PromptKeeps
<1> QED BY <1>3, <1>8 DEF SendPrompt, ghosts

\* What taking the line at a place changes in the daemon.
LEMMA TookIs ==
    ASSUME daemon \in Daemons, relay \in Relays, NEW h \in Nat, daemon' = Took(daemon, h),
           LastPrompt \in Nat
    PROVE  /\ daemon' \in Daemons /\ daemon'.stage = daemon.stage /\ daemon'.cursor = h
           /\ daemon'.toAck = daemon.toAck
           /\ daemon'.commits = IF relay.lines[h].kind \in Events /\ daemon.stage # "idle"
                                THEN Append(daemon.commits, h) ELSE daemon.commits
           /\ daemon'.serving = IF relay.lines[h].kind \in Requests
                                THEN daemon.serving \cup {h} ELSE daemon.serving
           /\ daemon'.stop = IF AtWork(daemon) /\ relay.lines[h] = Line("stop", LastPrompt)
                             THEN LastPrompt ELSE daemon.stop
<1> DEFINE c == IF relay.lines[h].kind \in Events /\ daemon.stage # "idle"
                THEN Append(daemon.commits, h) ELSE daemon.commits
           s == IF relay.lines[h].kind \in Requests
                THEN daemon.serving \cup {h} ELSE daemon.serving
           p == IF AtWork(daemon) /\ relay.lines[h] = Line("stop", LastPrompt)
                THEN LastPrompt ELSE daemon.stop
<1>1. daemon.commits \in Seq(Nat) /\ daemon.serving \in SUBSET Nat /\ daemon.stop \in Nat
  BY DEF Daemons
<1>2. Append(daemon.commits, h) \in Seq(Nat)
  BY <1>1, AppendIs
<1>3. c \in Seq(Nat)
  BY <1>1, <1>2
<1>4. s \in SUBSET Nat
  BY <1>1
<1>5. p \in Nat
  BY <1>1
<1>6. daemon' = [daemon EXCEPT !.cursor = h, !.commits = c, !.serving = s, !.stop = p]
  BY DEF Took, Working, AtWork
<1> HIDE DEF c, s, p
<1>7. /\ daemon'.stage = daemon.stage /\ daemon'.cursor = h /\ daemon'.commits = c
      /\ daemon'.serving = s /\ daemon'.stop = p /\ daemon'.toAck = daemon.toAck
  BY <1>6 DEF Daemons
<1>8. daemon' \in Daemons
  BY <1>3, <1>4, <1>5, <1>6 DEF Daemons
<1> QED BY <1>7, <1>8 DEF c, s, p

\* The last prompt of the relay is the one its lines tell of.
LEMMA LastPromptType ==
    ASSUME Good(task, relay, daemon, unacked)
    PROVE  LastPrompt \in Nat /\ LastPrompt = LastOf(relay.lines)
<1>1. /\ relay \in Relays /\ WellTold(relay.lines, task.prompt)
      /\ task.prompt \in Nat /\ relay.lines \in Seq(Lines)
  BY Fields DEF Good
<1>2. LastPrompt = LastOf(relay.lines)
  BY <1>1, Reading
<1>3. LastFacts(relay.lines, task.prompt)
  BY <1>1, LastOfIs
<1> QED BY <1>1, <1>2, <1>3 DEF LastFacts

\* The daemon takes the next line the relay sent.
LEMMA DeliverStep ==
    ASSUME Good(task, relay, daemon, unacked), DeliverLine
    PROVE  Good(task', relay', daemon', unacked')
<1>1. task \in Tasks /\ relay \in Relays /\ daemon \in Daemons /\ relay.sent \in Seq(Nat)
  BY Fields DEF Good
<1>2. relay.sent # <<>> /\ task' = task
  BY DEF DeliverLine
<1> DEFINE h == Head(relay.sent)
           u == Tail(relay.sent)
<1>3. h \in Nat /\ u \in Seq(Nat)
  BY <1>1, <1>2, TailIs
<1>4. relay' = [relay EXCEPT !.sent = u] /\ daemon' = Took(daemon, h)
  BY DEF DeliverLine
<1>5. LastPrompt \in Nat /\ LastPrompt = LastOf(relay.lines)
  BY LastPromptType
<1>6. relay'.sent = u /\ h = Head(relay.sent) /\ u = Tail(relay.sent)
  <2> HIDE DEF u, h
  <2>1. relay'.sent = u
    BY <1>1, <1>4 DEF Relays
  <2> QED BY <2>1 DEF u, h
<1> HIDE DEF h, u
<1>7. /\ relay' \in Relays /\ relay'.epoch = relay.epoch /\ relay'.lines = relay.lines
      /\ relay'.acked = relay.acked /\ relay'.following = relay.following
  BY <1>1, <1>3, <1>4 DEF Relays
<1>8. /\ daemon' \in Daemons /\ daemon'.stage = daemon.stage /\ daemon'.cursor = h
      /\ daemon'.toAck = daemon.toAck
      /\ daemon'.commits = IF relay.lines[h].kind \in Events /\ daemon.stage # "idle"
                           THEN Append(daemon.commits, h) ELSE daemon.commits
      /\ daemon'.serving = IF relay.lines[h].kind \in Requests
                           THEN daemon.serving \cup {h} ELSE daemon.serving
      /\ daemon'.stop = IF AtWork(daemon) /\ relay.lines[h] = Line("stop", LastPrompt)
                        THEN LastPrompt ELSE daemon.stop
  BY <1>1, <1>3, <1>4, <1>5, TookIs
<1>9. daemon'.stop = IF AtWork(daemon) /\ relay.lines[h] = Line("stop", LastOf(relay.lines))
                     THEN LastOf(relay.lines) ELSE daemon.stop
  BY <1>5, <1>8
<1>10. relay'.sent = Tail(relay.sent)
  BY <1>6
<1>11. Good(task, relay', daemon', unacked)
  BY <1>2, <1>6, <1>7, <1>8, <1>9, <1>10, DeliverKeeps
<1> QED BY <1>2, <1>11 DEF DeliverLine, ghosts

\* The oldest waiting event is stored with its cursor.
LEMMA CommitStep ==
    ASSUME Good(task, relay, daemon, unacked), CommitProgress
    PROVE  Good(task', relay', daemon', unacked')
<1>1. /\ task \in Tasks /\ relay \in Relays /\ daemon \in Daemons
      /\ daemon.commits \in Seq(Nat) /\ task.progress \in Seq(Nat)
  BY Fields DEF Good
<1>2. daemon.commits # <<>> /\ AtWork(daemon) /\ daemon.toAck = 0
  BY DEF CommitProgress, Working, AtWork
<1> DEFINE h == Head(daemon.commits)
           u == Tail(daemon.commits)
           q == Append(task.progress, h)
<1>3. h \in Nat /\ u \in Seq(Nat)
  BY <1>1, <1>2, TailIs
<1>4. q \in Seq(Nat)
  BY <1>1, <1>3, AppendIs
<1>5. /\ task' = [task EXCEPT !.progress = q, !.cursor = h]
      /\ daemon' = [daemon EXCEPT !.commits = u, !.toAck = h]
  BY DEF CommitProgress
<1>6. h = Head(daemon.commits)
  OBVIOUS
<1>7. u = Tail(daemon.commits) /\ q = Append(task.progress, h)
  OBVIOUS
<1> HIDE DEF h, u, q
<1>8. /\ task' \in Tasks /\ task'.prompt = task.prompt /\ task'.phase = task.phase
      /\ task'.epoch = task.epoch /\ task'.progress = q /\ task'.cursor = h
  BY <1>1, <1>3, <1>4, <1>5 DEF Tasks
<1>10. /\ daemon' \in Daemons /\ daemon'.stage = daemon.stage /\ daemon'.cursor = daemon.cursor
       /\ daemon'.commits = u /\ daemon'.stop = daemon.stop
       /\ daemon'.serving = daemon.serving /\ daemon'.toAck = h
  BY <1>1, <1>3, <1>5 DEF Daemons
<1>11. task'.progress = Append(task.progress, h) /\ daemon'.commits = Tail(daemon.commits)
  BY <1>7, <1>8, <1>10
<1>12. Good(task', relay, daemon', unacked)
  BY <1>2, <1>6, <1>8, <1>10, <1>11, CommitKeeps
<1> QED BY <1>12 DEF CommitProgress, ghosts

\* The prompt completes.
LEMMA CompleteStep ==
    ASSUME Good(task, relay, daemon, unacked), Complete
    PROVE  Good(task', relay', daemon', unacked') /\ ended' \in Nat
<1>1. task \in Tasks /\ relay \in Relays /\ daemon \in Daemons /\ daemon.stop \in Nat
  BY Fields DEF Good
<1>2. /\ AtWork(daemon) /\ daemon.stop # 0 /\ daemon.commits = <<>>
      /\ daemon.toAck = 0
  BY DEF Complete, Working, AtWork
<1>3. /\ task' \in Tasks /\ task'.prompt = task.prompt /\ task'.phase = "done"
      /\ task'.progress = task.progress /\ task'.epoch = task.epoch
      /\ task'.cursor = task.cursor
  BY <1>1 DEF Complete, Tasks
<1>4. daemon' = [daemon EXCEPT !.stage = "idle", !.commits = <<>>, !.stop = 0]
  BY DEF Complete, AtRest
<1>5. /\ daemon'.stage = "idle" /\ daemon'.cursor = daemon.cursor /\ daemon'.commits = <<>>
      /\ daemon'.stop = 0 /\ daemon'.serving = daemon.serving /\ daemon'.toAck = 0
  BY <1>1, <1>2, <1>4 DEF Daemons
<1>6. daemon' \in Daemons
  <2>1. <<>> \in Seq(Nat)
    OBVIOUS
  <2> QED BY <1>1, <1>4, <2>1 DEF Daemons
<1>7. Good(task', relay, daemon', unacked)
  BY <1>2, <1>3, <1>5, <1>6, CompleteKeeps
<1> QED BY <1>1, <1>7 DEF Complete

\* The daemon dies.
LEMMA CrashStep ==
    ASSUME Good(task, relay, daemon, unacked), CrashDaemon, crashes \in 0..MaxCrashes
    PROVE  /\ Good(task', relay', daemon', unacked') /\ crashes' \in 0..MaxCrashes
           /\ (unacked \in SUBSET Nat => unacked' \in SUBSET Nat)
<1>1. task \in Tasks /\ relay \in Relays /\ daemon \in Daemons /\ daemon.toAck \in Nat
  BY Fields DEF Good
<1>2. daemon' = [stage |-> "down", cursor |-> 0, commits |-> <<>>, toAck |-> 0,
               serving |-> {}, stop |-> 0]
  BY DEF CrashDaemon, Resting
<1>3. /\ daemon'.stage = "down" /\ daemon'.cursor = 0 /\ daemon'.commits = <<>>
      /\ daemon'.stop = 0 /\ daemon'.serving = {} /\ daemon'.toAck = 0
  BY <1>2
<1>4. <<>> \in Seq(Nat)
  OBVIOUS
<1>5. daemon' \in Daemons
  BY <1>2, <1>4 DEF Daemons
<1>6. relay' = [relay EXCEPT !.following = FALSE, !.sent = <<>>]
  BY DEF CrashDaemon
<1>7. /\ relay' \in Relays /\ relay'.epoch = relay.epoch /\ relay'.lines = relay.lines
      /\ relay'.acked = relay.acked /\ relay'.sent = <<>> /\ relay'.following = FALSE
  BY <1>1, <1>4, <1>6 DEF Relays
<1>10. /\ unacked \subseteq unacked' /\ (daemon.toAck # 0 => daemon.toAck \in unacked')
       /\ (unacked \in SUBSET Nat => unacked' \in SUBSET Nat)
  BY <1>1 DEF CrashDaemon
<1>8. Good(task, relay', daemon', unacked')
  BY <1>3, <1>5, <1>7, <1>10, RestartKeeps
<1>9. crashes' \in 0..MaxCrashes
  BY RecoveryAssumption DEF RecoveryAssumption, CrashDaemon
<1> QED BY <1>8, <1>9, <1>10 DEF CrashDaemon

\* A daemon starts and attaches to the relay that runs.
LEMMA StartStep ==
    ASSUME Good(task, relay, daemon, unacked), StartDaemon
    PROVE  Good(task', relay', daemon', unacked')
<1>1. task \in Tasks /\ relay \in Relays /\ daemon \in Daemons
  BY DEF Good
<1>2. /\ daemon'.stage = "idle" /\ daemon'.cursor = 0 /\ daemon'.commits = <<>>
      /\ daemon'.stop = 0 /\ daemon'.serving = {} /\ daemon'.toAck = 0
  BY DEF StartDaemon, Resting
<1>3. daemon' \in Daemons
  BY DEF StartDaemon, Resting, Daemons
<1>4. relay' = [relay EXCEPT !.following = ~InFlight]
  BY DEF StartDaemon
<1>5. InFlight = Running(relay.lines)
  BY <1>1, Reading
<1>6. (~InFlight) \in BOOLEAN
  BY DEF InFlight
<1>7. /\ relay'.epoch = relay.epoch /\ relay'.lines = relay.lines
      /\ relay'.acked = relay.acked /\ relay'.sent = relay.sent
      /\ relay'.following = ~Running(relay.lines)
  BY <1>1, <1>4, <1>5 DEF Relays
<1>8. relay' \in Relays
  BY <1>1, <1>4, <1>6 DEF Relays
<1>9. relay.sent = <<>>
  BY DEF Good, Rested, AtWork, StartDaemon
<1>10. daemon.toAck = 0
  BY DEF Good, Acking, AtWork, StartDaemon
<1>11. Good(task, relay', daemon', unacked)
  BY <1>2, <1>3, <1>7, <1>8, <1>9, <1>10, RestartKeeps
<1> QED BY <1>11 DEF StartDaemon, ghosts

\* A resume finds that its relay is gone.
LEMMA ElsewhereStep ==
    ASSUME Good(task, relay, daemon, unacked), ResumeElsewhere
    PROVE  Good(task', relay', daemon', unacked')
<1>1. task \in Tasks
  BY DEF Good
<1>2. /\ task' \in Tasks /\ task'.prompt = task.prompt /\ task'.phase = "done"
      /\ task'.epoch = task.epoch
  BY <1>1 DEF ResumeElsewhere, Tasks
<1>3. task.phase = "dispatched" /\ daemon.stage = "idle" /\ task.epoch # relay.epoch
  BY DEF ResumeElsewhere, Resuming
<1>4. Good(task', relay, daemon, unacked)
  BY <1>2, <1>3, ElsewhereKeeps
<1> QED BY <1>4 DEF ResumeElsewhere, ghosts

\* A resume finds its prompt missing from the transcript, and writes it.
LEMMA MissingStep ==
    ASSUME Good(task, relay, daemon, unacked), ResumeMissing
    PROVE  Good(task', relay', daemon', unacked')
<1>1. /\ task \in Tasks /\ relay \in Relays /\ daemon \in Daemons
      /\ relay.lines \in Seq(Lines) /\ task.prompt \in Nat /\ task.cursor \in Nat
      /\ WellTold(relay.lines, task.prompt)
  BY Fields DEF Good
<1>2. /\ daemon.stage = "idle" /\ Live(task, relay) /\ ~AtWork(daemon)
      /\ ~PromptStillOpen(task.cursor) /\ daemon.toAck = 0
  BY DEF ResumeMissing, Resuming, Live, AtWork, Good, Acking
<1>3. LastFacts(relay.lines, task.prompt)
  BY <1>1, LastOfIs
<1>4. LastPrompt = LastOf(relay.lines) /\ LastOf(relay.lines) \in Nat
  BY LastPromptType
<1>5. LastOf(relay.lines) = 0 \/ \E i \in DOMAIN relay.lines :
          relay.lines[i] = Line("stop", LastOf(relay.lines)) /\ ~(i > task.cursor)
  BY <1>2, <1>4 DEF PromptStillOpen, Places
<1>6. ASSUME NEW i \in PromptsOf(relay.lines) PROVE relay.lines[i].of < task.prompt
  <2>1. i \in DOMAIN relay.lines /\ relay.lines[i].kind \in Turns
    BY DEF PromptsOf, Turns
  <2>2. relay.lines[i].of \in 1..task.prompt /\ relay.lines[i].of <= LastOf(relay.lines)
    BY <1>1, <1>3, <2>1 DEF WellTold, OfTurns, LastFacts
  <2>3. LastOf(relay.lines) # 0
    BY <1>1, <1>4, <2>2
  <2>4. PICK j \in DOMAIN relay.lines :
            relay.lines[j] = Line("stop", LastOf(relay.lines)) /\ ~(j > task.cursor)
    BY <1>5, <2>3
  <2>5. LastOf(relay.lines) # task.prompt
    <3>1. relay.lines[j] = Line("stop", task.prompt) => task.cursor < j
      BY <1>2 DEF Good, Marked
    <3>2. j \in Nat
      BY <1>1
    <3> QED BY <1>1, <2>4, <3>1, <3>2
  <2>6. LastOf(relay.lines) \in 0..task.prompt
    BY <1>3 DEF LastFacts
  <2> QED BY <1>1, <1>4, <2>2, <2>5, <2>6
<1> DEFINE p == Prompted(relay)
<1>7. /\ p \in Relays /\ p.epoch = relay.epoch /\ p.acked = relay.acked
      /\ p.lines = Append(relay.lines, Line("prompt", task.prompt))
      /\ p.following = relay.following /\ p.sent = relay.sent
  BY <1>1, PromptedIs
<1>8. relay' = [p EXCEPT !.following = TRUE]
  BY DEF ResumeMissing
<1> HIDE DEF p
<1>9. /\ relay' \in Relays /\ relay'.epoch = p.epoch /\ relay'.acked = p.acked
      /\ relay'.lines = p.lines /\ relay'.following = TRUE /\ relay'.sent = p.sent
  BY <1>7, <1>8 DEF Relays
<1>10. /\ relay'.epoch = relay.epoch /\ relay'.acked = relay.acked /\ relay'.sent = relay.sent
       /\ relay'.lines = Append(relay.lines, Line("prompt", task.prompt))
  BY <1>7, <1>9
<1>11. /\ daemon' \in Daemons /\ daemon'.stage = "prompting" /\ daemon'.cursor = task.cursor
       /\ daemon'.commits = daemon.commits /\ daemon'.stop = daemon.stop
       /\ daemon'.serving = daemon.serving /\ daemon'.toAck = 0
  BY <1>1, <1>2 DEF ResumeMissing, Daemons
<1>12. daemon'.cursor \in {daemon.cursor, task.cursor} /\ relay'.following
  BY <1>9, <1>11
<1>13. Good(task, relay', daemon', unacked)
  BY <1>2, <1>6, <1>9, <1>10, <1>11, <1>12, PromptKeeps
<1> QED BY <1>13 DEF ResumeMissing, ghosts

\* A resume finds its prompt on the transcript, and catches up with it.
LEMMA OpenStep ==
    ASSUME Good(task, relay, daemon, unacked), ResumeOpen, skipped \in BOOLEAN
    PROVE  Good(task', relay', daemon', unacked') /\ skipped' \in BOOLEAN
<1>1. /\ task \in Tasks /\ relay \in Relays /\ daemon \in Daemons
      /\ relay.lines \in Seq(Lines) /\ task.prompt \in Nat /\ task.cursor \in Nat
      /\ daemon.serving \in SUBSET Nat
      /\ WellTold(relay.lines, task.prompt)
  BY Fields DEF Good
<1>2. /\ daemon.stage = "idle" /\ Live(task, relay) /\ ~AtWork(daemon)
      /\ PromptStillOpen(task.cursor)
  BY DEF ResumeOpen, Resuming, Live, AtWork
<1>3. LastPrompt = LastOf(relay.lines) /\ LastOf(relay.lines) \in Nat
  BY LastPromptType
<1>4. LastOf(relay.lines) # 0
  BY <1>2, <1>3 DEF PromptStillOpen
<1>5. InFlight = Running(relay.lines)
  BY <1>1, Reading
<1> DEFINE P == Replayed(task.cursor)
           E == {i \in P : relay.lines[i].kind \in Events}
           Q == {i \in P : relay.lines[i].kind \in Requests}
           c == IF P = {} THEN task.cursor ELSE Latest(P)
           s == IF InFlight THEN 0 ELSE LastPrompt
<1>6. DOMAIN relay.lines = 1..Len(relay.lines) /\ Len(relay.lines) \in Nat
  BY <1>1
<1>7. P \in SUBSET DOMAIN relay.lines /\ \A i \in P : i > task.cursor /\ i > relay.acked
  BY DEF Replayed
<1>8. \A i \in DOMAIN relay.lines :
          relay.lines[i].kind = "event" /\ i > task.cursor /\ i > relay.acked => i \in P
  <2>1. Replies(relay.lines)
    BY <1>1 DEF WellTold
  <2>2. \A i \in Answered : relay.lines[i].kind \in Requests
    BY <2>1 DEF Answered, Replies
  <2> QED BY <2>2 DEF Replayed, Output, Events, Requests
<1>9. Ascending(E) \in Seq(Nat)
  <2>1. E \in SUBSET (1..Len(relay.lines))
    BY <1>6, <1>7
  <2> QED BY <1>6, <2>1, AscendingIs
<1>10. c \in Nat
  <2>1. P \in SUBSET Nat /\ \A x \in P : x <= Len(relay.lines)
    BY <1>6, <1>7
  <2>2. P # {} => Latest(P) \in P
    BY <1>6, <2>1, LatestIs
  <2> QED BY <1>1, <2>1, <2>2
<1>11. daemon.serving \cup Q \in SUBSET Nat
  BY <1>1, <1>6, <1>7
<1>12. s \in Nat
  BY <1>3
<1>13. daemon' = [daemon EXCEPT !.stage = "waiting", !.cursor = c, !.commits = Ascending(E),
                                !.serving = daemon.serving \cup Q, !.stop = s]
  BY DEF ResumeOpen, CaughtUp
<1>14. /\ c = (IF P = {} THEN task.cursor ELSE Latest(P))
       /\ Q = {i \in P : relay.lines[i].kind \in Requests}
       /\ E = {i \in P : relay.lines[i].kind \in Events}
       /\ s = IF Running(relay.lines) THEN 0 ELSE LastOf(relay.lines)
  BY <1>3, <1>5
<1> HIDE DEF P, E, Q, c, s
<1>15. /\ daemon'.stage = "waiting" /\ daemon'.cursor = c /\ daemon'.commits = Ascending(E)
       /\ daemon'.serving = daemon.serving \cup Q /\ daemon'.stop = s
       /\ daemon'.toAck = daemon.toAck
  BY <1>1, <1>13 DEF Daemons
<1>16. daemon' \in Daemons
  BY <1>1, <1>9, <1>10, <1>11, <1>12, <1>13 DEF Daemons
<1>17. relay' = [relay EXCEPT !.following = TRUE, !.sent = <<>>]
  BY DEF ResumeOpen
<1>18. /\ relay'.epoch = relay.epoch /\ relay'.lines = relay.lines
       /\ relay'.acked = relay.acked /\ relay'.following = TRUE /\ relay'.sent = <<>>
  BY <1>1, <1>17 DEF Relays
<1>19. relay' \in Relays
  <2>1. <<>> \in Seq(Nat)
    OBVIOUS
  <2> QED BY <1>1, <1>17, <2>1 DEF Relays
<1>20. /\ daemon'.cursor = (IF P = {} THEN task.cursor ELSE Latest(P))
       /\ daemon'.commits = Ascending({i \in P : relay.lines[i].kind \in Events})
       /\ daemon'.serving = daemon.serving \cup {i \in P : relay.lines[i].kind \in Requests}
       /\ daemon'.stop = IF Running(relay.lines) THEN 0 ELSE LastOf(relay.lines)
  BY <1>14, <1>15
<1>21. relay'.following
  BY <1>18
<1>22. Good(task, relay', daemon', unacked)
  BY <1>2, <1>4, <1>7, <1>8, <1>15, <1>16, <1>18, <1>19, <1>20, <1>21, CatchUpKeeps
<1>23. task' = task /\ unacked' = unacked
  BY DEF ResumeOpen
<1>24. skipped' \in BOOLEAN
  BY DEF ResumeOpen
<1> QED BY <1>22, <1>23, <1>24

\* The relay ends and a fresh one takes its place.
LEMMA RelayEndsStep ==
    ASSUME Good(task, relay, daemon, unacked), RelayEnds
    PROVE  /\ Good(task', relay', daemon', unacked')
           /\ unacked' \in SUBSET Nat
<1>0. MaxRelays \in Nat
  BY RecoveryAssumption DEF RecoveryAssumption
<1>1. task \in Tasks /\ relay \in Relays /\ daemon \in Daemons /\ relay.epoch \in 1..MaxRelays
  BY Fields DEF Good
<1>2. relay.epoch + 1 \in 1..MaxRelays
  BY <1>0, <1>1 DEF RelayEnds
<1> DEFINE e == relay.epoch + 1
<1>3. relay' = [epoch |-> e, lines |-> <<>>, acked |-> 0, following |-> TRUE, sent |-> <<>>]
  BY DEF RelayEnds, FreshRelay
<1>4. <<>> \in Seq(Lines) /\ <<>> \in Seq(Nat) /\ e \in 1..MaxRelays
  BY <1>2
<1> HIDE DEF e
<1>5. /\ relay' \in Relays /\ relay'.epoch = e /\ relay'.lines = <<>>
      /\ relay'.acked = 0 /\ relay'.following = TRUE /\ relay'.sent = <<>>
  BY <1>3, <1>4 DEF Relays
<1>6. task' = IF AtWork(daemon) \/ daemon.stage = "dispatching"
              THEN [task EXCEPT !.phase = "done", !.outcome = "failed"] ELSE task
  BY DEF RelayEnds, Working, AtWork
<1>7. /\ task' \in Tasks /\ task'.prompt = task.prompt /\ task'.epoch = task.epoch
      /\ task'.progress = task.progress
      /\ task'.phase = IF AtWork(daemon) \/ daemon.stage = "dispatching"
                       THEN "done" ELSE task.phase
  BY <1>1, <1>6 DEF Tasks
<1>8. /\ daemon' \in Daemons /\ daemon'.cursor = 0 /\ daemon'.commits = <<>>
      /\ daemon'.stop = 0 /\ daemon'.serving = {} /\ daemon'.toAck = 0
      /\ daemon'.stage \in {"idle", "down"}
  <2>1. CASE daemon.stage = "down"
    <3>1. daemon' = daemon
      BY <2>1 DEF RelayEnds
    <3>2. /\ daemon.cursor = 0 /\ daemon.commits = <<>> /\ daemon.stop = 0
          /\ daemon.serving = {} /\ daemon.toAck = 0
      BY <2>1 DEF Good, Rested, AtWork, Acking
    <3> QED BY <1>1, <2>1, <3>1, <3>2
  <2>2. CASE daemon.stage # "down"
    <3>1. daemon' = [stage |-> "idle", cursor |-> 0, commits |-> <<>>, toAck |-> 0,
                   serving |-> {}, stop |-> 0]
      BY <2>2 DEF RelayEnds, Resting
    <3> QED BY <1>4, <3>1 DEF Daemons
  <2> QED BY <2>1, <2>2
<1>9. relay'.epoch = relay.epoch + 1
  BY <1>5 DEF e
<1>10. \A u : Good(task', relay', daemon', u)
  <2> TAKE u
  <2>1. Good(task, relay, daemon, unacked)
    OBVIOUS
  <2> QED BY <2>1, <1>5, <1>7, <1>8, <1>9, EndKeeps
<1> QED BY <1>10 DEF RelayEnds

\* Every step of the task, the daemon, the relay and the process keeps it.
LEMMA RecoveryInvNext == RecoveryInv /\ [AcpNext]_acpVars => RecoveryInv'
<1> SUFFICES ASSUME RecoveryInv, [AcpNext]_acpVars
             PROVE  RecoveryInv'
  OBVIOUS
<1>0. /\ Good(task, relay, daemon, unacked)
      /\ crashes \in 0..MaxCrashes /\ ended \in Nat /\ skipped \in BOOLEAN
      /\ unacked \in SUBSET Nat
  BY DEF RecoveryInv
<1> DEFINE Kept == /\ Good(task', relay', daemon', unacked')
                   /\ crashes' \in 0..MaxCrashes /\ ended' \in Nat /\ skipped' \in BOOLEAN
                   /\ unacked' \in SUBSET Nat
<1>1. ASSUME NEW k \in Events \cup Requests, Says(k) PROVE Kept
  BY <1>0, <1>1, SaysKeeps DEF Says, Output, ghosts
<1>2. ASSUME Stops PROVE Kept
  BY <1>0, <1>2, SaysKeeps DEF Stops, Output, ghosts
<1>3. ASSUME Submit PROVE Kept
  BY <1>0, <1>3, SubmitStep DEF Submit, ghosts
<1>4. ASSUME Dispatch PROVE Kept
  BY <1>0, <1>4, DispatchStep DEF Dispatch, ghosts
<1>18. ASSUME Acknowledge PROVE Kept
  BY <1>0, <1>18, AcknowledgeStep DEF Acknowledge, ghosts
<1>5. ASSUME SendPrompt PROVE Kept
  BY <1>0, <1>5, SendPromptStep DEF SendPrompt, ghosts
<1>6. ASSUME DeliverLine PROVE Kept
  BY <1>0, <1>6, DeliverStep DEF DeliverLine, ghosts
<1>7. ASSUME NEW x \in daemon.serving, Reply(x) PROVE Kept
  BY <1>0, <1>7, AnswerKeeps DEF Reply, ghosts
<1>8. ASSUME CommitProgress PROVE Kept
  BY <1>0, <1>8, CommitStep DEF CommitProgress, ghosts
<1>9. ASSUME Complete PROVE Kept
  BY <1>0, <1>9, CompleteStep DEF Complete
<1>10. ASSUME CrashDaemon PROVE Kept
  BY <1>0, <1>10, CrashStep DEF CrashDaemon
<1>11. ASSUME StartDaemon PROVE Kept
  BY <1>0, <1>11, StartStep DEF StartDaemon, ghosts
<1>12. ASSUME ResumeElsewhere PROVE Kept
  BY <1>0, <1>12, ElsewhereStep DEF ResumeElsewhere, ghosts
<1>13. ASSUME ResumeMissing PROVE Kept
  BY <1>0, <1>13, MissingStep DEF ResumeMissing, ghosts
<1>14. ASSUME ResumeOpen PROVE Kept
  BY <1>0, <1>14, OpenStep DEF ResumeOpen
<1>15. ASSUME RelayEnds PROVE Kept
  BY <1>0, <1>15, RelayEndsStep DEF RelayEnds
<1>16. ASSUME UNCHANGED acpVars PROVE Kept
  <2>1. /\ task' = task /\ relay' = relay /\ daemon' = daemon /\ crashes' = crashes
        /\ ended' = ended /\ skipped' = skipped /\ unacked' = unacked
    BY <1>16 DEF acpVars, ghosts
  <2> QED BY <1>0, <2>1
<1>17. Kept
  BY <1>1, <1>2, <1>3, <1>4, <1>5, <1>6, <1>7, <1>8, <1>9, <1>10, <1>11, <1>12, <1>13, <1>14,
     <1>15, <1>16, <1>18 DEF AcpNext, Resume
<1> QED BY <1>17 DEF RecoveryInv

-----------------------------------------------------------------------------
\* The invariant holds in every state of every behaviour.
THEOREM RecoveryInvariant == AcpSpec => []RecoveryInv
<1> QED BY RecoveryInvInit, RecoveryInvNext, PTL DEF AcpSpec

\* The task, the relay and the daemon are the records the code keeps.
AcpTypeOK ==
    /\ task \in Tasks /\ relay \in Relays /\ daemon \in Daemons
    /\ crashes \in 0..MaxCrashes /\ ended \in Nat /\ skipped \in BOOLEAN
    /\ unacked \in SUBSET Nat

\* Whatever crashes, the task, the relay and the daemon keep their shape, and
\* nothing they count passes its bound.
THEOREM AcpTypes == AcpSpec => []AcpTypeOK
<1>1. RecoveryInv => AcpTypeOK
  BY DEF RecoveryInv, Good, AcpTypeOK
<1> QED BY <1>1, RecoveryInvariant, PTL

\* No crash between the checkpoint, the write to the relay, the stop reason
\* and the last commit has a process run one prompt twice.
THEOREM PromptsGoOutOnce == AcpSpec => []PromptedOnce
<1>1. RecoveryInv => PromptedOnce
  <2> SUFFICES ASSUME RecoveryInv, NEW n \in 1..MaxPrompts
               PROVE  Cardinality(Places("prompt", n)) <= 1
    BY DEF PromptedOnce
  <2> DEFINE S == Places("prompt", n)
  <2>1. Good(task, relay, daemon, unacked)
    BY DEF RecoveryInv
  <2>2. relay.lines \in Seq(Lines) /\ Ordered(relay.lines)
    BY <2>1, Fields DEF Good, WellTold
  <2>3. ASSUME NEW i \in S, NEW j \in S PROVE i = j
    <3>1. /\ i \in DOMAIN relay.lines /\ j \in DOMAIN relay.lines
          /\ relay.lines[i] = Line("prompt", n) /\ relay.lines[j] = Line("prompt", n)
      BY DEF Places
    <3>2. i \in Nat /\ j \in Nat
      BY <2>2, <3>1
    <3>3. Line("prompt", n).kind \in Turns /\ Line("prompt", n).kind = "prompt"
      BY LineParts DEF Turns
    <3>4. n \in Nat /\ Line("prompt", n).of = n
      BY LineParts
    <3>5. ~(i < j) /\ ~(j < i)
      BY <2>2, <3>1, <3>3, <3>4 DEF Ordered, InTurn
    <3> QED BY <3>2, <3>5
  <2>4. CASE S = {}
    BY <2>4, FS_EmptySet
  <2>5. CASE S # {}
    <3>1. PICK i \in S : TRUE
      BY <2>5
    <3>2. S = {i}
      BY <2>3, <3>1
    <3>3. Cardinality(S) = 1
      BY <3>2, FS_Singleton
    <3> QED BY <3>3
  <2> QED BY <2>4, <2>5
<1> QED BY <1>1, RecoveryInvariant, PTL

\* The stored progress of a prompt is what its process said up to the
\* checkpoint, in order, whatever crashed; and beside that only committed
\* events of older turns whose acknowledgement died with a daemon.
THEOREM ProgressIsExact == AcpSpec => []ProgressIsTheOutput
<1>1. RecoveryInv => ProgressIsTheOutput
  <2> SUFFICES ASSUME RecoveryInv, task.phase # "queued", task.epoch = relay.epoch
               PROVE  /\ Ascends(task.progress) /\ OwnEvents \subseteq StoredEvents
                      /\ StoredEvents \subseteq OwnEvents \cup unacked
    BY DEF ProgressIsTheOutput
  <2>1. Exact(task, relay, unacked) /\ Placed(task, relay, daemon) /\ Here(task, relay)
    BY DEF RecoveryInv, Good, Here
  <2>2. relay.lines \in Seq(Lines)
    BY Fields DEF RecoveryInv, Good
  <2>3. \A k \in DOMAIN task.progress :
            task.progress[k] \in DOMAIN relay.lines /\ task.progress[k] <= task.cursor
    BY <2>1 DEF Placed
  <2>4. /\ Ascends(task.progress)
        /\ \A k \in DOMAIN task.progress :
               relay.lines[task.progress[k]].kind = "event"
                   => relay.lines[task.progress[k]].of = task.prompt
                      \/ task.progress[k] \in unacked
        /\ \A i \in DOMAIN relay.lines :
               relay.lines[i] = Line("event", task.prompt) /\ i <= task.cursor
                   => In(i, task.progress)
    BY <2>1 DEF Exact
  <2>5. ASSUME NEW i \in StoredEvents, i \notin unacked PROVE i \in OwnEvents
    <3>1. PICK k \in DOMAIN task.progress :
              i = task.progress[k] /\ relay.lines[task.progress[k]].kind = "event"
      BY DEF StoredEvents
    <3>2. i \in DOMAIN relay.lines /\ i <= task.cursor
      BY <2>3, <3>1
    <3>3. relay.lines[i].kind = "event" /\ relay.lines[i].of = task.prompt
      BY <2>4, <2>5, <3>1
    <3>4. relay.lines[i] \in Lines
      BY <2>2, <3>2
    <3>5. relay.lines[i] = Line("event", task.prompt)
      BY <3>3, <3>4, LineIs
    <3> QED BY <3>2, <3>5 DEF OwnEvents, Places
  <2>6. ASSUME NEW i \in OwnEvents PROVE i \in StoredEvents
    <3>1. i \in DOMAIN relay.lines /\ relay.lines[i] = Line("event", task.prompt) /\ i <= task.cursor
      BY DEF OwnEvents, Places
    <3>2. PICK k \in DOMAIN task.progress : task.progress[k] = i
      BY <2>4, <3>1 DEF In
    <3>3. relay.lines[i].kind = "event"
      BY <3>1, LineParts
    <3> QED BY <3>2, <3>3 DEF StoredEvents
  <2> QED BY <2>4, <2>5, <2>6
<1> QED BY <1>1, RecoveryInvariant, PTL
=============================================================================
