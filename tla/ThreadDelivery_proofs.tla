----------------------- MODULE ThreadDelivery_proofs -----------------------
(***************************************************************************)
(* Theorems about ThreadDelivery, for every value of its constants:        *)
(*                                                                         *)
(*   TypeCorrect                      the shapes of the variables          *)
(*   AcknowledgementFollowsInjection  acknowledged means injected          *)
(*   OneReceipt                       one operation id, one Message        *)
(*   NobodyWaitsInVain                no waiter is left parked             *)
(*   RepeatsAreAccountedFor           a repeat needs a cut pass            *)
(*   EveryDeliveryCanBeRead           routing never outlives its Thread    *)
(*   RetriesAreEarned                 one retry per approval               *)
(*   NoPromiseIsLost                  promised Messages stay routed        *)
(*   RetentionOnlyTakesSettled        pruning takes settled Threads only   *)
(*   DeliveryHonoursContract          the refinement of DeliveryContract   *)
(*                                                                         *)
(* They come in this order, each with the invariant it rests on.  Those on *)
(* the waiters, the routing and the contract assume that the writes of the *)
(* harness-state file succeed; the others hold with every fault.           *)
(***************************************************************************)
EXTENDS ThreadDelivery, FiniteSetTheorems, WellFoundedInduction, TLAPS

-----------------------------------------------------------------------------
(* Lemmas about the operators of HarnessStateStore *)

\* The empty state has the declared shape.
LEMMA NoHarnessStateType == NoHarnessState \in HarnessState
  BY DEF NoHarnessState, HarnessState

\* A binding added by `bind` keeps the shape.
LEMMA AddBindingType ==
  ASSUME NEW h \in HarnessState, NEW t \in Threads, NEW s \in Sessions
  PROVE  AddBinding(h, t, s) \in HarnessState
  <1>1. [session |-> s, retry |-> 0] \in Binding
    BY DEF Binding
  <1>2. Append(h.bindings[t], [session |-> s, retry |-> 0]) \in Seq(Binding)
    BY <1>1 DEF HarnessState
  <1>3. QED
    BY <1>2 DEF AddBinding, HarnessState

\* The submitter of a bound Thread is a session.
LEMMA SubmitterType ==
  ASSUME NEW h \in HarnessState, NEW t \in Threads, HasSubmitter(h, t)
  PROVE  /\ Submitter(h, t) \in Sessions
         /\ h.bindings[t][1] \in Binding
  <1>1. h.bindings[t] \in Seq(Binding) /\ h.bindings[t] # <<>>
    BY DEF HarnessState, HasSubmitter
  <1>2. h.bindings[t][1] \in Binding
    BY <1>1
  <1>3. QED
    BY <1>2 DEF Submitter, Binding

\* After `bind` the Thread has a submitter, and an earlier one stays.
LEMMA BoundHasSubmitter ==
  ASSUME NEW h \in HarnessState, NEW t \in Threads, NEW s \in Sessions
  PROVE  /\ HasSubmitter(AddBinding(h, t, s), t)
         /\ HasSubmitter(h, t) =>
               Submitter(AddBinding(h, t, s), t) = Submitter(h, t)
  <1> DEFINE b == [session |-> s, retry |-> 0]
  <1>1. h.bindings[t] \in Seq(Binding) /\ b \in Binding
    BY DEF HarnessState, Binding
  <1>2. CASE Bound(h, t, s)
    BY <1>1, <1>2 DEF AddBinding, Bound, HasSubmitter
  <1>3. CASE ~Bound(h, t, s)
    <2>1. AddBinding(h, t, s).bindings[t] = Append(h.bindings[t], b)
      BY <1>3 DEF AddBinding, HarnessState
    <2> HIDE DEF b
    <2>2. Append(h.bindings[t], b) # <<>>
      BY <1>1
    <2>3. h.bindings[t] # <<>> => Append(h.bindings[t], b)[1] = h.bindings[t][1]
      BY <1>1
    <2>4. QED
      BY <2>1, <2>2, <2>3 DEF HasSubmitter, Submitter
  <1>4. QED
    BY <1>2, <1>3

\* Reconciling keeps the shape and never touches a binding.
LEMMA ReconcileType ==
  ASSUME NEW h \in HarnessState, NEW t \in Threads, NEW n \in Nat
  PROVE  /\ Reconcile(h, t, n) \in HarnessState
         /\ Reconcile(h, t, n).bindings = h.bindings
  <1>1. CASE n = 0 \/ ~HasSubmitter(h, t) \/ Enqueued(h, t, Submitter(h, t), n)
    BY <1>1 DEF Reconcile
  <1>2. CASE ~(n = 0 \/ ~HasSubmitter(h, t) \/ Enqueued(h, t, Submitter(h, t), n))
    <2> DEFINE d == [session |-> Submitter(h, t), message |-> n, acked |-> FALSE]
    <2>1. d \in Delivery
      BY <1>2, SubmitterType DEF Delivery
    <2>2. Append(h.deliveries[t], d) \in Seq(Delivery)
      BY <2>1 DEF HarnessState
    <2>3. Reconcile(h, t, n) = [h EXCEPT !.deliveries[t] = Append(@, d)]
      BY <1>2 DEF Reconcile
    <2>4. QED
      BY <2>2, <2>3 DEF HarnessState
  <1>3. QED
    BY <1>1, <1>2

\* Dropping a Thread's routing keeps the shape.
LEMMA DropThreadType ==
  ASSUME NEW h \in HarnessState, NEW t \in Threads
  PROVE  DropThread(h, t) \in HarnessState
  <1> DEFINE g == [h EXCEPT !.bindings[t] = <<>>]
  <1>0. <<>> \in Seq(Binding) /\ <<>> \in Seq(Delivery)
    OBVIOUS
  <1>1. g \in HarnessState
    BY <1>0 DEF HarnessState
  <1>2. DropThread(h, t) = [g EXCEPT !.deliveries[t] = <<>>]
    BY DEF DropThread, HarnessState
  <1> HIDE DEF g
  <1>3. QED
    BY <1>0, <1>1, <1>2 DEF HarnessState

\* The two steps of a start-up keep the shape.
LEMMA StartUpType ==
  ASSUME disk \in HarnessState, thread \in [Threads -> ThreadRecord],
         NEW kept
  PROVE  WithoutOrphans(Reconciled, kept) \in HarnessState
  <1>1. ASSUME NEW t \in Threads
        PROVE  Reconcile(disk, t, thread[t].message).deliveries[t] \in Seq(Delivery)
    <2>1. thread[t].message \in Nat
      BY DEF ThreadRecord
    <2>2. Reconcile(disk, t, thread[t].message) \in HarnessState
      BY <2>1, ReconcileType
    <2>3. QED
      BY <2>2 DEF HarnessState
  <1>2. Reconciled \in HarnessState
    BY <1>1 DEF Reconciled, HarnessState
  <1>3. QED
    BY <1>2 DEF WithoutOrphans, HarnessState

-----------------------------------------------------------------------------
(* Lemmas about the ways a turn of the daemon ends *)

\* A saved mutation, a failed write and a death keep the variables' shapes.
LEMMA PersistType ==
  ASSUME TypeOK, NEW h \in HarnessState, Persist(h)
  PROVE  mem' \in HarnessState /\ disk' \in HarnessState
  BY DEF TypeOK, Persist

LEMMA PersistFailsType ==
  ASSUME TypeOK, NEW h \in HarnessState, NEW saved \in HarnessState,
         PersistFails(h, saved)
  PROVE  /\ mem' \in HarnessState
         /\ disk' \in HarnessState
         /\ faults' \in 0..MaxFaults
  BY ConstantsAssumption DEF TypeOK, PersistFails

LEMMA DieWithType ==
  ASSUME TypeOK, NEW h \in HarnessState, DieWith(h)
  PROVE  /\ up' \in BOOLEAN
         /\ mem' \in HarnessState
         /\ disk' \in HarnessState
         /\ faults' \in 0..MaxFaults
         /\ parked' \in [Threads -> SUBSET Waiters]
  <1>1. up' \in BOOLEAN /\ parked' \in [Threads -> SUBSET Waiters]
    BY Zenon DEF DieWith
  <1>2. mem' \in HarnessState /\ disk' \in HarnessState
    BY DEF DieWith
  <1>3. faults' \in 0..MaxFaults
    BY ConstantsAssumption DEF TypeOK, DieWith
  <1>4. QED
    BY <1>1, <1>2, <1>3

\* The records a Thread may be replaced by.
LEMMA UnbornType ==
  /\ Unborn \in ThreadRecord
  /\ [Unborn EXCEPT !.status = "deleted"] \in ThreadRecord
  <1>1. (CHOOSE c \in Contents : TRUE) \in Contents
    BY ConstantsAssumption
  <1>2. <<>> \in Seq(SentMessage)
    OBVIOUS
  <1>3. QED
    BY <1>1, <1>2 DEF Unborn, ThreadRecord

LEMMA SentType ==
  ASSUME TypeOK, NEW t \in Threads, NEW o \in Outcomes,
         NEW op \in Operations \cup {NoOperation}
  PROVE  Sent(t, o, op) \in ThreadRecord
  <1> DEFINE m == [outcome |-> o, content |-> thread[t].content, operation |-> op]
  <1>1. thread[t] \in ThreadRecord
    BY DEF TypeOK
  <1>2. m \in SentMessage
    BY <1>1 DEF ThreadRecord, SentMessage
  <1>3. /\ Append(thread[t].log, m) \in Seq(SentMessage)
        /\ Len(thread[t].log) + 1 \in Nat
    BY <1>1, <1>2 DEF ThreadRecord
  <1>4. (IF o = "comment" THEN "pending" ELSE "resolved")
           \in {"unborn", "pending", "resolved", "deleted"}
    OBVIOUS
  <1>5. Sent(t, o, op) = [thread[t] EXCEPT
           !.status = IF o = "comment" THEN "pending" ELSE "resolved",
           !.message = Len(thread[t].log) + 1,
           !.log = Append(@, m)]
    BY DEF Sent
  <1> HIDE DEF m
  <1>6. QED
    BY <1>1, <1>3, <1>4, <1>5 DEF ThreadRecord

-----------------------------------------------------------------------------
(* TypeOK is inductive: one lemma per group of actions, then the theorem.  *)

LEMMA TypeInit == Init => TypeOK
  <1> SUFFICES ASSUME Init PROVE TypeOK
    OBVIOUS
  <1>1. /\ up \in BOOLEAN
        /\ thread \in [Threads -> ThreadRecord]
        /\ mem \in HarnessState
        /\ disk \in HarnessState
    BY NoHarnessStateType, UnbornType DEF Init
  <1>2. parked \in [Threads -> SUBSET Waiters]
    BY DEF Init
  <1>3. /\ job \in [Sessions -> Job \cup {Idle}]
        /\ journal \in [Sessions -> SUBSET (Threads \X Nat)]
        /\ cut \in [Sessions -> Nat]
    BY DEF Init
  <1>4. /\ owed \in [Threads -> SUBSET (Sessions \X Nat)]
        /\ collected \in [Waiters -> SUBSET (Threads \X Nat)]
    BY DEF Init
  <1>5. /\ faults \in 0..MaxFaults
        /\ granted \in Seq(Grant)
    BY ConstantsAssumption DEF Init
  <1>6. injected \in [Sessions -> [Threads -> Seq(Nat)]]
    <2>1. <<>> \in Seq(Nat)
      OBVIOUS
    <2>2. QED
      BY <2>1 DEF Init
  <1>7. QED
    BY <1>1, <1>2, <1>3, <1>4, <1>5, <1>6 DEF TypeOK

LEMMA TypeCreateThread ==
  ASSUME TypeOK, NEW t \in Threads, NEW c \in Contents, CreateThread(t, c)
  PROVE  TypeOK'
  <1>1. thread' \in [Threads -> ThreadRecord]
    BY DEF TypeOK, CreateThread, ThreadRecord
  <1>2. QED
    BY <1>1 DEF TypeOK, CreateThread, adapterVars

LEMMA TypeSubmitRevision ==
  ASSUME TypeOK, NEW t \in Threads, NEW c \in Contents, SubmitRevision(t, c)
  PROVE  TypeOK'
  <1>1. thread' \in [Threads -> ThreadRecord]
    <2> DEFINE r == [thread[t] EXCEPT !.status = "pending", !.content = c,
                                      !.message = 0]
    <2>1. thread[t] \in ThreadRecord
      BY DEF TypeOK
    <2>2. r \in ThreadRecord
      BY <2>1 DEF ThreadRecord
    <2>3. thread' = [thread EXCEPT ![t] = r]
      BY DEF TypeOK, SubmitRevision
    <2> HIDE DEF r
    <2>4. QED
      BY <2>2, <2>3 DEF TypeOK
  <1>2. QED
    BY <1>1 DEF TypeOK, SubmitRevision, adapterVars

LEMMA TypeBind ==
  ASSUME TypeOK, NEW t \in Threads, NEW s \in Sessions, Bind(t, s)
  PROVE  TypeOK'
  <1> DEFINE n == thread[t].message
             bound == AddBinding(mem, t, s)
             full == Reconcile(bound, t, n)
             owes == IF n = 0 THEN owed
                     ELSE [owed EXCEPT ![t] = @ \cup {<<Submitter(bound, t), n>>}]
  <1>1. n \in Nat
    BY DEF TypeOK, ThreadRecord
  <1>2. bound \in HarnessState
    BY AddBindingType DEF TypeOK
  <1>3. full \in HarnessState
    BY <1>1, <1>2, ReconcileType
  <1>4. HasSubmitter(bound, t)
    BY BoundHasSubmitter DEF TypeOK
  <1>5. Submitter(bound, t) \in Sessions
    BY <1>2, <1>4, SubmitterType
  <1>6. owes \in [Threads -> SUBSET (Sessions \X Nat)]
    BY <1>1, <1>5 DEF TypeOK
  <1> HIDE DEF full, bound, owes, n
  <1>7. (IF bound = mem THEN disk ELSE bound) \in HarnessState
    BY <1>2 DEF TypeOK
  <1>8. /\ UNCHANGED <<thread, collected, granted>>
        /\ UNCHANGED adapterVars
    BY DEF Bind
  <1>9. \/ Persist(full) /\ owed' = owes /\ UNCHANGED <<up, parked, faults>>
        \/ PersistFails(bound, disk) /\ UNCHANGED <<up, parked, owed>>
        \/ /\ PersistFails(full, IF bound = mem THEN disk ELSE bound)
           /\ owed' = owes
           /\ UNCHANGED <<up, parked>>
        \/ DieWith(bound) /\ owed' = owes
    BY DEF Bind, full, bound, owes, n
  <1>10. CASE Persist(full) /\ owed' = owes /\ UNCHANGED <<up, parked, faults>>
    BY <1>3, <1>6, <1>8, <1>10, PersistType DEF TypeOK, adapterVars
  <1>11. CASE PersistFails(bound, disk) /\ UNCHANGED <<up, parked, owed>>
    <2>1. disk \in HarnessState
      BY DEF TypeOK
    <2>2. QED
      BY <1>2, <1>8, <1>11, <2>1, PersistFailsType DEF TypeOK, adapterVars
  <1>12. CASE /\ PersistFails(full, IF bound = mem THEN disk ELSE bound)
              /\ owed' = owes
              /\ UNCHANGED <<up, parked>>
    BY <1>3, <1>6, <1>7, <1>8, <1>12, PersistFailsType DEF TypeOK, adapterVars
  <1>13. CASE DieWith(bound) /\ owed' = owes
    BY <1>2, <1>6, <1>8, <1>13, DieWithType DEF TypeOK, adapterVars
  <1>14. QED
    BY <1>9, <1>10, <1>11, <1>12, <1>13

LEMMA TypeSendMessage ==
  ASSUME TypeOK, NEW t \in Threads, NEW o \in Outcomes,
         NEW op \in Operations \cup {NoOperation}, SendMessage(t, o, op)
  PROVE  TypeOK'
  <1> DEFINE n == Len(thread[t].log) + 1
             full == Reconcile(mem, t, n)
  <1>1. n \in Nat
    BY DEF TypeOK, ThreadRecord
  <1>2. full \in HarnessState /\ disk \in HarnessState
    BY <1>1, ReconcileType DEF TypeOK
  <1>3. thread' \in [Threads -> ThreadRecord]
    BY SentType DEF TypeOK, SendMessage
  <1>4. owed' \in [Threads -> SUBSET (Sessions \X Nat)]
    <2>1. CASE HasSubmitter(mem, t)
      <3>1. Submitter(mem, t) \in Sessions
        BY <2>1, SubmitterType DEF TypeOK
      <3>2. owed' = [owed EXCEPT ![t] = @ \cup {<<Submitter(mem, t), n>>}]
        BY <2>1 DEF SendMessage
      <3>3. QED
        BY <1>1, <3>1, <3>2 DEF TypeOK
    <2>2. CASE ~HasSubmitter(mem, t)
      BY <2>2 DEF TypeOK, SendMessage
    <2>3. QED
      BY <2>1, <2>2
  <1>5. Release(t, n) => /\ parked' \in [Threads -> SUBSET Waiters]
                         /\ collected' \in [Waiters -> SUBSET (Threads \X Nat)]
    BY <1>1 DEF TypeOK, Release
  <1>6. \/ /\ Persist(full)
           /\ UNCHANGED <<parked, collected>> \/ Release(t, n)
           /\ UNCHANGED <<up, faults>>
        \/ PersistFails(full, disk) /\ UNCHANGED <<up, parked, collected>>
        \/ DieWith(disk) /\ UNCHANGED collected
    BY DEF SendMessage
  <1>7. UNCHANGED granted /\ UNCHANGED adapterVars
    BY DEF SendMessage
  <1> HIDE DEF full, n
  <1>8. CASE /\ Persist(full)
             /\ UNCHANGED <<parked, collected>> \/ Release(t, n)
             /\ UNCHANGED <<up, faults>>
    BY <1>2, <1>3, <1>4, <1>5, <1>7, <1>8, PersistType DEF TypeOK, adapterVars
  <1>9. CASE PersistFails(full, disk) /\ UNCHANGED <<up, parked, collected>>
    BY <1>2, <1>3, <1>4, <1>7, <1>9, PersistFailsType DEF TypeOK, adapterVars
  <1>10. CASE DieWith(disk) /\ UNCHANGED collected
    BY <1>2, <1>3, <1>4, <1>7, <1>10, DieWithType DEF TypeOK, adapterVars
  <1>11. QED
    BY <1>6, <1>8, <1>9, <1>10

LEMMA TypeDeleteThread ==
  ASSUME TypeOK, NEW t \in Threads, DeleteThread(t)
  PROVE  TypeOK'
  <1>1. thread' \in [Threads -> ThreadRecord]
    BY UnbornType DEF TypeOK, DeleteThread
  <1>2. DropThread(mem, t) \in HarnessState /\ disk \in HarnessState
    BY DropThreadType DEF TypeOK
  <1>3. UNCHANGED <<owed, collected, granted>> /\ UNCHANGED adapterVars
    BY DEF DeleteThread
  <1>4. CASE /\ Persist(DropThread(mem, t))
             /\ parked' = [parked EXCEPT ![t] = {}]
             /\ UNCHANGED <<up, faults>>
    <2>1. parked' \in [Threads -> SUBSET Waiters]
      BY <1>4 DEF TypeOK
    <2>2. QED
      BY <1>1, <1>2, <1>3, <1>4, <2>1, PersistType DEF TypeOK, adapterVars
  <1>5. CASE PersistFails(DropThread(mem, t), disk) /\ UNCHANGED <<up, parked>>
    BY <1>1, <1>2, <1>3, <1>5, PersistFailsType DEF TypeOK, adapterVars
  <1>6. CASE DieWith(disk)
    BY <1>1, <1>2, <1>3, <1>6, DieWithType DEF TypeOK, adapterVars
  <1>7. QED
    BY <1>4, <1>5, <1>6 DEF DeleteThread

LEMMA TypeConsumeApprovedRetry ==
  ASSUME TypeOK, NEW t \in Threads, NEW s \in Sessions, NEW n \in MessageIds,
         NEW c \in Contents, ConsumeApprovedRetry(t, s, n, c)
  PROVE  TypeOK'
  <1> DEFINE used == [mem EXCEPT !.bindings[t][1].retry = n]
             g == [thread |-> t, session |-> s, message |-> n, content |-> c]
  <1>1. n \in Nat
    BY ConstantsAssumption DEF MessageIds
  <1>2. used \in HarnessState
    <2>1. /\ mem.bindings[t] \in Seq(Binding)
          /\ mem.bindings[t] # <<>>
      BY DEF TypeOK, HarnessState, ConsumeApprovedRetry, HasSubmitter
    <2>2. [mem.bindings[t][1] EXCEPT !.retry = n] \in Binding
      <3>1. mem.bindings[t][1] \in Binding
        BY <2>1
      <3>2. QED
        BY <1>1, <3>1 DEF Binding
    <2>3. [mem.bindings[t] EXCEPT ![1] = [mem.bindings[t][1] EXCEPT !.retry = n]]
            \in Seq(Binding)
      BY <2>1, <2>2
    <2>4. used = [mem EXCEPT !.bindings[t] =
                    [mem.bindings[t] EXCEPT ![1] =
                       [mem.bindings[t][1] EXCEPT !.retry = n]]]
      BY DEF TypeOK, HarnessState
    <2> HIDE DEF used
    <2>5. QED
      BY <2>3, <2>4 DEF TypeOK, HarnessState
  <1>3. Append(granted, g) \in Seq(Grant)
    BY <1>1 DEF TypeOK, Grant
  <1>4. UNCHANGED <<up, thread, parked, owed, collected>> /\ UNCHANGED adapterVars
    BY DEF ConsumeApprovedRetry
  <1>5. \/ Persist(used) /\ granted' = Append(granted, g) /\ UNCHANGED faults
        \/ PersistFails(used, disk) /\ UNCHANGED granted
    BY DEF ConsumeApprovedRetry
  <1>6. disk \in HarnessState
    BY DEF TypeOK
  <1> HIDE DEF used, g
  <1>7. CASE Persist(used) /\ granted' = Append(granted, g) /\ UNCHANGED faults
    BY <1>2, <1>3, <1>4, <1>7, PersistType DEF TypeOK, adapterVars
  <1>8. CASE PersistFails(used, disk) /\ UNCHANGED granted
    BY <1>2, <1>4, <1>6, <1>8, PersistFailsType DEF TypeOK, adapterVars
  <1>9. QED
    BY <1>5, <1>7, <1>8

LEMMA TypeWaiting ==
  ASSUME TypeOK, NEW t \in Threads, NEW w \in Waiters,
         Wait(w, t) \/ WaitTimesOut(w, t)
  PROVE  TypeOK'
  <1>1. /\ parked' \in [Threads -> SUBSET Waiters]
        /\ collected' \in [Waiters -> SUBSET (Threads \X Nat)]
    <2>1. thread[t].message \in Nat
      BY DEF TypeOK, ThreadRecord
    <2>2. \/ UNCHANGED collected
          \/ collected' = [collected EXCEPT ![w] = @ \cup {<<t, thread[t].message>>}]
      BY DEF Wait, WaitTimesOut
    <2>3. collected' \in [Waiters -> SUBSET (Threads \X Nat)]
      <3>1. collected \in [Waiters -> SUBSET (Threads \X Nat)]
        BY DEF TypeOK
      <3>2. <<t, thread[t].message>> \in Threads \X Nat
        BY <2>1
      <3>3. collected[w] \cup {<<t, thread[t].message>>} \in SUBSET (Threads \X Nat)
        BY <3>1, <3>2
      <3>4. QED
        BY <2>2, <3>1, <3>3
    <2>4. \/ UNCHANGED parked
          \/ parked' = [parked EXCEPT ![t] = @ \cup {w}]
          \/ parked' = [parked EXCEPT ![t] = @ \ {w}]
      BY DEF Wait, WaitTimesOut
    <2>5. parked' \in [Threads -> SUBSET Waiters]
      BY <2>4 DEF TypeOK
    <2>6. QED
      BY <2>3, <2>5
  <1>2. QED
    BY <1>1 DEF TypeOK, Wait, WaitTimesOut, adapterVars

LEMMA TypeCrashAndStart ==
  ASSUME TypeOK, Crash \/ Start
  PROVE  TypeOK'
  <1>1. CASE Crash
    <2>1. disk \in HarnessState
      BY DEF TypeOK
    <2>2. QED
      BY <1>1, <2>1, DieWithType DEF TypeOK, Crash, adapterVars
  <1>2. CASE Start
    <2>1. PICK expired \in SUBSET Prunable :
            LET kept  == {t \in Threads : Exists(t)} \ expired
                state == WithoutOrphans(Reconciled, kept)
            IN  /\ thread' = [t \in Threads |->
                       IF t \in expired THEN [Unborn EXCEPT !.status = "deleted"]
                       ELSE thread[t]]
                /\ mem' = state
                /\ disk' = state
      BY <1>2 DEF Start
    <2>2. thread' \in [Threads -> ThreadRecord]
      BY <2>1, UnbornType DEF TypeOK
    <2>3. mem' \in HarnessState /\ disk' \in HarnessState
      BY <2>1, StartUpType DEF TypeOK
    <2>4. QED
      BY <1>2, <2>2, <2>3 DEF TypeOK, Start, adapterVars
  <1>3. QED
    BY <1>1, <1>2

\* A nonempty set of naturals has a smallest element.
LEMMA SmallestExists ==
  ASSUME NEW T \in SUBSET Nat, T # {}
  PROVE  \E x \in T : \A y \in T : x <= y
  <1> DEFINE R == OpToRel(<, Nat)
  <1>1. \A x, y \in Nat : ~ (<<y, x>> \in R) => x <= y
    BY DEF OpToRel
  <1>2. IsWellFoundedOn(R, Nat)
    BY NatLessThanWellFounded
  <1> HIDE DEF R
  <1>3. PICK x \in T : \A y \in T : ~ (<<y, x>> \in R)
    BY <1>2, WFMin
  <1>4. \A y \in T : x <= y
    BY <1>1, <1>3
  <1>5. QED
    BY <1>4

\* A pass that is under way always has a next delivery to work on.
LEMMA ForemostType ==
  ASSUME TypeOK, NEW s \in Sessions, Busy(s)
  PROVE  /\ job[s] \in Job
         /\ Foremost(s) \in job[s].todo
         /\ Foremost(s) \in [place : Nat, message : Nat]
         /\ \A e \in job[s].todo : Foremost(s).place <= e.place
  <1>1. job[s] \in Job
    <2>1. job[s] \in Job \cup {Idle}
      BY DEF TypeOK
    <2>2. QED
      BY <2>1 DEF Busy, Idle
  <1>2. job[s].todo \in SUBSET [place : Nat, message : Nat] /\ job[s].todo # {}
    BY <1>1 DEF Job
  <1> DEFINE places == {d.place : d \in job[s].todo}
  <1>3. places \in SUBSET Nat /\ places # {}
    BY <1>2
  <1>4. PICK x \in places : \A y \in places : x <= y
    BY <1>3, SmallestExists
  <1>5. PICK d \in job[s].todo : \A e \in job[s].todo : d.place <= e.place
    BY <1>4
  <1>6. /\ Foremost(s) \in job[s].todo
        /\ \A e \in job[s].todo : Foremost(s).place <= e.place
    BY <1>5 DEF Foremost
  <1>7. QED
    BY <1>1, <1>2, <1>6

\* Moving on to the next delivery, or ending the pass, keeps the shape.
LEMMA AdvanceType ==
  ASSUME TypeOK, NEW s \in Sessions, Busy(s), Advance(s)
  PROVE  job' \in [Sessions -> Job \cup {Idle}]
  <1> DEFINE left == job[s].todo \ {Foremost(s)}
             next == [job[s] EXCEPT !.todo = left, !.step = "send"]
  <1>1. job[s] \in Job
    BY ForemostType
  <1>2. left # {} => next \in Job
    BY <1>1 DEF Job
  <1>3. job' = [job EXCEPT ![s] = IF left = {} THEN Idle ELSE next]
    BY DEF Advance, TypeOK
  <1> HIDE DEF left, next
  <1>4. QED
    BY <1>2, <1>3 DEF TypeOK

LEMMA TypeFetch ==
  ASSUME TypeOK, NEW t \in Threads, NEW s \in Sessions, Fetch(s, t)
  PROVE  TypeOK'
  <1> DEFINE places == PendingPlaces(mem, t, s)
             todo == {[place |-> i, message |-> mem.deliveries[t][i].message] :
                         i \in places}
             pass == [thread |-> t, step |-> "send", todo |-> todo]
  <1>1. \A i \in places : /\ i \in Nat
                          /\ mem.deliveries[t][i].message \in Nat
    <2>1. mem.deliveries[t] \in Seq(Delivery)
      BY DEF TypeOK, HarnessState
    <2>2. \A i \in places : i \in DOMAIN mem.deliveries[t]
      BY DEF PendingPlaces
    <2>3. \A i \in places : i \in Nat /\ mem.deliveries[t][i] \in Delivery
      BY <2>1, <2>2
    <2>4. QED
      BY <2>3 DEF Delivery
  <1>2. places # {} /\ job' = [job EXCEPT ![s] = pass]
    BY DEF Fetch
  <1> HIDE DEF places
  <1>3. todo \in (SUBSET [place : Nat, message : Nat]) \ {{}}
    <2> DEFINE d(i) == [place |-> i, message |-> mem.deliveries[t][i].message]
    <2>1. \A i \in places : d(i) \in [place : Nat, message : Nat]
      BY <1>1
    <2>2. todo = {d(i) : i \in places}
      OBVIOUS
    <2> HIDE DEF todo, d
    <2>3. todo # {} /\ \A e \in todo : e \in [place : Nat, message : Nat]
      BY <1>2, <2>1, <2>2
    <2>4. QED
      BY <2>3
  <1> HIDE DEF todo
  <1>4. pass \in Job
    BY <1>3 DEF Job
  <1> HIDE DEF pass
  <1>5. job' \in [Sessions -> Job \cup {Idle}]
    BY <1>2, <1>4 DEF TypeOK
  <1>6. QED
    BY <1>5 DEF TypeOK, Fetch, daemonVars

LEMMA TypeInject ==
  ASSUME TypeOK, NEW s \in Sessions, Inject(s)
  PROVE  TypeOK'
  <1>1. Busy(s)
    BY DEF Inject, Busy
  <1>2. /\ job[s] \in Job
        /\ Foremost(s).message \in Nat
    BY <1>1, ForemostType
  <1>3. job[s].thread \in Threads
    BY <1>2 DEF Job
  <1>4. job' \in [Sessions -> Job \cup {Idle}]
    <2>1. \/ job' = [job EXCEPT ![s].step = "ack"]
          \/ job' = [job EXCEPT ![s].step = "record"]
      BY DEF Inject
    <2>2. /\ [job[s] EXCEPT !.step = "ack"] \in Job
          /\ [job[s] EXCEPT !.step = "record"] \in Job
      BY <1>2 DEF Job
    <2>3. QED
      BY <2>1, <2>2 DEF TypeOK
  <1>5. injected' \in [Sessions -> [Threads -> Seq(Nat)]]
    <2>1. injected \in [Sessions -> [Threads -> Seq(Nat)]]
      BY DEF TypeOK
    <2>2. Append(injected[s][job[s].thread], Foremost(s).message) \in Seq(Nat)
      BY <1>2, <1>3, <2>1
    <2> DEFINE more == [injected[s] EXCEPT ![job[s].thread] =
                           Append(@, Foremost(s).message)]
    <2>3. more \in [Threads -> Seq(Nat)]
      BY <2>1, <2>2
    <2>4. \/ UNCHANGED injected
          \/ injected' = [injected EXCEPT ![s] = more]
      BY <2>1 DEF Inject
    <2> HIDE DEF more
    <2>5. QED
      BY <2>1, <2>3, <2>4
  <1>6. QED
    BY <1>4, <1>5 DEF TypeOK, Inject, daemonVars

LEMMA TypeRecord ==
  ASSUME TypeOK, NEW s \in Sessions, Record(s)
  PROVE  TypeOK'
  <1>1. Busy(s)
    BY DEF Record, Busy
  <1>2. job[s] \in Job /\ Foremost(s).message \in Nat
    BY <1>1, ForemostType
  <1>3. job' \in [Sessions -> Job \cup {Idle}]
    <2>1. [job[s] EXCEPT !.step = "ack"] \in Job
      BY <1>2 DEF Job
    <2>2. QED
      BY <2>1 DEF TypeOK, Record
  <1>4. journal' \in [Sessions -> SUBSET (Threads \X Nat)]
    <2>1. <<job[s].thread, Foremost(s).message>> \in Threads \X Nat
      BY <1>2 DEF Job
    <2>2. QED
      BY <2>1 DEF TypeOK, Record
  <1>5. QED
    BY <1>3, <1>4 DEF TypeOK, Record, daemonVars

\* Marking a delivery as acknowledged keeps the shape.
LEMMA AckedType ==
  ASSUME NEW h \in HarnessState, NEW t \in Threads,
         NEW i \in DOMAIN h.deliveries[t]
  PROVE  [h EXCEPT !.deliveries[t][i].acked = TRUE] \in HarnessState
  <1> DEFINE ds == h.deliveries[t]
             d  == [ds[i] EXCEPT !.acked = TRUE]
             g  == [h EXCEPT !.deliveries[t][i].acked = TRUE]
  <1>1. ds \in Seq(Delivery)
    BY DEF HarnessState
  <1>2. ds[i] \in Delivery
    BY <1>1
  <1>3. d \in Delivery
    BY <1>2 DEF Delivery
  <1>4. [ds EXCEPT ![i] = d] \in Seq(Delivery)
    BY <1>1, <1>3
  <1>5. g = [h EXCEPT !.deliveries[t] = [ds EXCEPT ![i] = d]]
    BY DEF HarnessState
  <1> HIDE DEF g, d
  <1>6. QED
    BY <1>4, <1>5 DEF HarnessState, g

LEMMA TypeAcknowledge ==
  ASSUME TypeOK, NEW s \in Sessions, Acknowledge(s)
  PROVE  TypeOK'
  <1> DEFINE t == job[s].thread
             d == Foremost(s)
             known == /\ d.place \in DOMAIN mem.deliveries[t]
                      /\ mem.deliveries[t][d.place].session = s
                      /\ mem.deliveries[t][d.place].message = d.message
             done == [mem EXCEPT !.deliveries[t][d.place].acked = TRUE]
  <1>1. Busy(s)
    BY DEF Acknowledge, Busy
  <1>2. t \in Threads
    BY <1>1, ForemostType DEF Job
  <1>3. known => done \in HarnessState
    BY <1>2, AckedType DEF TypeOK
  <1>4. \/ known /\ Persist(done) /\ Advance(s) /\ UNCHANGED faults
        \/ known /\ PersistFails(done, disk) /\ job' = [job EXCEPT ![s] = Idle]
        \/ job' = [job EXCEPT ![s] = Idle] /\ UNCHANGED <<mem, disk, faults>>
    BY DEF Acknowledge
  <1>5. UNCHANGED <<up, thread, parked, journal, injected, cut, owed, collected, granted>>
    BY DEF Acknowledge
  <1>6. [job EXCEPT ![s] = Idle] \in [Sessions -> Job \cup {Idle}]
    BY DEF TypeOK
  <1> HIDE DEF known, done, d, t
  <1>7. CASE known /\ Persist(done) /\ Advance(s) /\ UNCHANGED faults
    BY <1>1, <1>3, <1>5, <1>7, PersistType, AdvanceType DEF TypeOK
  <1>8. CASE known /\ PersistFails(done, disk) /\ job' = [job EXCEPT ![s] = Idle]
    <2>1. disk \in HarnessState
      BY DEF TypeOK
    <2>2. QED
      BY <1>3, <1>5, <1>6, <1>8, <2>1, PersistFailsType DEF TypeOK
  <1>9. CASE job' = [job EXCEPT ![s] = Idle] /\ UNCHANGED <<mem, disk, faults>>
    BY <1>5, <1>6, <1>9 DEF TypeOK
  <1>10. QED
    BY <1>4, <1>7, <1>8, <1>9

LEMMA TypeAdapterStops ==
  ASSUME TypeOK, NEW s \in Sessions, AdapterStops(s)
  PROVE  TypeOK'
  <1>1. job' \in [Sessions -> Job \cup {Idle}]
    BY DEF TypeOK, AdapterStops
  <1>2. cut' \in [Sessions -> Nat]
    BY DEF TypeOK, AdapterStops
  <1>3. faults' \in 0..MaxFaults
    BY ConstantsAssumption DEF TypeOK, AdapterStops
  <1>4. QED
    BY <1>1, <1>2, <1>3 DEF TypeOK, AdapterStops, daemonVars

LEMMA TypeNext == TypeOK /\ [Next]_vars => TypeOK'
  <1> SUFFICES ASSUME TypeOK, [Next]_vars PROVE TypeOK'
    OBVIOUS
  <1>1. CASE UNCHANGED vars
    BY <1>1 DEF TypeOK, vars
  <1>2. ASSUME NEW t \in Threads, NEW c \in Contents,
               CreateThread(t, c) \/ SubmitRevision(t, c)
        PROVE  TypeOK'
    BY <1>2, TypeCreateThread, TypeSubmitRevision
  <1>3. ASSUME NEW t \in Threads, NEW s \in Sessions, Bind(t, s) \/ Fetch(s, t)
        PROVE  TypeOK'
    BY <1>3, TypeBind, TypeFetch
  <1>4. ASSUME NEW t \in Threads, NEW o \in Outcomes,
               NEW op \in Operations \cup {NoOperation}, SendMessage(t, o, op)
        PROVE  TypeOK'
    BY <1>4, TypeSendMessage
  <1>5. ASSUME NEW t \in Threads, DeleteThread(t)
        PROVE  TypeOK'
    BY <1>5, TypeDeleteThread
  <1>6. ASSUME NEW t \in Threads, NEW s \in Sessions, NEW n \in MessageIds,
               NEW c \in Contents, ConsumeApprovedRetry(t, s, n, c)
        PROVE  TypeOK'
    BY <1>6, TypeConsumeApprovedRetry
  <1>7. ASSUME NEW t \in Threads, NEW w \in Waiters, Wait(w, t) \/ WaitTimesOut(w, t)
        PROVE  TypeOK'
    BY <1>7, TypeWaiting
  <1>8. ASSUME Crash \/ Start
        PROVE  TypeOK'
    BY <1>8, TypeCrashAndStart
  <1>9. ASSUME NEW s \in Sessions,
               Inject(s) \/ Record(s) \/ Acknowledge(s) \/ AdapterStops(s)
        PROVE  TypeOK'
    BY <1>9, TypeInject, TypeRecord, TypeAcknowledge, TypeAdapterStops
  <1>10. QED
    BY <1>1, <1>2, <1>3, <1>4, <1>5, <1>6, <1>7, <1>8, <1>9 DEF Next

(* Type correctness of the whole delivery path: every variable keeps the   *)
(* shape that api.ts, harness-state-store.ts and the adapters' journal     *)
(* give it, for any number of Threads, sessions, Messages and faults.      *)
THEOREM TypeCorrect == Spec => []TypeOK
  <1>1. Init => TypeOK
    BY TypeInit
  <1>2. TypeOK /\ [Next]_vars => TypeOK'
    BY TypeNext
  <1>3. QED
    BY <1>1, <1>2, PTL DEF Spec

-----------------------------------------------------------------------------
(* Acknowledgement never runs ahead of injection.  The invariant does not  *)
(* carry itself: that an acknowledgement finds its Message in the journal  *)
(* rests on where the pass stands, and that the journal's Messages were    *)
(* injected rests on the step before it.                                   *)

\* Every acknowledged delivery of `h` is in its session's journal `j`.
Honest(h, j) ==
    \A t \in Threads : \A i \in DOMAIN h.deliveries[t] :
        h.deliveries[t][i].acked =>
            <<t, h.deliveries[t][i].message>> \in j[h.deliveries[t][i].session]

WasInjected(s, t, n) == \E k \in DOMAIN injected[s][t] : injected[s][t][k] = n

JournalledWasInjected ==
    \A s \in Sessions, t \in Threads, n \in Nat :
        <<t, n>> \in journal[s] => WasInjected(s, t, n)

\* A pass that is to record has injected; one that is to acknowledge has recorded.
PassOf(s) ==
    /\ job[s].step = "record" => WasInjected(s, job[s].thread, Foremost(s).message)
    /\ job[s].step = "ack" => <<job[s].thread, Foremost(s).message>> \in journal[s]

PassIsHonest == \A s \in Sessions : PassOf(s)

AckInv ==
    /\ TypeOK
    /\ Honest(mem, journal)
    /\ Honest(disk, journal)
    /\ JournalledWasInjected
    /\ PassIsHonest

\* The strengthened invariant says what the property says.
LEMMA AckInvSuffices == AckInv => AcknowledgedWasInjected
  <1> SUFFICES ASSUME AckInv,
                      NEW h \in {mem, disk}, NEW t \in Threads,
                      NEW i \in DOMAIN h.deliveries[t], h.deliveries[t][i].acked
               PROVE  LET s == h.deliveries[t][i].session
                          n == h.deliveries[t][i].message
                      IN  /\ <<t, n>> \in journal[s]
                          /\ \E k \in DOMAIN injected[s][t] : injected[s][t][k] = n
    BY DEF AcknowledgedWasInjected
  <1>1. h \in HarnessState /\ Honest(h, journal)
    BY DEF AckInv, TypeOK
  <1>2. h.deliveries[t][i] \in Delivery
    <2>1. h.deliveries[t] \in Seq(Delivery)
      BY <1>1 DEF HarnessState
    <2>2. QED
      BY <2>1
  <1>3. <<t, h.deliveries[t][i].message>> \in journal[h.deliveries[t][i].session]
    BY <1>1 DEF Honest
  <1>4. QED
    BY <1>2, <1>3 DEF AckInv, JournalledWasInjected, WasInjected, Delivery

\* What changes no acknowledged delivery keeps a state honest.
LEMMA AddBindingHonest ==
  ASSUME NEW h \in HarnessState, NEW j, NEW t \in Threads, NEW s \in Sessions,
         Honest(h, j)
  PROVE  Honest(AddBinding(h, t, s), j)
  BY DEF Honest, AddBinding, HarnessState

LEMMA ReconcileHonest ==
  ASSUME NEW h \in HarnessState, NEW j, NEW t \in Threads, NEW n \in Nat,
         Honest(h, j)
  PROVE  Honest(Reconcile(h, t, n), j)
  <1> DEFINE d == [session |-> Submitter(h, t), message |-> n, acked |-> FALSE]
             g == Reconcile(h, t, n)
  <1>1. CASE g = h
    BY <1>1
  <1>2. CASE g # h
    <2>1. HasSubmitter(h, t)
      BY <1>2 DEF Reconcile
    <2>2. d \in Delivery
      BY <2>1, SubmitterType DEF Delivery
    <2>3. g = [h EXCEPT !.deliveries[t] = Append(@, d)]
      BY <1>2 DEF Reconcile
    <2>4. /\ g.deliveries[t] = Append(h.deliveries[t], d)
          /\ \A u \in Threads : u # t => g.deliveries[u] = h.deliveries[u]
      BY <2>3 DEF HarnessState
    <2>5. h.deliveries[t] \in Seq(Delivery)
      BY DEF HarnessState
    <2>6. ~ d.acked
      OBVIOUS
    <2> HIDE DEF d, g
    <2>7. ASSUME NEW i \in DOMAIN g.deliveries[t], g.deliveries[t][i].acked
          PROVE  /\ i \in DOMAIN h.deliveries[t]
                 /\ g.deliveries[t][i] = h.deliveries[t][i]
      BY <2>2, <2>4, <2>5, <2>6, <2>7
    <2>8. QED
      BY <2>4, <2>7 DEF Honest, g
  <1>3. QED
    BY <1>1, <1>2

LEMMA DropThreadHonest ==
  ASSUME NEW h \in HarnessState, NEW j, NEW t \in Threads, Honest(h, j)
  PROVE  Honest(DropThread(h, t), j)
  <1>1. /\ DropThread(h, t).deliveries[t] = <<>>
        /\ \A u \in Threads : u # t =>
              DropThread(h, t).deliveries[u] = h.deliveries[u]
    BY DEF DropThread, HarnessState
  <1>2. QED
    BY <1>1 DEF Honest

LEMMA StartUpHonest ==
  ASSUME TypeOK, Honest(disk, journal), NEW kept
  PROVE  Honest(WithoutOrphans(Reconciled, kept), journal)
  <1> DEFINE g == WithoutOrphans(Reconciled, kept)
             r(t) == Reconcile(disk, t, thread[t].message)
  <1>1. ASSUME NEW t \in Threads
        PROVE  /\ Honest(r(t), journal)
               /\ g.deliveries[t] \in {<<>>, disk.deliveries[t], r(t).deliveries[t]}
    <2>1. thread[t].message \in Nat /\ disk \in HarnessState
      BY DEF TypeOK, ThreadRecord
    <2>2. Honest(r(t), journal)
      BY <2>1, ReconcileHonest
    <2>3. g.deliveries[t] \in {<<>>, disk.deliveries[t], r(t).deliveries[t]}
      BY DEF WithoutOrphans, Reconciled
    <2>4. QED
      BY <2>2, <2>3
  <1> HIDE DEF g, r
  <1>2. QED
    BY <1>1 DEF Honest, g

\* A turn that ends with honest states, saved or not, leaves honest states.
LEMMA DaemonTurnHonest ==
  ASSUME AckInv, TypeOK', UNCHANGED adapterVars,
         Honest(mem', journal), Honest(disk', journal)
  PROVE  AckInv'
  <1>1. JournalledWasInjected'
    BY DEF AckInv, JournalledWasInjected, WasInjected, adapterVars
  <1>2. PassIsHonest'
    BY DEF AckInv, PassIsHonest, PassOf, Foremost, WasInjected, adapterVars
  <1>3. Honest(mem, journal)' /\ Honest(disk, journal)'
    BY DEF adapterVars, Honest
  <1>4. QED
    BY <1>1, <1>2, <1>3 DEF AckInv

LEMMA AckInit == Init => AckInv
  <1> SUFFICES ASSUME Init PROVE AckInv
    OBVIOUS
  <1>1. Honest(mem, journal) /\ Honest(disk, journal)
    BY DEF Init, NoHarnessState, Honest
  <1>2. JournalledWasInjected
    BY DEF Init, JournalledWasInjected
  <1>3. PassIsHonest
    BY DEF Init, PassIsHonest, PassOf, Idle
  <1>4. QED
    BY <1>1, <1>2, <1>3, TypeInit DEF AckInv

LEMMA AckPersist ==
  ASSUME AckInv, TypeOK', UNCHANGED adapterVars, NEW h, Honest(h, journal),
         Persist(h)
  PROVE  AckInv'
  <1>1. mem' = h /\ disk' \in {disk, h}
    BY DEF Persist
  <1>2. QED
    BY <1>1, DaemonTurnHonest DEF AckInv

LEMMA AckPersistFails ==
  ASSUME AckInv, TypeOK', UNCHANGED adapterVars, NEW h, NEW saved,
         Honest(h, journal), Honest(saved, journal), PersistFails(h, saved)
  PROVE  AckInv'
  BY DaemonTurnHonest DEF PersistFails

LEMMA AckDieWith ==
  ASSUME AckInv, TypeOK', UNCHANGED adapterVars, NEW h, Honest(h, journal),
         DieWith(h)
  PROVE  AckInv'
  BY DaemonTurnHonest DEF DieWith

LEMMA AckBind ==
  ASSUME AckInv, TypeOK', NEW t \in Threads, NEW s \in Sessions, Bind(t, s)
  PROVE  AckInv'
  <1> DEFINE n == thread[t].message
             bound == AddBinding(mem, t, s)
             full == Reconcile(bound, t, n)
             saved == IF bound = mem THEN disk ELSE bound
  <1>1. n \in Nat /\ mem \in HarnessState
    BY DEF AckInv, TypeOK, ThreadRecord
  <1>2. bound \in HarnessState /\ Honest(bound, journal)
    BY <1>1, AddBindingType, AddBindingHonest DEF AckInv
  <1>3. Honest(full, journal)
    BY <1>1, <1>2, ReconcileHonest
  <1>4. Honest(disk, journal) /\ Honest(saved, journal)
    BY <1>2 DEF AckInv
  <1>5. \/ Persist(full)
        \/ PersistFails(bound, disk)
        \/ PersistFails(full, saved)
        \/ DieWith(bound)
    BY DEF Bind
  <1>6. UNCHANGED adapterVars
    BY DEF Bind
  <1> HIDE DEF full, bound, saved, n
  <1>7. QED
    BY <1>2, <1>3, <1>4, <1>5, <1>6, AckPersist, AckPersistFails, AckDieWith

LEMMA AckSendMessage ==
  ASSUME AckInv, TypeOK', NEW t \in Threads, NEW o \in Outcomes,
         NEW op \in Operations \cup {NoOperation}, SendMessage(t, o, op)
  PROVE  AckInv'
  <1> DEFINE n == Len(thread[t].log) + 1
             full == Reconcile(mem, t, n)
  <1>1. n \in Nat /\ mem \in HarnessState
    BY DEF AckInv, TypeOK, ThreadRecord
  <1>2. Honest(full, journal) /\ Honest(disk, journal)
    BY <1>1, ReconcileHonest DEF AckInv
  <1>3. Persist(full) \/ PersistFails(full, disk) \/ DieWith(disk)
    BY DEF SendMessage
  <1>4. UNCHANGED adapterVars
    BY DEF SendMessage
  <1> HIDE DEF full, n
  <1>5. QED
    BY <1>2, <1>3, <1>4, AckPersist, AckPersistFails, AckDieWith

LEMMA AckDeleteThread ==
  ASSUME AckInv, TypeOK', NEW t \in Threads, DeleteThread(t)
  PROVE  AckInv'
  <1> DEFINE g == DropThread(mem, t)
  <1>1. Honest(g, journal) /\ Honest(disk, journal)
    BY DropThreadHonest DEF AckInv, TypeOK
  <1>2. Persist(g) \/ PersistFails(g, disk) \/ DieWith(disk)
    BY DEF DeleteThread
  <1>3. UNCHANGED adapterVars
    BY DEF DeleteThread
  <1> HIDE DEF g
  <1>4. QED
    BY <1>1, <1>2, <1>3, AckPersist, AckPersistFails, AckDieWith

LEMMA AckConsumeApprovedRetry ==
  ASSUME AckInv, TypeOK', NEW t \in Threads, NEW s \in Sessions,
         NEW n \in MessageIds, NEW c \in Contents, ConsumeApprovedRetry(t, s, n, c)
  PROVE  AckInv'
  <1> DEFINE used == [mem EXCEPT !.bindings[t][1].retry = n]
  <1>1. used.deliveries = mem.deliveries
    BY DEF AckInv, TypeOK, HarnessState
  <1>2. Honest(used, journal) /\ Honest(disk, journal)
    BY <1>1 DEF AckInv, Honest
  <1>3. Persist(used) \/ PersistFails(used, disk)
    BY DEF ConsumeApprovedRetry
  <1>4. UNCHANGED adapterVars
    BY DEF ConsumeApprovedRetry
  <1> HIDE DEF used
  <1>5. QED
    BY <1>2, <1>3, <1>4, AckPersist, AckPersistFails

LEMMA AckCrashAndStart ==
  ASSUME AckInv, TypeOK', Crash \/ Start
  PROVE  AckInv'
  <1>1. UNCHANGED adapterVars
    BY DEF Crash, Start
  <1>2. CASE Crash
    BY <1>1, <1>2, AckDieWith DEF AckInv, Crash
  <1>3. CASE Start
    <2>1. PICK kept : /\ mem' = WithoutOrphans(Reconciled, kept)
                      /\ disk' = WithoutOrphans(Reconciled, kept)
      BY <1>3 DEF Start
    <2>2. Honest(mem', journal) /\ Honest(disk', journal)
      BY <2>1, StartUpHonest DEF AckInv
    <2>3. QED
      BY <1>1, <2>2, DaemonTurnHonest
  <1>4. QED
    BY <1>2, <1>3

\* Steps of one adapter leave the passes of the others alone.
LEMMA OtherPassesHonest ==
  ASSUME AckInv, NEW s \in Sessions,
         \A r \in Sessions : r # s => job'[r] = job[r],
         \A r \in Sessions, t \in Threads, n \in Nat :
            WasInjected(r, t, n) => WasInjected(r, t, n)',
         \A r \in Sessions : journal[r] \subseteq journal'[r],
         PassOf(s)'
  PROVE  PassIsHonest'
  <1> SUFFICES ASSUME NEW r \in Sessions, r # s PROVE PassOf(r)'
    BY DEF PassIsHonest
  <1>1. job'[r] = job[r]
    OBVIOUS
  <1>2. job[r].step # "idle" => /\ job[r].thread \in Threads
                                /\ Foremost(r).message \in Nat
    BY ForemostType DEF AckInv, Busy, Job
  <1>3. PassOf(r)
    BY DEF AckInv, PassIsHonest
  <1>4. QED
    BY <1>1, <1>2, <1>3 DEF PassOf, Foremost

\* A step that injects nothing and records nothing keeps those histories.
LEMMA PassOnlyMoves ==
  ASSUME AckInv, TypeOK', NEW s \in Sessions,
         \A r \in Sessions : r # s => job'[r] = job[r],
         UNCHANGED <<injected, journal>>,
         Honest(mem', journal), Honest(disk', journal), PassOf(s)'
  PROVE  AckInv'
  <1>1. \A r \in Sessions, t \in Threads, n \in Nat :
           WasInjected(r, t, n) => WasInjected(r, t, n)'
    BY DEF WasInjected
  <1>2. PassIsHonest'
    BY <1>1, OtherPassesHonest
  <1>3. JournalledWasInjected'
    BY DEF AckInv, JournalledWasInjected, WasInjected
  <1>4. Honest(mem, journal)' /\ Honest(disk, journal)'
    BY DEF Honest
  <1>5. QED
    BY <1>2, <1>3, <1>4 DEF AckInv

LEMMA AckFetch ==
  ASSUME AckInv, TypeOK', NEW t \in Threads, NEW s \in Sessions, Fetch(s, t)
  PROVE  AckInv'
  <1>1. job \in [Sessions -> Job \cup {Idle}]
    BY DEF AckInv, TypeOK
  <1>2. \A r \in Sessions : r # s => job'[r] = job[r]
    BY <1>1 DEF Fetch
  <1>3. job'[s].step = "send"
    BY <1>1 DEF Fetch
  <1>4. PassOf(s)'
    BY <1>3 DEF PassOf
  <1>5. UNCHANGED <<injected, journal, mem, disk>>
    BY DEF Fetch, daemonVars
  <1>6. QED
    BY <1>2, <1>4, <1>5, PassOnlyMoves DEF AckInv

LEMMA AckInject ==
  ASSUME AckInv, TypeOK', NEW s \in Sessions, Inject(s)
  PROVE  AckInv'
  <1> DEFINE t == job[s].thread
             n == Foremost(s).message
  <1>1. job[s] \in Job /\ t \in Threads /\ n \in Nat
    BY ForemostType DEF AckInv, Inject, Busy, Job
  <1>2. \A r \in Sessions : r # s => job'[r] = job[r]
    <2>1. job \in [Sessions -> Job \cup {Idle}]
      BY DEF AckInv, TypeOK
    <2>2. QED
      BY <2>1 DEF Inject
  <1>3. UNCHANGED <<mem, disk, journal>>
    BY DEF Inject, daemonVars
  <1>4. job'[s].thread = t /\ job'[s].todo = job[s].todo
    BY <1>1 DEF Inject, AckInv, TypeOK, Job
  <1>5. Foremost(s)' = Foremost(s)
    BY <1>4 DEF Foremost
  <1>6. CASE <<t, n>> \in journal[s]
    <2>1. UNCHANGED injected /\ job'[s].step = "ack"
      BY <1>1, <1>6 DEF Inject, AckInv, TypeOK, Job
    <2>2. PassOf(s)'
      BY <1>3, <1>4, <1>5, <1>6, <2>1 DEF PassOf
    <2>3. QED
      BY <1>2, <1>3, <2>1, <2>2, PassOnlyMoves DEF AckInv
  <1>7. CASE <<t, n>> \notin journal[s]
    <2>1. /\ job'[s].step = "record"
          /\ injected' = [injected EXCEPT ![s][t] = Append(@, n)]
      BY <1>1, <1>7 DEF Inject, AckInv, TypeOK, Job
    <2>2. injected \in [Sessions -> [Threads -> Seq(Nat)]]
      BY DEF AckInv, TypeOK
    <2>3. \A r \in Sessions, u \in Threads :
             injected'[r][u] = IF r = s /\ u = t THEN Append(injected[r][u], n)
                               ELSE injected[r][u]
      BY <1>1, <2>1, <2>2
    <2>4. \A r \in Sessions, u \in Threads, m \in Nat :
             WasInjected(r, u, m) => WasInjected(r, u, m)'
      <3> SUFFICES ASSUME NEW r \in Sessions, NEW u \in Threads, NEW m \in Nat,
                          WasInjected(r, u, m)
                   PROVE  WasInjected(r, u, m)'
        OBVIOUS
      <3>1. PICK k \in DOMAIN injected[r][u] : injected[r][u][k] = m
        BY DEF WasInjected
      <3>2. injected[r][u] \in Seq(Nat)
        BY <2>2
      <3>3. /\ k \in DOMAIN Append(injected[r][u], n)
            /\ Append(injected[r][u], n)[k] = m
        <4> HIDE DEF n
        <4>1. QED
          BY <1>1, <3>1, <3>2
      <3>4. injected'[r][u] \in {injected[r][u], Append(injected[r][u], n)}
        BY <2>3
      <3> HIDE DEF n
      <3>5. QED
        BY <3>1, <3>3, <3>4 DEF WasInjected
    <2>5. WasInjected(s, t, n)'
      <3>1. injected[s][t] \in Seq(Nat)
        BY <1>1, <2>2
      <3>2. injected'[s][t] = Append(injected[s][t], n)
        BY <1>1, <2>3
      <3> DEFINE last == Len(injected[s][t]) + 1
      <3>3. /\ last \in DOMAIN Append(injected[s][t], n)
            /\ Append(injected[s][t], n)[last] = n
        <4> HIDE DEF n, t
        <4>1. QED
          BY <1>1, <3>1
      <3>4. last \in DOMAIN injected'[s][t] /\ injected'[s][t][last] = n
        BY <3>2, <3>3
      <3> HIDE DEF last
      <3>5. WasInjected(s, t, n)' <=>
               \E k \in DOMAIN injected'[s][t] : injected'[s][t][k] = n
        BY <1>4, <1>5 DEF WasInjected
      <3>6. QED
        BY <3>4, <3>5
    <2>6. PassOf(s)'
      BY <1>4, <1>5, <2>1, <2>5 DEF PassOf, WasInjected
    <2>7. PassIsHonest'
      BY <1>2, <1>3, <2>4, <2>6, OtherPassesHonest
    <2>8. JournalledWasInjected'
      BY <1>3, <2>4 DEF AckInv, JournalledWasInjected
    <2>9. Honest(mem, journal)' /\ Honest(disk, journal)'
      BY <1>3 DEF AckInv, Honest
    <2>10. QED
      BY <2>7, <2>8, <2>9 DEF AckInv
  <1>8. QED
    BY <1>6, <1>7

LEMMA AckRecord ==
  ASSUME AckInv, TypeOK', NEW s \in Sessions, Record(s)
  PROVE  AckInv'
  <1> DEFINE t == job[s].thread
             n == Foremost(s).message
  <1>1. job[s] \in Job /\ t \in Threads /\ n \in Nat
    BY ForemostType DEF AckInv, Record, Busy, Job
  <1>2. \A r \in Sessions : r # s => job'[r] = job[r]
    BY DEF Record
  <1>3. UNCHANGED <<mem, disk, injected>>
    BY DEF Record, daemonVars
  <1>4. journal \in [Sessions -> SUBSET (Threads \X Nat)]
    BY DEF AckInv, TypeOK
  <1>5. \A r \in Sessions :
           journal'[r] = IF r = s THEN journal[r] \cup {<<t, n>>} ELSE journal[r]
    BY <1>4 DEF Record
  <1>6. job'[s].thread = t /\ job'[s].todo = job[s].todo /\ job'[s].step = "ack"
    BY <1>1 DEF Record, AckInv, TypeOK, Job
  <1>7. Foremost(s)' = Foremost(s)
    BY <1>6 DEF Foremost
  <1>8. PassOf(s)'
    BY <1>5, <1>6, <1>7 DEF PassOf
  <1>9. \A r \in Sessions, u \in Threads, m \in Nat :
           WasInjected(r, u, m) => WasInjected(r, u, m)'
    BY <1>3 DEF WasInjected
  <1>10. PassIsHonest'
    BY <1>2, <1>5, <1>8, <1>9, OtherPassesHonest
  <1>11. WasInjected(s, t, n)
    BY DEF AckInv, PassIsHonest, PassOf, Record
  <1>12. JournalledWasInjected'
    <2> SUFFICES ASSUME NEW r \in Sessions, NEW u \in Threads, NEW m \in Nat,
                        <<u, m>> \in journal'[r]
                 PROVE  WasInjected(r, u, m)
      BY <1>9 DEF JournalledWasInjected
    <2>1. <<u, m>> \in journal[r] \/ (r = s /\ <<u, m>> = <<t, n>>)
      BY <1>5
    <2>2. <<u, m>> = <<t, n>> => u = t /\ m = n
      OBVIOUS
    <2>3. QED
      BY <1>11, <2>1, <2>2 DEF AckInv, JournalledWasInjected
  <1>13. ASSUME NEW h \in HarnessState, Honest(h, journal)
         PROVE  Honest(h, journal')
    <2> SUFFICES ASSUME NEW u \in Threads, NEW i \in DOMAIN h.deliveries[u],
                        h.deliveries[u][i].acked
                 PROVE  <<u, h.deliveries[u][i].message>> \in
                           journal'[h.deliveries[u][i].session]
      BY DEF Honest
    <2>1. h.deliveries[u][i] \in Delivery
      <3>1. h.deliveries[u] \in Seq(Delivery)
        BY DEF HarnessState
      <3>2. QED
        BY <3>1
    <2>2. h.deliveries[u][i].session \in Sessions
      BY <2>1 DEF Delivery
    <2>3. QED
      BY <1>5, <1>13, <2>2 DEF Honest
  <1>14. Honest(mem, journal)' /\ Honest(disk, journal)'
    <2>1. Honest(mem, journal') /\ Honest(disk, journal')
      BY <1>13 DEF AckInv, TypeOK
    <2>2. QED
      BY <1>3, <2>1 DEF Honest
  <1>15. QED
    BY <1>10, <1>12, <1>14 DEF AckInv

LEMMA AckAcknowledge ==
  ASSUME AckInv, TypeOK', NEW s \in Sessions, Acknowledge(s)
  PROVE  AckInv'
  <1> DEFINE t == job[s].thread
             d == Foremost(s)
             known == /\ d.place \in DOMAIN mem.deliveries[t]
                      /\ mem.deliveries[t][d.place].session = s
                      /\ mem.deliveries[t][d.place].message = d.message
             done == [mem EXCEPT !.deliveries[t][d.place].acked = TRUE]
             left == job[s].todo \ {d}
  <1>1. job \in [Sessions -> Job \cup {Idle}] /\ mem \in HarnessState
    BY DEF AckInv, TypeOK
  <1>2. job[s] \in Job /\ t \in Threads
    BY ForemostType DEF AckInv, Acknowledge, Busy, Job
  <1>3. job[s].step = "ack" /\ <<t, d.message>> \in journal[s]
    BY DEF Acknowledge, AckInv, PassIsHonest, PassOf
  <1>4. ASSUME known PROVE Honest(done, journal)
    <2>1. mem.deliveries[t] \in Seq(Delivery)
      BY <1>1, <1>2 DEF HarnessState
    <2>2. mem.deliveries[t][d.place] \in Delivery
      BY <1>4, <2>1
    <2>3. \A u \in Threads :
             /\ DOMAIN done.deliveries[u] = DOMAIN mem.deliveries[u]
             /\ \A i \in DOMAIN mem.deliveries[u] :
                  \/ done.deliveries[u][i] = mem.deliveries[u][i]
                  \/ /\ u = t /\ i = d.place
                     /\ done.deliveries[u][i] =
                           [mem.deliveries[u][i] EXCEPT !.acked = TRUE]
      BY <1>1, <1>2, <1>4 DEF HarnessState
    <2>4. LET e == [mem.deliveries[t][d.place] EXCEPT !.acked = TRUE]
          IN  e.session = s /\ e.message = d.message
      BY <1>4, <2>2 DEF Delivery
    <2>5. Honest(mem, journal)
      BY DEF AckInv
    <2> SUFFICES ASSUME NEW u \in Threads, NEW i \in DOMAIN done.deliveries[u],
                        done.deliveries[u][i].acked
                 PROVE  <<u, done.deliveries[u][i].message>> \in
                           journal[done.deliveries[u][i].session]
      BY DEF Honest
    <2> HIDE DEF done, known
    <2>6. CASE done.deliveries[u][i] = mem.deliveries[u][i]
      BY <2>3, <2>5, <2>6 DEF Honest
    <2>7. CASE /\ u = t /\ i = d.place
               /\ done.deliveries[u][i] = [mem.deliveries[u][i] EXCEPT !.acked = TRUE]
      BY <1>3, <2>4, <2>7
    <2>8. QED
      BY <2>3, <2>6, <2>7
  <1>5. Honest(mem', journal) /\ Honest(disk', journal)
    <2>1. \/ known /\ mem' = done /\ disk' \in {disk, done}
          \/ known /\ mem' = done /\ disk' = disk
          \/ mem' = mem /\ disk' = disk
      BY DEF Acknowledge, Persist, PersistFails
    <2> HIDE DEF done, known
    <2>2. QED
      BY <1>4, <2>1 DEF AckInv
  <1>6. \A r \in Sessions : r # s => job'[r] = job[r]
    BY <1>1 DEF Acknowledge, Advance
  <1>7. job'[s] = Idle \/ job'[s].step = "send"
    <2>1. \/ job' = [job EXCEPT ![s] = Idle]
          \/ job' = [job EXCEPT ![s] = [job[s] EXCEPT !.todo = left, !.step = "send"]]
      BY <1>1 DEF Acknowledge, Advance
    <2>2. [job[s] EXCEPT !.todo = left, !.step = "send"].step = "send"
      BY <1>2 DEF Job
    <2>3. QED
      BY <1>1, <2>1, <2>2
  <1>8. PassOf(s)'
    BY <1>7 DEF PassOf, Idle
  <1>9. UNCHANGED <<injected, journal>>
    BY DEF Acknowledge
  <1>10. QED
    BY <1>5, <1>6, <1>8, <1>9, PassOnlyMoves

LEMMA AckAdapterStops ==
  ASSUME AckInv, TypeOK', NEW s \in Sessions, AdapterStops(s)
  PROVE  AckInv'
  <1>1. job \in [Sessions -> Job \cup {Idle}]
    BY DEF AckInv, TypeOK
  <1>2. /\ job'[s] = Idle
        /\ \A r \in Sessions : r # s => job'[r] = job[r]
    BY <1>1 DEF AdapterStops
  <1>3. PassOf(s)'
    BY <1>2 DEF PassOf, Idle
  <1>4. UNCHANGED <<injected, journal, mem, disk>>
    BY DEF AdapterStops, daemonVars
  <1>5. QED
    BY <1>2, <1>3, <1>4, PassOnlyMoves DEF AckInv

\* Every step keeps it.
LEMMA AckStep == AckInv /\ [Next]_vars => AckInv'
  <1> SUFFICES ASSUME AckInv, [Next]_vars PROVE AckInv'
    OBVIOUS
  <1>1. TypeOK'
    BY TypeNext DEF AckInv
  <1>2. CASE UNCHANGED vars
    <2>1. UNCHANGED adapterVars /\ UNCHANGED <<mem, disk>>
      BY <1>2 DEF vars, adapterVars
    <2>2. QED
      BY <1>1, <2>1, DaemonTurnHonest DEF AckInv
  <1>3. ASSUME NEW t \in Threads, NEW c \in Contents,
               CreateThread(t, c) \/ SubmitRevision(t, c)
        PROVE  AckInv'
    <2>1. UNCHANGED adapterVars /\ UNCHANGED <<mem, disk>>
      BY <1>3 DEF CreateThread, SubmitRevision
    <2>2. QED
      BY <1>1, <2>1, DaemonTurnHonest DEF AckInv
  <1>4. ASSUME NEW t \in Threads, NEW s \in Sessions, Bind(t, s) \/ Fetch(s, t)
        PROVE  AckInv'
    BY <1>1, <1>4, AckBind, AckFetch
  <1>5. ASSUME NEW t \in Threads, NEW o \in Outcomes,
               NEW op \in Operations \cup {NoOperation}, SendMessage(t, o, op)
        PROVE  AckInv'
    BY <1>1, <1>5, AckSendMessage
  <1>6. ASSUME NEW t \in Threads, DeleteThread(t)
        PROVE  AckInv'
    BY <1>1, <1>6, AckDeleteThread
  <1>7. ASSUME NEW t \in Threads, NEW s \in Sessions, NEW n \in MessageIds,
               NEW c \in Contents, ConsumeApprovedRetry(t, s, n, c)
        PROVE  AckInv'
    BY <1>1, <1>7, AckConsumeApprovedRetry
  <1>8. ASSUME NEW t \in Threads, NEW w \in Waiters, Wait(w, t) \/ WaitTimesOut(w, t)
        PROVE  AckInv'
    <2>1. UNCHANGED adapterVars /\ UNCHANGED <<mem, disk>>
      BY <1>8 DEF Wait, WaitTimesOut
    <2>2. QED
      BY <1>1, <2>1, DaemonTurnHonest DEF AckInv
  <1>9. ASSUME Crash \/ Start
        PROVE  AckInv'
    BY <1>1, <1>9, AckCrashAndStart
  <1>10. ASSUME NEW s \in Sessions,
                Inject(s) \/ Record(s) \/ Acknowledge(s) \/ AdapterStops(s)
         PROVE  AckInv'
    BY <1>1, <1>10, AckInject, AckRecord, AckAcknowledge, AckAdapterStops
  <1>11. QED
    BY <1>2, <1>3, <1>4, <1>5, <1>6, <1>7, <1>8, <1>9, <1>10 DEF Next

\* The strengthened invariant holds in every behaviour.
LEMMA AlwaysAckInv == Spec => []AckInv
  BY AckInit, AckStep, PTL DEF Spec

(* An acknowledged delivery was injected and journalled by that session's  *)
(* adapter, in memory and in the file, however many passes, failed writes, *)
(* crashes and restarts lie in between (deliverPending, sendOnce,          *)
(* HarnessStateStore.acknowledge).                                         *)
THEOREM AcknowledgementFollowsInjection == Spec => []AcknowledgedWasInjected
  BY AlwaysAckInv, AckInvSuffices, PTL

-----------------------------------------------------------------------------
(* How a Thread's record changes: every action leaves it alone or takes it *)
(* through one of four changes.  What is said below of the records, alone  *)
(* or together with the routing, follows from these.                       *)

Born(t) ==
    /\ thread[t].status = "unborn"
    /\ \E c \in Contents :
          thread'[t] = [thread[t] EXCEPT !.status = "pending", !.content = c]

Says(t) ==
    /\ thread[t].status = "pending"
    /\ Len(thread[t].log) < MaxMessages
    /\ \E o \in Outcomes, op \in Operations \cup {NoOperation} :
          ~HasReceipt(t, op) /\ thread'[t] = Sent(t, o, op)

Reopened(t) ==
    /\ Exists(t)
    /\ \E c \in Contents :
          thread'[t] = [thread[t] EXCEPT !.status = "pending", !.content = c, !.message = 0]

Gone(t) == Exists(t) /\ thread'[t] = [Unborn EXCEPT !.status = "deleted"]

RecordMoves(t) ==
    \/ thread'[t] = thread[t]
    \/ Born(t)
    \/ Says(t)
    \/ Reopened(t)
    \/ Gone(t)

LEMMA EveryRecordMoves ==
  ASSUME TypeOK, [Next]_vars, NEW t \in Threads
  PROVE  RecordMoves(t)
  <1>0. thread \in [Threads -> ThreadRecord]
    BY DEF TypeOK
  <1>1. CASE UNCHANGED thread
    BY <1>1 DEF RecordMoves
  <1>2. ASSUME NEW u \in Threads, NEW c \in Contents, CreateThread(u, c)
        PROVE  RecordMoves(t)
    BY <1>0, <1>2 DEF CreateThread, RecordMoves, Born, ThreadRecord
  <1>3. ASSUME NEW u \in Threads, NEW c \in Contents, SubmitRevision(u, c)
        PROVE  RecordMoves(t)
    BY <1>0, <1>3 DEF SubmitRevision, RecordMoves, Reopened, ThreadRecord
  <1>4. ASSUME NEW u \in Threads, NEW o \in Outcomes,
               NEW op \in Operations \cup {NoOperation}, SendMessage(u, o, op)
        PROVE  RecordMoves(t)
    <2>1. /\ thread' = [thread EXCEPT ![u] = Sent(u, o, op)]
          /\ thread[u].status = "pending"
          /\ ~HasReceipt(u, op)
          /\ Len(thread[u].log) < MaxMessages
      BY <1>4 DEF SendMessage
    <2>2. QED
      BY <1>0, <2>1 DEF RecordMoves, Says
  <1>5. ASSUME NEW u \in Threads, DeleteThread(u)
        PROVE  RecordMoves(t)
    BY <1>0, <1>5 DEF DeleteThread, RecordMoves, Gone
  <1>6. CASE Start
    <2>1. PICK expired \in SUBSET Prunable :
             thread' = [v \in Threads |->
                           IF v \in expired THEN [Unborn EXCEPT !.status = "deleted"]
                           ELSE thread[v]]
      BY <1>6 DEF Start
    <2>2. t \in expired => Exists(t)
      BY DEF Prunable, Exists
    <2>3. QED
      BY <2>1, <2>2 DEF RecordMoves, Gone
  <1>7. ASSUME NEW u \in Threads, NEW s \in Sessions, Bind(u, s) \/ Fetch(s, u)
        PROVE  UNCHANGED thread
    BY <1>7 DEF Bind, Fetch, daemonVars
  <1>8. ASSUME NEW u \in Threads, NEW s \in Sessions, NEW n \in MessageIds,
               NEW c \in Contents, ConsumeApprovedRetry(u, s, n, c)
        PROVE  UNCHANGED thread
    BY <1>8 DEF ConsumeApprovedRetry
  <1>9. ASSUME NEW u \in Threads, NEW w \in Waiters, Wait(w, u) \/ WaitTimesOut(w, u)
        PROVE  UNCHANGED thread
    BY <1>9 DEF Wait, WaitTimesOut
  <1>10. CASE Crash
    BY <1>1, <1>10 DEF Crash
  <1>11. ASSUME NEW s \in Sessions,
                Inject(s) \/ Record(s) \/ Acknowledge(s) \/ AdapterStops(s)
         PROVE  UNCHANGED thread
    BY <1>11 DEF Inject, Record, Acknowledge, AdapterStops, daemonVars
  <1>12. CASE UNCHANGED vars
    BY <1>1, <1>12 DEF vars
  <1>13. QED
    BY <1>1, <1>2, <1>3, <1>4, <1>5, <1>6, <1>7, <1>8, <1>9, <1>10, <1>11, <1>12 DEF Next

\* A record never comes back, and its Messages are never taken back while it is there.
LEMMA SentGrows ==
  ASSUME TypeOK, NEW t \in Threads, Says(t)
  PROVE  \E o \in Outcomes, op \in Operations \cup {NoOperation} :
           LET m == [outcome |-> o, content |-> thread[t].content, operation |-> op]
           IN  /\ ~HasReceipt(t, op)
               /\ m \in SentMessage
               /\ thread'[t].log = Append(thread[t].log, m)
               /\ thread'[t].message = Len(thread[t].log) + 1
               /\ thread'[t].content = thread[t].content
               /\ thread'[t].status = IF o = "comment" THEN "pending" ELSE "resolved"
  <1>1. thread[t] \in ThreadRecord
    BY DEF TypeOK
  <1>2. PICK o \in Outcomes, op \in Operations \cup {NoOperation} :
            ~HasReceipt(t, op) /\ thread'[t] = Sent(t, o, op)
    BY DEF Says
  <1> DEFINE m == [outcome |-> o, content |-> thread[t].content, operation |-> op]
  <1>3. m \in SentMessage
    BY <1>1 DEF ThreadRecord, SentMessage
  <1>4. Sent(t, o, op) = [thread[t] EXCEPT
           !.status = IF o = "comment" THEN "pending" ELSE "resolved",
           !.message = Len(thread[t].log) + 1,
           !.log = Append(@, m)]
    BY DEF Sent
  <1> HIDE DEF m
  <1>5. /\ thread'[t].log = Append(thread[t].log, m)
        /\ thread'[t].message = Len(thread[t].log) + 1
        /\ thread'[t].content = thread[t].content
        /\ thread'[t].status = IF o = "comment" THEN "pending" ELSE "resolved"
    BY <1>1, <1>2, <1>4 DEF ThreadRecord
  <1>6. QED
    BY <1>2, <1>3, <1>5 DEF m

LEMMA UnbornFacts ==
  LET r == [Unborn EXCEPT !.status = "deleted"]
  IN  r.status = "deleted" /\ r.message = 0 /\ r.log = <<>>
  BY DEF Unborn

\* The receipt is looked for in the whole log, and the log only grows.
LEMMA OneMessageStep ==
  TypeOK /\ OneMessagePerOperation /\ [Next]_vars => OneMessagePerOperation'
  <1> SUFFICES ASSUME TypeOK, OneMessagePerOperation, [Next]_vars,
                      NEW t \in Threads,
                      NEW i \in DOMAIN thread'[t].log, NEW j \in DOMAIN thread'[t].log,
                      thread'[t].log[i].operation # NoOperation,
                      thread'[t].log[i].operation = thread'[t].log[j].operation
               PROVE  i = j
    BY DEF OneMessagePerOperation
  <1>1. thread[t].log \in Seq(SentMessage)
    BY DEF TypeOK, ThreadRecord
  <1>2. RecordMoves(t)
    BY EveryRecordMoves
  <1>3. CASE thread'[t].log = thread[t].log
    BY <1>3 DEF OneMessagePerOperation
  <1>4. CASE Says(t)
    <2>1. PICK o \in Outcomes, op \in Operations \cup {NoOperation} :
             /\ ~HasReceipt(t, op)
             /\ thread'[t].log = Append(thread[t].log,
                   [outcome |-> o, content |-> thread[t].content, operation |-> op])
             /\ [outcome |-> o, content |-> thread[t].content, operation |-> op] \in SentMessage
      BY <1>4, SentGrows
    <2> DEFINE m == [outcome |-> o, content |-> thread[t].content, operation |-> op]
               n == Len(thread[t].log) + 1
    <2>2. m.operation = op
      OBVIOUS
    <2> HIDE DEF m
    <2>3. /\ thread'[t].log = Append(thread[t].log, m)
          /\ m \in SentMessage
      BY <2>1 DEF m
    <2>4. \A k \in DOMAIN thread'[t].log :
             \/ k \in DOMAIN thread[t].log /\ thread'[t].log[k] = thread[t].log[k]
             \/ k = n /\ thread'[t].log[k] = m
      BY <1>1, <2>3
    <2>5. op # NoOperation => \A k \in DOMAIN thread[t].log : thread[t].log[k].operation # op
      BY <2>1 DEF HasReceipt
    <2> HIDE DEF n
    <2>6. QED
      BY <2>2, <2>4, <2>5 DEF OneMessagePerOperation
  <1>5. CASE Gone(t)
    BY <1>5, UnbornFacts DEF Gone
  <1>6. Born(t) \/ Reopened(t) => thread'[t].log = thread[t].log
    BY DEF Born, Reopened, TypeOK, ThreadRecord
  <1>7. QED
    BY <1>2, <1>3, <1>4, <1>5, <1>6 DEF RecordMoves

(* One operation id is at most one Message, for any number of retries,     *)
(* revisions and restarts (the receipts of sessionSendMessage).            *)
THEOREM OneReceipt == Spec => []OneMessagePerOperation
  <1>1. Init => OneMessagePerOperation
    BY DEF Init, Unborn, OneMessagePerOperation
  <1>2. QED
    BY <1>1, OneMessageStep, TypeCorrect, PTL DEF Spec

-----------------------------------------------------------------------------
(* The current Message is the last one that was sent, or none; a resolved  *)
(* Thread has one, and it was sent about the content the Thread has.       *)
RecordFits(r) ==
    /\ r.message \in {0, Len(r.log)}
    /\ Len(r.log) <= MaxMessages
    /\ r.status = "unborn" => r.message = 0 /\ r.log = <<>>
    /\ r.status = "deleted" => r.message = 0
    /\ r.status = "resolved" =>
          /\ r.message # 0
          /\ r.log[r.message].content = r.content

RecordsFit == \A t \in Threads : RecordFits(thread[t])

LEMMA RecordsFitStep ==
  ASSUME TypeOK, RecordsFit, [Next]_vars
  PROVE  RecordsFit'
  <1> SUFFICES ASSUME NEW t \in Threads PROVE RecordFits(thread'[t])
    BY DEF RecordsFit
  <1>1. thread[t] \in ThreadRecord /\ RecordFits(thread[t])
    BY DEF TypeOK, RecordsFit
  <1>2. thread[t].log \in Seq(SentMessage) /\ MaxMessages \in Nat
    BY <1>1, ConstantsAssumption DEF ThreadRecord
  <1>3. CASE thread'[t] = thread[t]
    BY <1>1, <1>3
  <1>4. CASE Born(t)
    BY <1>1, <1>4 DEF Born, RecordFits, ThreadRecord
  <1>5. CASE Reopened(t)
    BY <1>1, <1>5 DEF Reopened, RecordFits, ThreadRecord
  <1>6. CASE Gone(t)
    BY <1>2, <1>6, UnbornFacts DEF Gone, RecordFits
  <1>7. CASE Says(t)
    <2>1. PICK m \in SentMessage :
             /\ thread'[t].log = Append(thread[t].log, m)
             /\ thread'[t].message = Len(thread[t].log) + 1
             /\ thread'[t].content = thread[t].content
             /\ thread'[t].status \in {"pending", "resolved"}
             /\ m.content = thread[t].content
      BY <1>7, SentGrows
    <2>2. /\ Len(thread'[t].log) = Len(thread[t].log) + 1
          /\ thread'[t].log[Len(thread[t].log) + 1] = m
          /\ Len(thread[t].log) + 1 # 0
      BY <1>2, <2>1
    <2>3. Len(thread[t].log) + 1 <= MaxMessages
      BY <1>2, <1>7 DEF Says
    <2>4. QED
      BY <2>1, <2>2, <2>3 DEF RecordFits
  <1>8. QED
    BY <1>3, <1>4, <1>5, <1>6, <1>7, EveryRecordMoves DEF RecordMoves

LEMMA RecordsFitInit == Init => RecordsFit
  BY ConstantsAssumption DEF Init, Unborn, RecordsFit, RecordFits

-----------------------------------------------------------------------------
(* Nobody is left parked.  While the daemon is down nobody is parked at    *)
(* all, which is why a start-up may prune resolved Threads; a failed write *)
(* ends a resolving turn before its wake-up, hence the assumption.         *)
ParkedFits ==
    /\ NobodyParkedOnAClosedThread
    /\ ~up => \A t \in Threads : parked[t] = {}

LEMMA ParkedFitsStep ==
  ASSUME ~WriteFaults, TypeOK, ParkedFits, [Next]_vars
  PROVE  ParkedFits'
  <1>0. /\ thread \in [Threads -> ThreadRecord]
        /\ parked \in [Threads -> SUBSET Waiters]
    BY DEF TypeOK
  <1>1. ASSUME DieWith(mem') PROVE ParkedFits'
    <2>1. up' = FALSE /\ parked' = [t \in Threads |-> {}]
      BY <1>1 DEF DieWith
    <2>2. QED
      BY <2>1 DEF ParkedFits, NobodyParkedOnAClosedThread
  <1>2. ASSUME NEW h, DieWith(h) PROVE ParkedFits'
    <2>1. up' = FALSE /\ parked' = [t \in Threads |-> {}]
      BY <1>2 DEF DieWith
    <2>2. QED
      BY <2>1 DEF ParkedFits, NobodyParkedOnAClosedThread
  <1>3. CASE UNCHANGED <<up, thread, parked>>
    BY <1>3 DEF ParkedFits, NobodyParkedOnAClosedThread
  <1>4. ASSUME NEW t \in Threads, NEW c \in Contents,
               CreateThread(t, c) \/ SubmitRevision(t, c)
        PROVE  ParkedFits'
    <2>1. UNCHANGED <<up, parked>>
      BY <1>4 DEF CreateThread, SubmitRevision
    <2>2. \A u \in Threads : thread'[u] = thread[u] \/ thread'[u].status = "pending"
      BY <1>0, <1>4 DEF CreateThread, SubmitRevision, ThreadRecord
    <2>3. QED
      BY <2>1, <2>2 DEF ParkedFits, NobodyParkedOnAClosedThread
  <1>5. ASSUME NEW t \in Threads, NEW s \in Sessions, Bind(t, s) \/ Fetch(s, t)
        PROVE  ParkedFits'
    <2>1. UNCHANGED <<up, thread, parked>> \/ \E h : DieWith(h)
      BY <1>5 DEF Bind, Fetch, daemonVars, PersistFails
    <2>2. QED
      BY <1>2, <1>3, <2>1
  <1>6. ASSUME NEW t \in Threads, NEW o \in Outcomes,
               NEW op \in Operations \cup {NoOperation}, SendMessage(t, o, op)
        PROVE  ParkedFits'
    <2> DEFINE n == Len(thread[t].log) + 1
    <2>1. \/ DieWith(disk)
          \/ /\ UNCHANGED up
             /\ IF o = "comment" THEN UNCHANGED <<parked, collected>>
                                 ELSE Release(t, n)
      BY <1>6 DEF SendMessage, PersistFails
    <2>2. /\ \A u \in Threads : u # t => thread'[u] = thread[u]
          /\ Says(t)
      BY <1>0, <1>6 DEF SendMessage, Says
    <2>3. thread[t].status = "pending"
      BY <1>6 DEF SendMessage
    <2>4. CASE o = "comment" /\ UNCHANGED <<up, parked>>
      <3>1. thread'[t].status = "pending"
        BY <1>0, <1>6, <2>4 DEF SendMessage, Sent, ThreadRecord
      <3>2. QED
        BY <2>2, <2>4, <3>1 DEF ParkedFits, NobodyParkedOnAClosedThread
    <2>5. CASE Release(t, n) /\ UNCHANGED up
      <3>1. parked' = [parked EXCEPT ![t] = {}]
        BY <2>5 DEF Release
      <3>2. QED
        BY <1>0, <2>2, <2>5, <3>1 DEF ParkedFits, NobodyParkedOnAClosedThread
    <2>6. QED
      BY <1>2, <2>1, <2>4, <2>5
  <1>7. ASSUME NEW t \in Threads, DeleteThread(t)
        PROVE  ParkedFits'
    <2>1. \/ DieWith(disk)
          \/ UNCHANGED up /\ parked' = [parked EXCEPT ![t] = {}]
      BY <1>7 DEF DeleteThread, PersistFails
    <2>2. \A u \in Threads : u # t => thread'[u] = thread[u]
      BY <1>0, <1>7 DEF DeleteThread
    <2>3. CASE UNCHANGED up /\ parked' = [parked EXCEPT ![t] = {}]
      BY <1>0, <2>2, <2>3 DEF ParkedFits, NobodyParkedOnAClosedThread
    <2>4. QED
      BY <1>2, <2>1, <2>3
  <1>8. ASSUME NEW t \in Threads, NEW s \in Sessions, NEW n \in MessageIds,
               NEW c \in Contents, ConsumeApprovedRetry(t, s, n, c)
        PROVE  ParkedFits'
    BY <1>3, <1>8 DEF ConsumeApprovedRetry
  <1>9. ASSUME NEW t \in Threads, NEW w \in Waiters, Wait(w, t) \/ WaitTimesOut(w, t)
        PROVE  ParkedFits'
    <2>1. UNCHANGED <<up, thread>>
      BY <1>9 DEF Wait, WaitTimesOut
    <2>2. \/ UNCHANGED parked
          \/ /\ thread[t].status = "pending" /\ up
             /\ parked' = [parked EXCEPT ![t] = @ \cup {w}]
          \/ parked' = [parked EXCEPT ![t] = @ \ {w}]
      BY <1>9 DEF Wait, WaitTimesOut, Exists
    <2>3. \A u \in Threads : \/ parked'[u] \subseteq parked[u]
                             \/ thread[u].status = "pending" /\ up
      BY <1>0, <2>2
    <2>4. QED
      BY <2>1, <2>3 DEF ParkedFits, NobodyParkedOnAClosedThread
  <1>10. CASE Crash
    BY <1>2, <1>10 DEF Crash
  <1>11. CASE Start
    BY <1>11 DEF Start, ParkedFits, NobodyParkedOnAClosedThread
  <1>12. ASSUME NEW s \in Sessions,
                Inject(s) \/ Record(s) \/ Acknowledge(s) \/ AdapterStops(s)
         PROVE  ParkedFits'
    BY <1>3, <1>12 DEF Inject, Record, Acknowledge, AdapterStops, daemonVars
  <1>13. CASE UNCHANGED vars
    BY <1>3, <1>13 DEF vars
  <1>14. QED
    BY <1>4, <1>5, <1>6, <1>7, <1>8, <1>9, <1>10, <1>11, <1>12, <1>13 DEF Next

(* No lost wakeup: nobody stays parked in session.wait on a Thread that is *)
(* resolved or gone, across crashes and start-ups, as long as the writes   *)
(* of the harness-state file succeed (wait and the waiters of api.ts).     *)
THEOREM NobodyWaitsInVain ==
  ASSUME ~WriteFaults
  PROVE  Spec => []NobodyParkedOnAClosedThread
  <1>1. Init => ParkedFits
    BY DEF Init, ParkedFits, NobodyParkedOnAClosedThread
  <1>2. TypeOK /\ ParkedFits /\ [Next]_vars => ParkedFits'
    BY ParkedFitsStep
  <1>3. ParkedFits => NobodyParkedOnAClosedThread
    BY DEF ParkedFits
  <1>4. QED
    BY <1>1, <1>2, <1>3, TypeCorrect, PTL DEF Spec

-----------------------------------------------------------------------------
(* A repeated injection needs a cut pass.  What is counted is not the      *)
(* injected Messages but those of them that are journalled: an injection   *)
(* adds none, the record that follows adds one, and a pass that is cut in  *)
(* between is counted by `cut`.                                            *)
Sightings(s, t) == {injected[s][t][i] : i \in DOMAIN injected[s][t]}

Remembered(s, t) == {n \in Sightings(s, t) : <<t, n>> \in journal[s]}

Underway(s, t) ==
    IF job[s].step = "record" THEN IF job[s].thread = t THEN 1 ELSE 0 ELSE 0

RepeatsFit ==
    /\ \A s \in Sessions, t \in Threads :
          Len(injected[s][t]) <= Cardinality(Remembered(s, t)) + cut[s] + Underway(s, t)
    /\ \A s \in Sessions :
          job[s].step = "record" =>
              <<job[s].thread, Foremost(s).message>> \notin journal[s]

\* The Messages a session was handed are finitely many.
LEMMA SightingsFinite ==
  ASSUME TypeOK, NEW s \in Sessions, NEW t \in Threads
  PROVE  /\ IsFiniteSet(Sightings(s, t))
         /\ IsFiniteSet(Remembered(s, t))
         /\ Cardinality(Sightings(s, t)) \in Nat
         /\ Cardinality(Remembered(s, t)) \in Nat
         /\ Cardinality(Remembered(s, t)) <= Cardinality(Sightings(s, t))
  <1>1. injected[s][t] \in Seq(Nat)
    BY DEF TypeOK
  <1> DEFINE len == Len(injected[s][t])
             f == [i \in 1..len |-> injected[s][t][i]]
  <1>2. len \in Nat /\ DOMAIN injected[s][t] = 1..len
    BY <1>1
  <1>3. IsFiniteSet(1..len)
    BY <1>2, FS_Interval
  <1>4. f \in Surjection(1..len, Sightings(s, t))
    BY <1>2 DEF Surjection, Sightings
  <1>5. IsFiniteSet(Sightings(s, t))
    BY <1>3, <1>4, FS_Surjection
  <1>6. Remembered(s, t) \subseteq Sightings(s, t)
    BY DEF Remembered
  <1>7. QED
    BY <1>5, <1>6, FS_Subset, FS_CardinalityType

\* Steps that neither inject nor record keep the count.
LEMMA RepeatsKept ==
  ASSUME RepeatsFit, UNCHANGED <<injected, journal, cut>>,
         \A s \in Sessions : job'[s] = job[s] \/ (job[s].step # "record" /\ job'[s].step # "record")
  PROVE  RepeatsFit'
  <1>1. ASSUME NEW s \in Sessions, NEW t \in Threads
        PROVE  /\ Remembered(s, t)' = Remembered(s, t)
               /\ Underway(s, t)' = Underway(s, t)
    BY DEF Remembered, Sightings, Underway
  <1>2. ASSUME NEW s \in Sessions, job'[s].step = "record"
        PROVE  job'[s] = job[s] /\ Foremost(s)' = Foremost(s)
    BY <1>2 DEF Foremost
  <1>3. QED
    BY <1>1, <1>2 DEF RepeatsFit

LEMMA RepeatsInject ==
  ASSUME TypeOK, RepeatsFit, NEW s \in Sessions, Inject(s)
  PROVE  RepeatsFit'
  <1> DEFINE t == job[s].thread
             n == Foremost(s).message
  <1>1. /\ job \in [Sessions -> Job \cup {Idle}]
        /\ injected \in [Sessions -> [Threads -> Seq(Nat)]]
        /\ cut \in [Sessions -> Nat]
    BY DEF TypeOK
  <1>2. job[s] \in Job /\ t \in Threads /\ n \in Nat /\ job[s].step = "send"
    BY ForemostType DEF Inject, Busy, Job
  <1>3. UNCHANGED <<journal, cut>>
    BY DEF Inject
  <1>4. CASE <<t, n>> \in journal[s]
    <2>1. UNCHANGED injected /\ job' = [job EXCEPT ![s].step = "ack"]
      BY <1>4 DEF Inject
    <2>2. \A r \in Sessions : job'[r] = job[r] \/ (job[r].step # "record" /\ job'[r].step # "record")
      BY <1>1, <1>2, <2>1 DEF Job
    <2>3. QED
      BY <1>3, <2>1, <2>2, RepeatsKept
  <1>5. CASE <<t, n>> \notin journal[s]
    <2>1. /\ job' = [job EXCEPT ![s].step = "record"]
          /\ injected' = [injected EXCEPT ![s][t] = Append(@, n)]
      BY <1>5 DEF Inject
    <2>2. /\ \A r \in Sessions : r # s => job'[r] = job[r]
          /\ job'[s].step = "record" /\ job'[s].thread = t /\ job'[s].todo = job[s].todo
      BY <1>1, <1>2, <2>1 DEF Job
    <2>3. \A r \in Sessions, u \in Threads :
             injected'[r][u] = IF r = s /\ u = t THEN Append(injected[r][u], n)
                               ELSE injected[r][u]
      BY <1>1, <1>2, <2>1
    <2>4. Foremost(s)' = Foremost(s)
      BY <2>2 DEF Foremost
    <2>5. \A r \in Sessions : r # s => Foremost(r)' = Foremost(r)
      BY <2>2 DEF Foremost
    <2>6. ASSUME NEW r \in Sessions, NEW u \in Threads
          PROVE  Len(injected'[r][u]) <=
                    Cardinality(Remembered(r, u)') + cut'[r] + Underway(r, u)'
      <3>1. Len(injected[r][u]) <= Cardinality(Remembered(r, u)) + cut[r] + Underway(r, u)
        BY DEF RepeatsFit
      <3>2. CASE r = s /\ u = t
        <4>1. injected[s][t] \in Seq(Nat) /\ injected'[s][t] = Append(injected[s][t], n)
          BY <1>1, <1>2, <2>3
        <4>2. /\ Len(injected'[s][t]) = Len(injected[s][t]) + 1
              /\ DOMAIN injected'[s][t] = DOMAIN injected[s][t] \cup {Len(injected[s][t]) + 1}
              /\ injected'[s][t][Len(injected[s][t]) + 1] = n
              /\ \A i \in DOMAIN injected[s][t] : injected'[s][t][i] = injected[s][t][i]
          <5> HIDE DEF n, t
          <5>1. QED
            BY <1>2, <4>1
        <4>3. Sightings(s, t)' = Sightings(s, t) \cup {n}
          <5>1. t' = t
            BY <2>2
          <5>2. {injected'[s][t][i] : i \in DOMAIN injected'[s][t]}
                   = {injected[s][t][i] : i \in DOMAIN injected[s][t]} \cup {n}
            <6> HIDE DEF n, t
            <6>1. QED
              BY <4>2
          <5>3. QED
            BY <5>1, <5>2 DEF Sightings
        <4>4. Remembered(s, t)' = Remembered(s, t)
          BY <1>3, <1>5, <2>2, <4>3 DEF Remembered
        <4>5. Underway(s, t) = 0 /\ Underway(s, t)' = 1
          BY <1>2, <2>2 DEF Underway
        <4>6. Cardinality(Remembered(s, t)) \in Nat /\ cut[s] \in Nat
          BY <1>1, <1>2, SightingsFinite
        <4>7. Len(injected[s][t]) \in Nat
          BY <4>1
        <4>8. t' = t
          BY <2>2
        <4> HIDE DEF t, n
        <4>9. Len(injected[s][t]) <= Cardinality(Remembered(s, t)) + cut[s] + 0
          BY <3>1, <3>2, <4>5
        <4>10. Len(injected'[s][t]) <= Cardinality(Remembered(s, t)) + cut[s] + 1
          BY <4>2, <4>6, <4>7, <4>9
        <4>11. QED
          BY <1>3, <3>2, <4>4, <4>5, <4>8, <4>10
      <3>3. CASE ~(r = s /\ u = t)
        <4>1. injected'[r][u] = injected[r][u] /\ Remembered(r, u)' = Remembered(r, u)
          BY <1>3, <2>3, <3>3 DEF Remembered, Sightings
        <4>2. Underway(r, u)' = Underway(r, u)
          BY <1>2, <2>2, <3>3 DEF Underway
        <4>3. QED
          BY <1>3, <3>1, <4>1, <4>2
      <3>4. QED
        BY <3>2, <3>3
    <2>7. ASSUME NEW r \in Sessions, job'[r].step = "record"
          PROVE  <<job'[r].thread, Foremost(r)'.message>> \notin journal'[r]
      <3>1. CASE r = s
        BY <1>3, <1>5, <2>2, <2>4, <3>1
      <3>2. CASE r # s
        BY <1>3, <2>2, <2>5, <2>7, <3>2 DEF RepeatsFit
      <3>3. QED
        BY <3>1, <3>2
    <2>8. QED
      BY <2>6, <2>7 DEF RepeatsFit
  <1>6. QED
    BY <1>4, <1>5

LEMMA RepeatsRecord ==
  ASSUME AckInv, RepeatsFit, NEW s \in Sessions, Record(s)
  PROVE  RepeatsFit'
  <1> DEFINE t == job[s].thread
             n == Foremost(s).message
  <1>1. /\ job \in [Sessions -> Job \cup {Idle}]
        /\ injected \in [Sessions -> [Threads -> Seq(Nat)]]
        /\ cut \in [Sessions -> Nat]
        /\ journal \in [Sessions -> SUBSET (Threads \X Nat)]
        /\ TypeOK
    BY DEF AckInv, TypeOK
  <1>2. job[s] \in Job /\ t \in Threads /\ n \in Nat /\ job[s].step = "record"
    BY <1>1, ForemostType DEF Record, Busy, Job
  <1>3. UNCHANGED <<injected, cut>>
    BY DEF Record
  <1>4. /\ \A r \in Sessions : r # s => job'[r] = job[r] /\ journal'[r] = journal[r]
        /\ job'[s].step = "ack" /\ job'[s].thread = t
        /\ journal'[s] = journal[s] \cup {<<t, n>>}
    BY <1>1, <1>2 DEF Record, Job
  <1>5. WasInjected(s, t, n) /\ <<t, n>> \notin journal[s]
    BY <1>2 DEF AckInv, PassIsHonest, PassOf, RepeatsFit
  <1>6. ASSUME NEW r \in Sessions, NEW u \in Threads
        PROVE  Len(injected'[r][u]) <=
                  Cardinality(Remembered(r, u)') + cut'[r] + Underway(r, u)'
    <2>1. Len(injected[r][u]) <= Cardinality(Remembered(r, u)) + cut[r] + Underway(r, u)
      BY DEF RepeatsFit
    <2>2. CASE r = s /\ u = t
      <3>1. Remembered(s, t)' = Remembered(s, t) \cup {n}
        <4>1. t' = t
          BY <1>4
        <4>2. n \in Sightings(s, t)
          BY <1>5 DEF WasInjected, Sightings
        <4>3. \A m : <<t, m>> = <<t, n>> <=> m = n
          OBVIOUS
        <4>4. {m \in Sightings(s, t) : <<t, m>> \in journal'[s]}
                 = {m \in Sightings(s, t) : <<t, m>> \in journal[s]} \cup {n}
          <5> HIDE DEF t, n
          <5>1. QED
            BY <1>4, <4>2, <4>3
        <4>5. Sightings(s, t)' = Sightings(s, t)
          BY <1>3, <4>1 DEF Sightings
        <4>6. QED
          BY <4>1, <4>4, <4>5 DEF Remembered
      <3>2. n \notin Remembered(s, t)
        BY <1>5 DEF Remembered
      <3>3. /\ IsFiniteSet(Remembered(s, t))
            /\ Cardinality(Remembered(s, t)) \in Nat
        BY <1>1, <1>2, SightingsFinite
      <3>4. Cardinality(Remembered(s, t) \cup {n}) = Cardinality(Remembered(s, t)) + 1
        BY <3>2, <3>3, FS_AddElement
      <3>5. Underway(s, t) = 1 /\ Underway(s, t)' = 0
        BY <1>2, <1>4 DEF Underway
      <3>6. t' = t /\ cut[s] \in Nat
        BY <1>1, <1>4
      <3>7. Len(injected[s][t]) \in Nat
        BY <1>1, <1>2
      <3> HIDE DEF t, n
      <3>8. Len(injected[s][t]) <= Cardinality(Remembered(s, t)) + cut[s] + 1
        BY <2>1, <2>2, <3>5
      <3>9. Len(injected[s][t]) <= (Cardinality(Remembered(s, t)) + 1) + cut[s] + 0
        BY <3>3, <3>6, <3>7, <3>8
      <3>10. QED
        BY <1>3, <2>2, <3>1, <3>4, <3>5, <3>6, <3>9
    <2>3. CASE ~(r = s /\ u = t)
      <3>1. Remembered(r, u)' = Remembered(r, u)
        <4>1. \A m : <<u, m>> \in journal'[r] <=> <<u, m>> \in journal[r]
          <5>1. CASE r # s
            BY <1>4, <5>1
          <5>2. CASE r = s /\ u # t
            <6>1. \A m : <<u, m>> # <<t, n>>
              BY <5>2
            <6>2. QED
              BY <1>4, <5>2, <6>1
          <5>3. QED
            BY <2>3, <5>1, <5>2
        <4>2. QED
          BY <1>3, <4>1 DEF Remembered, Sightings
      <3>2. Underway(r, u)' = Underway(r, u)
        BY <1>2, <1>4, <2>3 DEF Underway
      <3>3. QED
        BY <1>3, <2>1, <3>1, <3>2
    <2>4. QED
      BY <2>2, <2>3
  <1>7. ASSUME NEW r \in Sessions, job'[r].step = "record"
        PROVE  <<job'[r].thread, Foremost(r)'.message>> \notin journal'[r]
    <2>1. r # s
      BY <1>4, <1>7
    <2>2. Foremost(r)' = Foremost(r)
      BY <1>4, <2>1 DEF Foremost
    <2>3. QED
      BY <1>4, <1>7, <2>1, <2>2 DEF RepeatsFit
  <1>8. QED
    BY <1>6, <1>7 DEF RepeatsFit

LEMMA RepeatsAdapterStops ==
  ASSUME TypeOK, RepeatsFit, NEW s \in Sessions, AdapterStops(s)
  PROVE  RepeatsFit'
  <1>1. /\ job \in [Sessions -> Job \cup {Idle}]
        /\ injected \in [Sessions -> [Threads -> Seq(Nat)]]
        /\ cut \in [Sessions -> Nat]
    BY DEF TypeOK
  <1>2. /\ UNCHANGED <<injected, journal>>
        /\ job'[s] = Idle
        /\ \A r \in Sessions : r # s => job'[r] = job[r] /\ cut'[r] = cut[r]
        /\ cut'[s] = IF job[s].step = "record" THEN cut[s] + 1 ELSE cut[s]
    BY <1>1 DEF AdapterStops
  <1>3. ASSUME NEW r \in Sessions, NEW u \in Threads
        PROVE  Len(injected'[r][u]) <=
                  Cardinality(Remembered(r, u)') + cut'[r] + Underway(r, u)'
    <2>1. Len(injected[r][u]) <= Cardinality(Remembered(r, u)) + cut[r] + Underway(r, u)
      BY DEF RepeatsFit
    <2>2. Remembered(r, u)' = Remembered(r, u)
      BY <1>2 DEF Remembered, Sightings
    <2>3. /\ cut[r] \in Nat /\ Len(injected[r][u]) \in Nat
          /\ Cardinality(Remembered(r, u)) \in Nat
      BY <1>1, SightingsFinite
    <2>4. CASE r = s
      <3>1. /\ Underway(r, u)' = 0
            /\ Underway(r, u) \in {0, 1}
            /\ Underway(r, u) = 1 => job[s].step = "record"
        BY <1>2, <2>4 DEF Underway, Idle
      <3>2. QED
        BY <1>2, <2>1, <2>2, <2>3, <2>4, <3>1
    <2>5. CASE r # s
      <3>1. Underway(r, u)' = Underway(r, u)
        BY <1>2, <2>5 DEF Underway
      <3>2. QED
        BY <1>2, <2>1, <2>2, <2>5, <3>1
    <2>6. QED
      BY <2>4, <2>5
  <1>4. ASSUME NEW r \in Sessions, job'[r].step = "record"
        PROVE  <<job'[r].thread, Foremost(r)'.message>> \notin journal'[r]
    <2>1. r # s
      BY <1>2, <1>4 DEF Idle
    <2>2. Foremost(r)' = Foremost(r)
      BY <1>2, <2>1 DEF Foremost
    <2>3. QED
      BY <1>2, <1>4, <2>1, <2>2 DEF RepeatsFit
  <1>5. QED
    BY <1>3, <1>4 DEF RepeatsFit

LEMMA RepeatsStep ==
  ASSUME AckInv, RepeatsFit, [Next]_vars
  PROVE  RepeatsFit'
  <1>0. job \in [Sessions -> Job \cup {Idle}] /\ TypeOK
    BY DEF AckInv, TypeOK
  <1>1. CASE UNCHANGED <<injected, journal, cut, job>>
    BY <1>1, RepeatsKept
  <1>2. ASSUME NEW t \in Threads, NEW s \in Sessions, Fetch(s, t)
        PROVE  RepeatsFit'
    <2>1. UNCHANGED <<injected, journal, cut>>
      BY <1>2 DEF Fetch
    <2>2. \A r \in Sessions : \/ job'[r] = job[r]
                              \/ job[r].step # "record" /\ job'[r].step # "record"
      BY <1>0, <1>2 DEF Fetch, Busy
    <2>3. QED
      BY <2>1, <2>2, RepeatsKept
  <1>3. ASSUME NEW s \in Sessions, Acknowledge(s)
        PROVE  RepeatsFit'
    <2> DEFINE next == [job[s] EXCEPT !.todo = job[s].todo \ {Foremost(s)},
                                      !.step = "send"]
    <2>1. UNCHANGED <<injected, journal, cut>>
      BY <1>3 DEF Acknowledge
    <2>2. job[s].step = "ack" /\ job[s] \in Job
      BY <1>0, <1>3, ForemostType DEF Acknowledge, Busy
    <2>3. job' = [job EXCEPT ![s] = Idle] \/ job' = [job EXCEPT ![s] = next]
      BY <1>0, <1>3 DEF Acknowledge, Advance
    <2>4. next.step = "send" /\ Idle.step = "idle"
      BY <2>2 DEF Job, Idle
    <2> HIDE DEF next
    <2>5. \A r \in Sessions : \/ job'[r] = job[r]
                              \/ job[r].step # "record" /\ job'[r].step # "record"
      BY <1>0, <2>2, <2>3, <2>4
    <2>6. QED
      BY <2>1, <2>5, RepeatsKept
  <1>4. ASSUME NEW s \in Sessions, Inject(s) \/ Record(s) \/ AdapterStops(s)
        PROVE  RepeatsFit'
    BY <1>0, <1>4, RepeatsInject, RepeatsRecord, RepeatsAdapterStops
  <1>5. ASSUME NEW t \in Threads,
               \/ \E c \in Contents : CreateThread(t, c) \/ SubmitRevision(t, c)
               \/ \E s \in Sessions : Bind(t, s)
               \/ \E o \in Outcomes, op \in Operations \cup {NoOperation} :
                     SendMessage(t, o, op)
               \/ DeleteThread(t)
               \/ \E s \in Sessions, n \in MessageIds, c \in Contents :
                     ConsumeApprovedRetry(t, s, n, c)
               \/ \E w \in Waiters : Wait(w, t) \/ WaitTimesOut(w, t)
        PROVE  UNCHANGED adapterVars
    BY <1>5 DEF CreateThread, SubmitRevision, Bind, SendMessage, DeleteThread,
                ConsumeApprovedRetry, Wait, WaitTimesOut
  <1>6. ASSUME Crash \/ Start PROVE UNCHANGED adapterVars
    BY <1>6 DEF Crash, Start
  <1>7. ASSUME UNCHANGED adapterVars PROVE RepeatsFit'
    BY <1>1, <1>7 DEF adapterVars
  <1>8. CASE UNCHANGED vars
    BY <1>1, <1>8 DEF vars
  <1>9. QED
    BY <1>2, <1>3, <1>4, <1>5, <1>6, <1>7, <1>8 DEF Next

(* A Message enters a session once, except that each pass cut between the  *)
(* native send and the journal write may repeat one: with every fault,     *)
(* failed writes of the harness-state file included (sendOnce,             *)
(* DeliveredMessageStore.recordDelivered).                                 *)
THEOREM RepeatsAreAccountedFor == Spec => []RepeatsNeedACut
  <1>1. Init => RepeatsFit
    <2> SUFFICES ASSUME Init PROVE RepeatsFit
      OBVIOUS
    <2>1. TypeOK
      BY TypeInit
    <2>2. ASSUME NEW s \in Sessions, NEW t \in Threads
          PROVE  /\ Len(injected[s][t]) = 0
                 /\ cut[s] = 0
                 /\ Underway(s, t) = 0
                 /\ Cardinality(Remembered(s, t)) \in Nat
      BY <2>1, SightingsFinite DEF Init, Underway, Idle
    <2>3. QED
      BY <2>2 DEF Init, RepeatsFit, Idle
  <1>2. AckInv /\ RepeatsFit /\ [Next]_vars => RepeatsFit'
    BY RepeatsStep
  <1>3. AckInv /\ RepeatsFit => RepeatsNeedACut
    <2> SUFFICES ASSUME AckInv, RepeatsFit, NEW s \in Sessions, NEW t \in Threads
                 PROVE  Len(injected[s][t]) <= Cardinality(Sightings(s, t)) + cut[s]
      BY DEF RepeatsNeedACut, Sightings
    <2> DEFINE known == Cardinality(Remembered(s, t))
               seen  == Cardinality(Sightings(s, t))
    <2>1. Len(injected[s][t]) <= known + cut[s] + Underway(s, t)
      BY DEF RepeatsFit
    <2>2. TypeOK
      BY DEF AckInv
    <2>3. known \in Nat /\ seen \in Nat /\ known <= seen
      BY <2>2, SightingsFinite
    <2>4. cut[s] \in Nat /\ Len(injected[s][t]) \in Nat
      BY <2>2 DEF TypeOK
    <2>5. CASE Underway(s, t) = 0
      BY <2>1, <2>3, <2>4, <2>5
    <2>6. CASE Underway(s, t) # 0
      <3> DEFINE n == Foremost(s).message
      <3>1. job[s].step = "record" /\ job[s].thread = t /\ Underway(s, t) = 1
        BY <2>6 DEF Underway
      <3>2. <<t, n>> \notin journal[s] /\ WasInjected(s, t, n)
        BY <3>1 DEF RepeatsFit, AckInv, PassIsHonest, PassOf
      <3>3. n \in Sightings(s, t) /\ n \notin Remembered(s, t)
        BY <3>2 DEF WasInjected, Sightings, Remembered
      <3>4. known # seen
        BY <2>2, <3>3, SightingsFinite, FS_Subset DEF Remembered
      <3>5. QED
        BY <2>1, <2>3, <2>4, <3>1, <3>4
    <2>7. QED
      BY <2>5, <2>6
  <1>4. Spec => []AckInv
    BY AlwaysAckInv
  <1>5. QED
    BY <1>1, <1>2, <1>3, <1>4, PTL DEF Spec

-----------------------------------------------------------------------------
(* Routing state never outlives its Thread, and every delivery can be read *)
(* back.  The invariant is about the file as well as about memory: what a  *)
(* crash leaves in it is what the next process starts from.                *)
Stands(r) == r.status \in {"pending", "resolved"}

Fits(h, r, t) ==
    /\ r.status = "unborn" => h.bindings[t] = <<>> /\ h.deliveries[t] = <<>>
    /\ Stands(r) => \A i \in DOMAIN h.deliveries[t] :
          /\ Bound(h, t, h.deliveries[t][i].session)
          /\ h.deliveries[t][i].message \in DOMAIN r.log

Lives(h, r, t) == h.bindings[t] # <<>> \/ h.deliveries[t] # <<>> => Stands(r)

FitsAll(h, records)  == \A t \in Threads : Fits(h, records[t], t)
LivesAll(h, records) == \A t \in Threads : Lives(h, records[t], t)

ReadInv ==
    /\ TypeOK
    /\ RecordsFit
    /\ FitsAll(mem, thread)
    /\ FitsAll(disk, thread)
    /\ up => LivesAll(mem, thread)

LEMMA ReadInvSuffices == ReadInv => RoutingIsReadable
  BY DEF ReadInv, RoutingIsReadable, FitsAll, LivesAll, Fits, Lives, Stands, Exists, Readable

\* No change of a record takes a Message back that a delivery refers to.
LEMMA RecordMovesFit ==
  ASSUME TypeOK, NEW t \in Threads, RecordMoves(t), NEW h, Fits(h, thread[t], t)
  PROVE  Fits(h, thread'[t], t)
  <1>1. thread[t] \in ThreadRecord
    BY DEF TypeOK
  <1>2. CASE thread'[t] = thread[t]
    BY <1>2
  <1>3. CASE Born(t)
    <2>1. thread[t].status = "unborn" /\ thread'[t].status = "pending"
      BY <1>1, <1>3 DEF Born, ThreadRecord
    <2>2. QED
      BY <2>1 DEF Fits
  <1>4. CASE Reopened(t)
    <2>1. /\ Stands(thread[t]) /\ thread'[t].status = "pending"
          /\ thread'[t].log = thread[t].log
      BY <1>1, <1>4 DEF Reopened, ThreadRecord, Exists, Stands
    <2>2. QED
      BY <2>1 DEF Fits, Stands
  <1>5. CASE Gone(t)
    BY <1>5, UnbornFacts DEF Gone, Fits, Stands
  <1>6. CASE Says(t)
    <2>1. PICK m \in SentMessage :
             /\ thread'[t].log = Append(thread[t].log, m)
             /\ thread'[t].status \in {"pending", "resolved"}
      BY <1>6, SentGrows
    <2>2. thread[t].log \in Seq(SentMessage)
      BY <1>1 DEF ThreadRecord
    <2>3. DOMAIN thread[t].log \subseteq DOMAIN thread'[t].log
      BY <2>1, <2>2
    <2>4. Stands(thread[t])
      BY <1>6 DEF Says, Stands
    <2>5. QED
      BY <2>1, <2>3, <2>4 DEF Fits, Stands
  <1>7. QED
    BY <1>2, <1>3, <1>4, <1>5, <1>6 DEF RecordMoves

LEMMA StepFits ==
  ASSUME TypeOK, [Next]_vars, NEW h, FitsAll(h, thread)
  PROVE  FitsAll(h, thread')
  BY RecordMovesFit, EveryRecordMoves DEF FitsAll

\* A state whose bindings and deliveries name the same sessions and Messages.
SameRouting(h, g) ==
    \A t \in Threads :
        /\ DOMAIN g.bindings[t] = DOMAIN h.bindings[t]
        /\ \A i \in DOMAIN h.bindings[t] : g.bindings[t][i].session = h.bindings[t][i].session
        /\ DOMAIN g.deliveries[t] = DOMAIN h.deliveries[t]
        /\ \A i \in DOMAIN h.deliveries[t] :
              /\ g.deliveries[t][i].session = h.deliveries[t][i].session
              /\ g.deliveries[t][i].message = h.deliveries[t][i].message

LEMMA SameRoutingFits ==
  ASSUME NEW h \in HarnessState, NEW g \in HarnessState, NEW records, SameRouting(h, g)
  PROVE  /\ FitsAll(h, records) => FitsAll(g, records)
         /\ LivesAll(h, records) => LivesAll(g, records)
  <1>1. ASSUME NEW t \in Threads
        PROVE  /\ g.bindings[t] = <<>> <=> h.bindings[t] = <<>>
               /\ g.deliveries[t] = <<>> <=> h.deliveries[t] = <<>>
    <2>1. /\ h.bindings[t] \in Seq(Binding) /\ g.bindings[t] \in Seq(Binding)
          /\ h.deliveries[t] \in Seq(Delivery) /\ g.deliveries[t] \in Seq(Delivery)
      BY DEF HarnessState
    <2>2. Len(h.bindings[t]) = Len(g.bindings[t]) /\ Len(h.deliveries[t]) = Len(g.deliveries[t])
      BY <2>1 DEF SameRouting
    <2>3. QED
      BY <2>1, <2>2
  <1>2. ASSUME NEW t \in Threads, NEW s
        PROVE  Bound(h, t, s) => Bound(g, t, s)
    BY DEF Bound, SameRouting
  <1>3. QED
    BY <1>1, <1>2 DEF FitsAll, LivesAll, Fits, Lives, SameRouting

LEMMA AddBindingFits ==
  ASSUME NEW h \in HarnessState, NEW t \in Threads, NEW s \in Sessions,
         NEW records, Stands(records[t])
  PROVE  /\ FitsAll(h, records) => FitsAll(AddBinding(h, t, s), records)
         /\ LivesAll(h, records) => LivesAll(AddBinding(h, t, s), records)
  <1> DEFINE b == [session |-> s, retry |-> 0]
             g == AddBinding(h, t, s)
  <1>1. CASE Bound(h, t, s)
    BY <1>1 DEF AddBinding
  <1>2. CASE ~Bound(h, t, s)
    <2>1. /\ g.deliveries = h.deliveries
          /\ g.bindings[t] = Append(h.bindings[t], b)
          /\ \A u \in Threads : u # t => g.bindings[u] = h.bindings[u]
      BY <1>2 DEF AddBinding, HarnessState
    <2>2. h.bindings[t] \in Seq(Binding) /\ b \in Binding
      BY DEF HarnessState, Binding
    <2> HIDE DEF g, b
    <2>3. \A i \in DOMAIN h.bindings[t] :
             i \in DOMAIN g.bindings[t] /\ g.bindings[t][i] = h.bindings[t][i]
      BY <2>1, <2>2
    <2>4. ASSUME NEW u \in Threads, NEW r
          PROVE  Bound(h, u, r) => Bound(g, u, r)
      BY <2>1, <2>3 DEF Bound
    <2>5. ASSUME NEW u \in Threads
          PROVE  /\ Fits(h, records[u], u) => Fits(g, records[u], u)
                 /\ Lives(h, records[u], u) => Lives(g, records[u], u)
      <3>1. records[t].status # "unborn"
        BY DEF Stands
      <3>2. QED
        BY <2>1, <2>4, <3>1 DEF Fits, Lives
    <2>6. QED
      BY <2>5 DEF FitsAll, LivesAll, g
  <1>3. QED
    BY <1>1, <1>2

LEMMA SubmitterIsBound ==
  ASSUME NEW h \in HarnessState, NEW t \in Threads, HasSubmitter(h, t)
  PROVE  Bound(h, t, Submitter(h, t))
  <1>1. h.bindings[t] \in Seq(Binding) /\ h.bindings[t] # <<>>
    BY DEF HarnessState, HasSubmitter
  <1>2. 1 \in DOMAIN h.bindings[t]
    BY <1>1
  <1>3. QED
    BY <1>2 DEF Bound, Submitter

LEMMA ReconcileFits ==
  ASSUME NEW h \in HarnessState, NEW t \in Threads, NEW n \in Nat,
         NEW records, Stands(records[t]), n = 0 \/ n \in DOMAIN records[t].log
  PROVE  /\ FitsAll(h, records) => FitsAll(Reconcile(h, t, n), records)
         /\ LivesAll(h, records) => LivesAll(Reconcile(h, t, n), records)
  <1> DEFINE d == [session |-> Submitter(h, t), message |-> n, acked |-> FALSE]
             g == Reconcile(h, t, n)
  <1>1. CASE g = h
    BY <1>1
  <1>2. CASE g # h
    <2>1. n # 0 /\ HasSubmitter(h, t)
      BY <1>2 DEF Reconcile
    <2>2. d \in Delivery
      BY <2>1, SubmitterType DEF Delivery
    <2>3. g = [h EXCEPT !.deliveries[t] = Append(@, d)]
      BY <1>2 DEF Reconcile
    <2>4. /\ g.deliveries[t] = Append(h.deliveries[t], d)
          /\ g.bindings = h.bindings
          /\ \A u \in Threads : u # t => g.deliveries[u] = h.deliveries[u]
      BY <2>3 DEF HarnessState
    <2>5. h.deliveries[t] \in Seq(Delivery)
      BY DEF HarnessState
    <2>6. d.session = Submitter(h, t) /\ d.message = n
      OBVIOUS
    <2> HIDE DEF d, g
    <2>7. \A i \in DOMAIN g.deliveries[t] :
             \/ i \in DOMAIN h.deliveries[t] /\ g.deliveries[t][i] = h.deliveries[t][i]
             \/ g.deliveries[t][i] = d
      BY <2>2, <2>4, <2>5
    <2>8. \A u \in Threads : \A r : Bound(g, u, r) <=> Bound(h, u, r)
      BY <2>4 DEF Bound
    <2>9. Bound(h, t, Submitter(h, t))
      BY <2>1, SubmitterIsBound
    <2>10. ASSUME NEW u \in Threads
           PROVE  /\ Fits(h, records[u], u) => Fits(g, records[u], u)
                  /\ Lives(h, records[u], u) => Lives(g, records[u], u)
      <3>1. CASE u = t
        <4>1. records[t].status # "unborn"
          BY DEF Stands
        <4>2. QED
          BY <2>1, <2>6, <2>7, <2>8, <2>9, <3>1, <4>1 DEF Fits, Lives
      <3>2. CASE u # t
        BY <2>4, <2>8, <3>2 DEF Fits, Lives
      <3>3. QED
        BY <3>1, <3>2
    <2>11. QED
      BY <2>10 DEF FitsAll, LivesAll, g
  <1>3. QED
    BY <1>1, <1>2

LEMMA DropThreadFits ==
  ASSUME NEW h \in HarnessState, NEW t \in Threads, NEW records, NEW others,
         \A u \in Threads : u # t => records[u] = others[u]
  PROVE  /\ FitsAll(h, records) => FitsAll(DropThread(h, t), records)
         /\ LivesAll(h, others) => LivesAll(DropThread(h, t), records)
  <1>1. /\ DropThread(h, t).deliveries[t] = <<>> /\ DropThread(h, t).bindings[t] = <<>>
        /\ \A u \in Threads : u # t =>
              /\ DropThread(h, t).deliveries[u] = h.deliveries[u]
              /\ DropThread(h, t).bindings[u] = h.bindings[u]
    BY DEF DropThread, HarnessState
  <1>2. QED
    BY <1>1 DEF FitsAll, LivesAll, Fits, Lives, Bound

LEMMA StartUpFits ==
  ASSUME ReadInv, NEW kept \in SUBSET Threads, NEW records,
         \A t \in kept : records[t] = thread[t] /\ Exists(t)
  PROVE  LET g == WithoutOrphans(Reconciled, kept)
         IN  FitsAll(g, records) /\ LivesAll(g, records)
  <1> DEFINE g == WithoutOrphans(Reconciled, kept)
             r(t) == Reconcile(disk, t, thread[t].message)
  <1>0. disk \in HarnessState /\ FitsAll(disk, thread)
    BY DEF ReadInv, TypeOK
  <1>1. ASSUME NEW t \in kept
        PROVE  /\ g.bindings[t] = r(t).bindings[t]
               /\ g.deliveries[t] = r(t).deliveries[t]
               /\ Fits(r(t), thread[t], t)
               /\ Stands(records[t])
               /\ records[t] = thread[t]
    <2>1. thread[t] \in ThreadRecord /\ RecordFits(thread[t]) /\ t \in Threads
      BY DEF ReadInv, TypeOK, RecordsFit
    <2>2. thread[t].message \in Nat /\ thread[t].log \in Seq(SentMessage)
      BY <2>1 DEF ThreadRecord
    <2>3. thread[t].message = 0 \/ thread[t].message \in DOMAIN thread[t].log
      BY <2>1, <2>2 DEF RecordFits
    <2>4. Stands(thread[t]) /\ records[t] = thread[t] /\ Exists(t)
      BY DEF Exists, Stands
    <2>5. FitsAll(r(t), thread) /\ r(t).bindings = disk.bindings
      BY <1>0, <2>1, <2>2, <2>3, <2>4, ReconcileFits, ReconcileType
    <2>6. g.bindings[t] = disk.bindings[t] /\ g.deliveries[t] = r(t).deliveries[t]
      BY <2>1, <2>4 DEF WithoutOrphans, Reconciled
    <2>7. QED
      BY <2>1, <2>4, <2>5, <2>6 DEF FitsAll
  <1>2. ASSUME NEW t \in Threads, t \notin kept
        PROVE  g.bindings[t] = <<>> /\ g.deliveries[t] = <<>>
    BY <1>2 DEF WithoutOrphans
  <1> HIDE DEF g, r
  <1>3. FitsAll(g, records)
    <2> SUFFICES ASSUME NEW t \in Threads PROVE Fits(g, records[t], t)
      BY DEF FitsAll
    <2>1. CASE t \in kept
      <3>1. \A s : Bound(r(t), t, s) => Bound(g, t, s)
        BY <1>1, <2>1 DEF Bound
      <3>2. QED
        BY <1>1, <2>1, <3>1 DEF Fits
    <2>2. CASE t \notin kept
      BY <1>2, <2>2 DEF Fits
    <2>3. QED
      BY <2>1, <2>2
  <1>4. LivesAll(g, records)
    BY <1>1, <1>2 DEF LivesAll, Lives
  <1>5. QED
    BY <1>3, <1>4 DEF g

LEMMA ReadRest ==
  ASSUME ReadInv, [Next]_vars, FitsAll(mem', thread'), FitsAll(disk', thread'),
         up' => LivesAll(mem', thread')
  PROVE  ReadInv'
  <1>1. TypeOK' /\ RecordsFit'
    BY TypeNext, RecordsFitStep DEF ReadInv
  <1>2. FitsAll(mem, thread)' /\ FitsAll(disk, thread)' /\ (up => LivesAll(mem, thread))'
    BY DEF FitsAll, LivesAll, Fits, Lives, Stands, Bound
  <1>3. QED
    BY <1>1, <1>2 DEF ReadInv

\* A turn that leaves the store's memory and file alone and removes no Thread.
LEMMA ReadStoreKept ==
  ASSUME ReadInv, [Next]_vars, UNCHANGED <<mem, disk>>, up' => up,
         \A t \in Threads : Stands(thread[t]) => Stands(thread'[t])
  PROVE  ReadInv'
  <1>1. FitsAll(mem, thread') /\ FitsAll(disk, thread')
    BY StepFits DEF ReadInv
  <1>2. up' => LivesAll(mem, thread')
    BY DEF ReadInv, LivesAll, Lives
  <1>3. QED
    BY <1>1, <1>2, ReadRest

LEMMA ReadBind ==
  ASSUME ReadInv, [Next]_vars, NEW t \in Threads, NEW s \in Sessions, Bind(t, s)
  PROVE  ReadInv'
  <1> DEFINE n == thread[t].message
             bound == AddBinding(mem, t, s)
             full == Reconcile(bound, t, n)
             saved == IF bound = mem THEN disk ELSE bound
  <1>1. /\ mem \in HarnessState /\ disk \in HarnessState
        /\ FitsAll(mem, thread) /\ FitsAll(disk, thread)
        /\ thread[t] \in ThreadRecord /\ RecordFits(thread[t])
    BY DEF ReadInv, TypeOK, RecordsFit
  <1>2. up /\ Exists(t) /\ UNCHANGED thread
    BY DEF Bind
  <1>3. Stands(thread[t]) /\ LivesAll(mem, thread)
    BY <1>2 DEF Exists, Stands, ReadInv
  <1>4. n \in Nat /\ (n = 0 \/ n \in DOMAIN thread[t].log)
    <2>1. thread[t].log \in Seq(SentMessage) /\ n \in Nat
      BY <1>1 DEF ThreadRecord
    <2>2. QED
      BY <1>1, <2>1 DEF RecordFits
  <1>5. bound \in HarnessState /\ FitsAll(bound, thread) /\ LivesAll(bound, thread)
    BY <1>1, <1>3, AddBindingType, AddBindingFits
  <1>6. FitsAll(full, thread) /\ LivesAll(full, thread)
    BY <1>3, <1>4, <1>5, ReconcileFits
  <1>7. \/ mem' = full /\ disk' \in {disk, full}
        \/ mem' = bound /\ disk' = disk
        \/ mem' = full /\ disk' \in {disk, bound}
        \/ mem' = bound /\ disk' = bound
    BY DEF Bind, Persist, PersistFails, DieWith
  <1> HIDE DEF n, bound, full, saved
  <1>8. QED
    BY <1>1, <1>2, <1>5, <1>6, <1>7, ReadRest

LEMMA ReadSendMessage ==
  ASSUME ReadInv, [Next]_vars, NEW t \in Threads, NEW o \in Outcomes,
         NEW op \in Operations \cup {NoOperation}, SendMessage(t, o, op)
  PROVE  ReadInv'
  <1> DEFINE n == Len(thread[t].log) + 1
             full == Reconcile(mem, t, n)
  <1>1. /\ thread \in [Threads -> ThreadRecord]
        /\ mem \in HarnessState /\ disk \in HarnessState
    BY DEF ReadInv, TypeOK
  <1>2. FitsAll(mem, thread') /\ FitsAll(disk, thread')
    BY StepFits DEF ReadInv
  <1>3. thread[t].log \in Seq(SentMessage)
    BY <1>1 DEF ThreadRecord
  <1>4. Says(t) /\ \A u \in Threads : u # t => thread'[u] = thread[u]
    BY <1>1 DEF SendMessage, Says
  <1>5. Stands(thread'[t]) /\ n \in Nat /\ n \in DOMAIN thread'[t].log
    <2>1. PICK m \in SentMessage :
             /\ thread'[t].log = Append(thread[t].log, m)
             /\ thread'[t].status \in {"pending", "resolved"}
      BY <1>4, SentGrows DEF ReadInv
    <2>2. QED
      BY <1>3, <2>1 DEF Stands
  <1>6. up
    BY DEF SendMessage
  <1>7. LivesAll(mem, thread')
    BY <1>4, <1>5, <1>6 DEF ReadInv, LivesAll, Lives
  <1> HIDE DEF n
  <1>8. FitsAll(full, thread') /\ LivesAll(full, thread')
    BY <1>1, <1>2, <1>5, <1>7, ReconcileFits
  <1>9. \/ mem' = full /\ disk' \in {disk, full}
        \/ mem' = full /\ disk' = disk
        \/ mem' = disk /\ disk' = disk /\ up' = FALSE
    BY DEF SendMessage, Persist, PersistFails, DieWith, n
  <1> HIDE DEF full
  <1>10. QED
    BY <1>2, <1>8, <1>9, ReadRest

LEMMA ReadDeleteThread ==
  ASSUME ReadInv, [Next]_vars, NEW t \in Threads, DeleteThread(t)
  PROVE  ReadInv'
  <1> DEFINE g == DropThread(mem, t)
  <1>1. /\ thread \in [Threads -> ThreadRecord]
        /\ mem \in HarnessState /\ up
    BY DEF ReadInv, TypeOK, DeleteThread
  <1>2. FitsAll(mem, thread') /\ FitsAll(disk, thread')
    BY StepFits DEF ReadInv
  <1>3. \A u \in Threads : u # t => thread'[u] = thread[u]
    BY <1>1 DEF DeleteThread
  <1>4. FitsAll(g, thread') /\ LivesAll(g, thread')
    BY <1>1, <1>2, <1>3, DropThreadFits DEF ReadInv
  <1>5. \/ mem' = g /\ disk' \in {disk, g}
        \/ mem' = g /\ disk' = disk
        \/ mem' = disk /\ disk' = disk /\ up' = FALSE
    BY DEF DeleteThread, Persist, PersistFails, DieWith
  <1> HIDE DEF g
  <1>6. QED
    BY <1>2, <1>4, <1>5, ReadRest

LEMMA RetryKeepsRouting ==
  ASSUME NEW h \in HarnessState, NEW t \in Threads, NEW n
  PROVE  SameRouting(h, [h EXCEPT !.bindings[t][1].retry = n])
  <1> DEFINE g == [h EXCEPT !.bindings[t][1].retry = n]
  <1>1. g.deliveries = h.deliveries
    BY DEF HarnessState
  <1>2. \A u \in Threads : u # t => g.bindings[u] = h.bindings[u]
    BY DEF HarnessState
  <1>3. g.bindings[t] = [h.bindings[t] EXCEPT ![1] = [h.bindings[t][1] EXCEPT !.retry = n]]
    BY DEF HarnessState
  <1>4. h.bindings[t] \in Seq(Binding)
    BY DEF HarnessState
  <1>5. 1 \in DOMAIN h.bindings[t] =>
           [h.bindings[t][1] EXCEPT !.retry = n].session = h.bindings[t][1].session
    <2>1. 1 \in DOMAIN h.bindings[t] => h.bindings[t][1] \in Binding
      BY <1>4
    <2>2. QED
      BY <2>1 DEF Binding
  <1> DEFINE b == [h.bindings[t][1] EXCEPT !.retry = n]
  <1>6. g.bindings[t] = [h.bindings[t] EXCEPT ![1] = b]
    BY <1>3
  <1> HIDE DEF g, b
  <1>7. /\ DOMAIN g.bindings[t] = DOMAIN h.bindings[t]
        /\ \A i \in DOMAIN h.bindings[t] :
              g.bindings[t][i] = IF i = 1 THEN b ELSE h.bindings[t][i]
    BY <1>4, <1>6
  <1>8. 1 \in DOMAIN h.bindings[t] => b.session = h.bindings[t][1].session
    BY <1>5 DEF b
  <1>9. QED
    BY <1>1, <1>2, <1>7, <1>8 DEF SameRouting, g

LEMMA AckedKeepsRouting ==
  ASSUME NEW h \in HarnessState, NEW t \in Threads, NEW i \in DOMAIN h.deliveries[t]
  PROVE  SameRouting(h, [h EXCEPT !.deliveries[t][i].acked = TRUE])
  <1> DEFINE g == [h EXCEPT !.deliveries[t][i].acked = TRUE]
             d == [h.deliveries[t][i] EXCEPT !.acked = TRUE]
  <1>1. g.bindings = h.bindings
    BY DEF HarnessState
  <1>2. \A u \in Threads : u # t => g.deliveries[u] = h.deliveries[u]
    BY DEF HarnessState
  <1>3. g.deliveries[t] = [h.deliveries[t] EXCEPT ![i] = d]
    BY DEF HarnessState
  <1>4. h.deliveries[t] \in Seq(Delivery)
    BY DEF HarnessState
  <1>5. /\ d.session = h.deliveries[t][i].session
        /\ d.message = h.deliveries[t][i].message
    <2>1. h.deliveries[t][i] \in Delivery
      BY <1>4
    <2>2. QED
      BY <2>1 DEF Delivery
  <1> HIDE DEF g, d
  <1>6. /\ DOMAIN g.deliveries[t] = DOMAIN h.deliveries[t]
        /\ \A j \in DOMAIN h.deliveries[t] :
              g.deliveries[t][j] = IF j = i THEN d ELSE h.deliveries[t][j]
    BY <1>3, <1>4
  <1>7. QED
    BY <1>1, <1>2, <1>5, <1>6 DEF SameRouting, g

LEMMA ReadConsumeApprovedRetry ==
  ASSUME ReadInv, [Next]_vars, NEW t \in Threads, NEW s \in Sessions,
         NEW n \in MessageIds, NEW c \in Contents, ConsumeApprovedRetry(t, s, n, c)
  PROVE  ReadInv'
  <1> DEFINE used == [mem EXCEPT !.bindings[t][1].retry = n]
  <1>1. up /\ UNCHANGED thread
    BY DEF ConsumeApprovedRetry
  <1>2. /\ mem' = used
        /\ disk' \in {disk, used}
    BY DEF ConsumeApprovedRetry, Persist, PersistFails
  <1>3. SameRouting(mem, used) /\ mem \in HarnessState
    BY RetryKeepsRouting DEF ReadInv, TypeOK
  <1> HIDE DEF used
  <1>4. used \in HarnessState
    BY <1>2, TypeNext DEF ReadInv, TypeOK
  <1>5. FitsAll(used, thread) /\ LivesAll(used, thread)
    BY <1>1, <1>3, <1>4, SameRoutingFits DEF ReadInv
  <1>6. QED
    BY <1>1, <1>2, <1>5, ReadRest DEF ReadInv

LEMMA ReadAcknowledge ==
  ASSUME ReadInv, [Next]_vars, NEW s \in Sessions, Acknowledge(s)
  PROVE  ReadInv'
  <1> DEFINE t == job[s].thread
             d == Foremost(s)
             done == [mem EXCEPT !.deliveries[t][d.place].acked = TRUE]
  <1>1. up /\ UNCHANGED <<up, thread>>
    BY DEF Acknowledge
  <1>2. CASE UNCHANGED <<mem, disk>>
    BY <1>1, <1>2, ReadStoreKept
  <1>3. CASE /\ d.place \in DOMAIN mem.deliveries[t]
             /\ mem' = done /\ disk' \in {disk, done}
    <2>1. t \in Threads /\ mem \in HarnessState
      BY ForemostType DEF ReadInv, TypeOK, Acknowledge, Busy, Job
    <2>2. SameRouting(mem, done)
      BY <1>3, <2>1, AckedKeepsRouting
    <2> HIDE DEF done, t, d
    <2>3. done \in HarnessState
      BY <1>3, TypeNext DEF ReadInv, TypeOK
    <2>4. FitsAll(done, thread) /\ LivesAll(done, thread)
      BY <1>1, <2>1, <2>2, <2>3, SameRoutingFits DEF ReadInv
    <2>5. QED
      BY <1>1, <1>3, <2>4, ReadRest DEF ReadInv
  <1>4. QED
    BY <1>2, <1>3 DEF Acknowledge, Persist, PersistFails

LEMMA ReadStart ==
  ASSUME ReadInv, [Next]_vars, Start
  PROVE  ReadInv'
  <1>1. PICK expired \in SUBSET Prunable :
           LET kept  == {t \in Threads : Exists(t)} \ expired
               state == WithoutOrphans(Reconciled, kept)
           IN  /\ thread' = [t \in Threads |->
                     IF t \in expired THEN [Unborn EXCEPT !.status = "deleted"]
                     ELSE thread[t]]
               /\ mem' = state
               /\ disk' = state
    BY DEF Start
  <1> DEFINE kept == {t \in Threads : Exists(t)} \ expired
             state == WithoutOrphans(Reconciled, kept)
  <1>2. kept \in SUBSET Threads /\ \A t \in kept : thread'[t] = thread[t] /\ Exists(t)
    BY <1>1
  <1>3. FitsAll(state, thread') /\ LivesAll(state, thread')
    <2> HIDE DEF kept
    <2>1. QED
      BY <1>2, StartUpFits
  <1>4. mem' = state /\ disk' = state
    BY <1>1
  <1> HIDE DEF kept, state
  <1>5. QED
    BY <1>3, <1>4, ReadRest

LEMMA ReadStep == ReadInv /\ [Next]_vars => ReadInv'
  <1> SUFFICES ASSUME ReadInv, [Next]_vars PROVE ReadInv'
    OBVIOUS
  <1>1. ASSUME UNCHANGED <<up, thread, mem, disk>> PROVE ReadInv'
    BY <1>1, ReadStoreKept
  <1>2. ASSUME NEW t \in Threads, NEW c \in Contents,
               CreateThread(t, c) \/ SubmitRevision(t, c)
        PROVE  ReadInv'
    <2>1. UNCHANGED <<up, mem, disk>>
      BY <1>2 DEF CreateThread, SubmitRevision
    <2>2. thread \in [Threads -> ThreadRecord]
      BY DEF ReadInv, TypeOK
    <2>3. \A u \in Threads : thread'[u] = thread[u] \/ thread'[u].status = "pending"
      BY <1>2, <2>2 DEF CreateThread, SubmitRevision, ThreadRecord
    <2>4. QED
      BY <2>1, <2>3, ReadStoreKept DEF Stands
  <1>3. ASSUME NEW t \in Threads, NEW s \in Sessions, Bind(t, s) PROVE ReadInv'
    BY <1>3, ReadBind
  <1>4. ASSUME NEW t \in Threads, NEW s \in Sessions, Fetch(s, t) PROVE ReadInv'
    BY <1>1, <1>4 DEF Fetch, daemonVars
  <1>5. ASSUME NEW t \in Threads, NEW o \in Outcomes,
               NEW op \in Operations \cup {NoOperation}, SendMessage(t, o, op)
        PROVE  ReadInv'
    BY <1>5, ReadSendMessage
  <1>6. ASSUME NEW t \in Threads, DeleteThread(t) PROVE ReadInv'
    BY <1>6, ReadDeleteThread
  <1>7. ASSUME NEW t \in Threads, NEW s \in Sessions, NEW n \in MessageIds,
               NEW c \in Contents, ConsumeApprovedRetry(t, s, n, c)
        PROVE  ReadInv'
    BY <1>7, ReadConsumeApprovedRetry
  <1>8. ASSUME NEW t \in Threads, NEW w \in Waiters, Wait(w, t) \/ WaitTimesOut(w, t)
        PROVE  ReadInv'
    BY <1>1, <1>8 DEF Wait, WaitTimesOut
  <1>9. CASE Crash
    <2>1. /\ UNCHANGED thread /\ mem' = disk /\ disk' = disk /\ up' = FALSE
          /\ FitsAll(disk, thread)
      BY <1>9 DEF Crash, DieWith, ReadInv
    <2>2. QED
      BY <2>1, ReadRest
  <1>10. CASE Start
    BY <1>10, ReadStart
  <1>11. ASSUME NEW s \in Sessions, Inject(s) \/ Record(s) \/ AdapterStops(s)
         PROVE  ReadInv'
    BY <1>1, <1>11 DEF Inject, Record, AdapterStops, daemonVars
  <1>12. ASSUME NEW s \in Sessions, Acknowledge(s) PROVE ReadInv'
    BY <1>12, ReadAcknowledge
  <1>13. CASE UNCHANGED vars
    BY <1>1, <1>13 DEF vars
  <1>14. QED
    BY <1>2, <1>3, <1>4, <1>5, <1>6, <1>7, <1>8, <1>9, <1>10, <1>11, <1>12, <1>13 DEF Next

LEMMA AlwaysReadInv == Spec => []ReadInv
  <1>1. Init => ReadInv
    <2> SUFFICES ASSUME Init PROVE ReadInv
      OBVIOUS
    <2>1. FitsAll(mem, thread) /\ FitsAll(disk, thread) /\ LivesAll(mem, thread)
      BY DEF Init, NoHarnessState, FitsAll, LivesAll, Fits, Lives
    <2>2. QED
      BY <2>1, TypeInit, RecordsFitInit DEF ReadInv
  <1>2. QED
    BY <1>1, ReadStep, PTL DEF Spec

(* deliveryPending never fails with not_found: routing state never         *)
(* outlives its Thread and every delivery's Message is in the history,     *)
(* with every fault: what a failed write or a crash leaves in the file is  *)
(* reconciled and swept before the next process answers (api.ts start-up). *)
THEOREM EveryDeliveryCanBeRead == Spec => []RoutingIsReadable
  BY AlwaysReadInv, ReadInvSuffices, PTL

-----------------------------------------------------------------------------
(* An approved retry is granted once.  What keeps the second grant away is *)
(* the mark on the submitter's binding, in memory and in the file, for as  *)
(* long as the approved Message is the current one.                        *)
GrantStands(g) ==
    /\ thread[g.thread].status # "unborn"
    /\ <<g.thread, g.message>> \in journal[g.session]
    /\ Exists(g.thread) =>
          /\ g.message \in DOMAIN thread[g.thread].log
          /\ thread[g.thread].log[g.message].outcome = "approved"
          /\ thread[g.thread].log[g.message].content = g.content
          /\ thread[g.thread].message = g.message =>
                \A h \in {mem, disk} :
                    /\ HasSubmitter(h, g.thread)
                    /\ h.bindings[g.thread][1].retry = g.message

GrantsAreUnique ==
    \A i, j \in DOMAIN granted :
        /\ granted[i].thread = granted[j].thread
        /\ granted[i].message = granted[j].message
        => i = j

GrantInv ==
    /\ AckInv
    /\ RecordsFit
    /\ GrantsAreUnique
    /\ \A i \in DOMAIN granted : GrantStands(granted[i])

LEMMA GrantInvSuffices == GrantInv => RetryIsEarned
  BY DEF GrantInv, GrantsAreUnique, GrantStands, RetryIsEarned

\* The submitter's binding survives in `h`, its mark too unless it is now
\* the current Message's.
Follows(h, t) ==
    \E old \in {mem, disk} :
        HasSubmitter(old, t) =>
            /\ HasSubmitter(h, t)
            /\ h.bindings[t][1].retry \in {old.bindings[t][1].retry, thread[t].message}

MarksKept ==
    \A t \in Threads : Exists(t)' => Follows(mem', t) /\ Follows(disk', t)

LEMMA SameBindingsFollow ==
  ASSUME NEW h, NEW t, h.bindings[t] = mem.bindings[t] \/ h.bindings[t] = disk.bindings[t]
  PROVE  Follows(h, t)
  BY DEF Follows, HasSubmitter

LEMMA AddBindingKeepsFirst ==
  ASSUME NEW h \in HarnessState, NEW t \in Threads, NEW s \in Sessions, NEW u \in Threads,
         HasSubmitter(h, u)
  PROVE  /\ HasSubmitter(AddBinding(h, t, s), u)
         /\ AddBinding(h, t, s).bindings[u][1] = h.bindings[u][1]
  <1> DEFINE b == [session |-> s, retry |-> 0]
             g == AddBinding(h, t, s)
  <1>1. CASE Bound(h, t, s)
    BY <1>1 DEF AddBinding
  <1>2. CASE ~Bound(h, t, s)
    <2>1. /\ g.bindings[t] = Append(h.bindings[t], b)
          /\ \A v \in Threads : v # t => g.bindings[v] = h.bindings[v]
      BY <1>2 DEF AddBinding, HarnessState
    <2>2. /\ h.bindings[t] \in Seq(Binding) /\ h.bindings[u] \in Seq(Binding)
          /\ h.bindings[u] # <<>> /\ b \in Binding
      BY DEF HarnessState, Binding, HasSubmitter
    <2> HIDE DEF b, g
    <2>3. u = t => /\ Append(h.bindings[t], b) # <<>>
                   /\ Append(h.bindings[t], b)[1] = h.bindings[t][1]
      BY <2>2
    <2>4. QED
      BY <2>1, <2>2, <2>3 DEF HasSubmitter, g
  <1>3. QED
    BY <1>1, <1>2

LEMMA BindMarks ==
  ASSUME TypeOK, NEW t \in Threads, NEW s \in Sessions, Bind(t, s)
  PROVE  MarksKept
  <1> DEFINE n == thread[t].message
             bound == AddBinding(mem, t, s)
             full == Reconcile(bound, t, n)
  <1>1. mem \in HarnessState /\ n \in Nat
    BY DEF TypeOK, ThreadRecord
  <1>2. bound \in HarnessState /\ full.bindings = bound.bindings
    BY <1>1, AddBindingType, ReconcileType
  <1>3. \A u \in Threads : Follows(bound, u)
    BY <1>1, AddBindingKeepsFirst DEF Follows
  <1>4. \A u \in Threads : Follows(full, u)
    <2> HIDE DEF full, bound
    <2>1. QED
      BY <1>2, <1>3 DEF Follows, HasSubmitter
  <1>5. /\ mem' \in {full, bound}
        /\ disk' \in {disk, full, bound}
    BY DEF Bind, Persist, PersistFails, DieWith
  <1> HIDE DEF full, bound
  <1>6. \A u \in Threads : Follows(mem', u) /\ Follows(disk', u)
    BY <1>3, <1>4, <1>5, SameBindingsFollow
  <1>7. QED
    BY <1>6 DEF MarksKept

LEMMA RetryMarks ==
  ASSUME TypeOK, NEW t \in Threads, NEW s \in Sessions,
         NEW n \in MessageIds, NEW c \in Contents, ConsumeApprovedRetry(t, s, n, c)
  PROVE  LET used == [mem EXCEPT !.bindings[t][1].retry = n]
         IN  /\ \A u \in Threads : Follows(used, u)
             /\ HasSubmitter(used, t)
             /\ used.bindings[t][1].retry = n
  <1> DEFINE used == [mem EXCEPT !.bindings[t][1].retry = n]
             b == [mem.bindings[t][1] EXCEPT !.retry = n]
  <1>1. /\ mem \in HarnessState
        /\ mem.bindings[t] \in Seq(Binding) /\ mem.bindings[t] # <<>>
        /\ thread[t].message = n
    BY DEF TypeOK, HarnessState, ConsumeApprovedRetry, HasSubmitter
  <1>2. mem.bindings[t][1] \in Binding
    BY <1>1
  <1>3. b.retry = n
    BY <1>2 DEF Binding
  <1>4. /\ used.bindings[t] = [mem.bindings[t] EXCEPT ![1] = b]
        /\ \A u \in Threads : u # t => used.bindings[u] = mem.bindings[u]
    BY <1>1 DEF HarnessState
  <1> HIDE DEF used, b
  <1>5. used.bindings[t] # <<>> /\ used.bindings[t][1] = b
    BY <1>1, <1>4
  <1>6. Follows(used, t)
    BY <1>1, <1>3, <1>5 DEF Follows, HasSubmitter
  <1>7. \A u \in Threads : u # t => Follows(used, u)
    BY <1>4, SameBindingsFollow
  <1>8. QED
    BY <1>3, <1>5, <1>6, <1>7 DEF HasSubmitter, used

LEMMA EveryStepKeepsMarks ==
  ASSUME TypeOK, [Next]_vars
  PROVE  MarksKept
  <1>0. /\ thread \in [Threads -> ThreadRecord]
        /\ mem \in HarnessState /\ disk \in HarnessState
    BY DEF TypeOK
  <1>1. ASSUME mem'.bindings \in {mem.bindings, disk.bindings},
               disk'.bindings \in {mem.bindings, disk.bindings}
        PROVE  MarksKept
    BY <1>1, SameBindingsFollow DEF MarksKept
  <1>2. ASSUME UNCHANGED <<mem, disk>> PROVE MarksKept
    BY <1>1, <1>2
  <1>3. ASSUME NEW t \in Threads, NEW c \in Contents,
               CreateThread(t, c) \/ SubmitRevision(t, c)
        PROVE  MarksKept
    BY <1>2, <1>3 DEF CreateThread, SubmitRevision
  <1>4. ASSUME NEW t \in Threads, NEW s \in Sessions, Bind(t, s) \/ Fetch(s, t)
        PROVE  MarksKept
    BY <1>2, <1>4, BindMarks DEF Fetch, daemonVars
  <1>5. ASSUME NEW t \in Threads, NEW o \in Outcomes,
               NEW op \in Operations \cup {NoOperation}, SendMessage(t, o, op)
        PROVE  MarksKept
    <2> DEFINE full == Reconcile(mem, t, Len(thread[t].log) + 1)
    <2>1. Len(thread[t].log) + 1 \in Nat
      BY <1>0 DEF ThreadRecord
    <2>2. full.bindings = mem.bindings
      BY <1>0, <2>1, ReconcileType
    <2>3. mem' \in {full, disk} /\ disk' \in {disk, full}
      BY <1>5 DEF SendMessage, Persist, PersistFails, DieWith
    <2> HIDE DEF full
    <2>4. QED
      BY <1>1, <2>2, <2>3
  <1>6. ASSUME NEW t \in Threads, DeleteThread(t)
        PROVE  MarksKept
    <2> DEFINE g == DropThread(mem, t)
    <2>1. \A u \in Threads : u # t => g.bindings[u] = mem.bindings[u]
      BY <1>0 DEF DropThread, HarnessState
    <2>2. mem' \in {g, disk} /\ disk' \in {disk, g}
      BY <1>6 DEF DeleteThread, Persist, PersistFails, DieWith
    <2>3. thread'[t] = [Unborn EXCEPT !.status = "deleted"]
      BY <1>0, <1>6 DEF DeleteThread
    <2>4. ~Exists(t)'
      <3>1. thread'[t].status = "deleted"
        BY <2>3, UnbornFacts
      <3>2. QED
        BY <3>1 DEF Exists
    <2> HIDE DEF g
    <2>5. \A u \in Threads : u # t => Follows(mem', u) /\ Follows(disk', u)
      BY <2>1, <2>2, SameBindingsFollow
    <2>6. QED
      BY <2>4, <2>5 DEF MarksKept
  <1>7. ASSUME NEW t \in Threads, NEW s \in Sessions, NEW n \in MessageIds,
               NEW c \in Contents, ConsumeApprovedRetry(t, s, n, c)
        PROVE  MarksKept
    <2> DEFINE used == [mem EXCEPT !.bindings[t][1].retry = n]
    <2>1. mem' = used /\ disk' \in {disk, used}
      BY <1>7 DEF ConsumeApprovedRetry, Persist, PersistFails
    <2>2. \A u \in Threads : Follows(used, u)
      BY <1>7, RetryMarks
    <2> HIDE DEF used
    <2>3. \A u \in Threads : Follows(mem', u) /\ Follows(disk', u)
      BY <2>1, <2>2, SameBindingsFollow
    <2>4. QED
      BY <2>3 DEF MarksKept
  <1>8. ASSUME NEW t \in Threads, NEW w \in Waiters, Wait(w, t) \/ WaitTimesOut(w, t)
        PROVE  MarksKept
    BY <1>2, <1>8 DEF Wait, WaitTimesOut
  <1>9. CASE Crash
    BY <1>1, <1>9 DEF Crash, DieWith
  <1>10. CASE Start
    <2>1. PICK expired \in SUBSET Prunable :
             LET kept  == {t \in Threads : Exists(t)} \ expired
                 state == WithoutOrphans(Reconciled, kept)
             IN  /\ thread' = [t \in Threads |->
                       IF t \in expired THEN [Unborn EXCEPT !.status = "deleted"]
                       ELSE thread[t]]
                 /\ mem' = state
                 /\ disk' = state
      BY <1>10 DEF Start
    <2> DEFINE kept == {t \in Threads : Exists(t)} \ expired
               state == WithoutOrphans(Reconciled, kept)
    <2>2. ASSUME NEW u \in Threads, Exists(u)'
          PROVE  u \in kept
      BY <2>1, <2>2, UnbornFacts DEF Exists
    <2>3. \A u \in kept : state.bindings[u] = disk.bindings[u]
      BY DEF WithoutOrphans, Reconciled
    <2>4. mem' = state /\ disk' = state
      BY <2>1
    <2> HIDE DEF kept, state
    <2>5. QED
      BY <2>2, <2>3, <2>4, SameBindingsFollow DEF MarksKept
  <1>11. ASSUME NEW s \in Sessions, Inject(s) \/ Record(s) \/ AdapterStops(s)
         PROVE  MarksKept
    BY <1>2, <1>11 DEF Inject, Record, AdapterStops, daemonVars
  <1>12. ASSUME NEW s \in Sessions, Acknowledge(s)
         PROVE  MarksKept
    <2> DEFINE done == [mem EXCEPT !.deliveries[job[s].thread][Foremost(s).place].acked = TRUE]
    <2>1. mem' \in {mem, done} /\ disk' \in {disk, done}
      BY <1>12 DEF Acknowledge, Persist, PersistFails
    <2>2. done.bindings = mem.bindings
      BY <1>0 DEF HarnessState
    <2> HIDE DEF done
    <2>3. QED
      BY <1>1, <2>1, <2>2
  <1>13. CASE UNCHANGED vars
    BY <1>2, <1>13 DEF vars
  <1>14. QED
    BY <1>3, <1>4, <1>5, <1>6, <1>7, <1>8, <1>9, <1>10, <1>11, <1>12, <1>13 DEF Next

\* A grant that stands goes on standing.
LEMMA GrantGoesOnStanding ==
  ASSUME TypeOK, [Next]_vars, \A s \in Sessions : journal[s] \subseteq journal'[s],
         NEW g \in Grant, GrantStands(g)
  PROVE  GrantStands(g)'
  <1> DEFINE t == g.thread
  <1>1. t \in Threads /\ g.session \in Sessions
    BY DEF Grant
  <1>2. RecordMoves(t) /\ thread[t] \in ThreadRecord
    BY <1>1, EveryRecordMoves DEF TypeOK
  <1>3. thread[t].log \in Seq(SentMessage)
    BY <1>2 DEF ThreadRecord
  <1>4. thread[t].status # "unborn" /\ <<t, g.message>> \in journal'[g.session]
    BY <1>1 DEF GrantStands
  <1>5. (Follows(mem', t) /\ Follows(disk', t)) \/ ~Exists(t)'
    BY <1>1, EveryStepKeepsMarks DEF MarksKept
  <1>6. CASE Gone(t)
    <2>1. thread'[t].status = "deleted"
      BY <1>6, UnbornFacts DEF Gone
    <2>2. QED
      BY <1>4, <2>1 DEF GrantStands, Exists
  <1>7. CASE Born(t)
    BY <1>4, <1>7 DEF Born
  <1>8. CASE thread'[t] = thread[t]
    <2>1. CASE ~Exists(t)
      BY <1>4, <1>8, <2>1 DEF GrantStands, Exists
    <2>2. CASE Exists(t)
      <3>1. Exists(t)'
        BY <1>8, <2>2 DEF Exists
      <3>2. ASSUME thread[t].message = g.message, NEW h, Follows(h, t)
            PROVE  HasSubmitter(h, t) /\ h.bindings[t][1].retry = g.message
        BY <2>2, <3>2 DEF Follows, GrantStands
      <3>3. thread'[t].message = g.message =>
              \A h \in {mem', disk'} : HasSubmitter(h, t) /\ h.bindings[t][1].retry = g.message
        BY <1>5, <1>8, <3>1, <3>2
      <3>4. QED
        BY <1>4, <1>8, <2>2, <3>3 DEF GrantStands, HasSubmitter
    <2>3. QED
      BY <2>1, <2>2
  <1>9. CASE Says(t)
    <2>1. PICK m \in SentMessage :
             /\ thread'[t].log = Append(thread[t].log, m)
             /\ thread'[t].message = Len(thread[t].log) + 1
             /\ thread'[t].status \in {"pending", "resolved"}
      BY <1>1, <1>9, SentGrows
    <2>2. /\ DOMAIN thread[t].log \subseteq DOMAIN thread'[t].log
          /\ \A i \in DOMAIN thread[t].log :
                /\ thread'[t].log[i] = thread[t].log[i]
                /\ thread'[t].message # i
      BY <1>3, <2>1
    <2>3. Exists(t)
      BY <1>9 DEF Says, Exists
    <2>4. QED
      BY <1>4, <2>1, <2>2, <2>3 DEF GrantStands
  <1>10. CASE Reopened(t)
    <2>1. Exists(t) /\ thread'[t].log = thread[t].log /\ thread'[t].message = 0
          /\ thread'[t].status = "pending"
      BY <1>2, <1>10 DEF Reopened, ThreadRecord
    <2>2. g.message # 0
      BY <1>3, <2>1 DEF GrantStands
    <2>3. QED
      BY <1>4, <2>1, <2>2 DEF GrantStands
  <1>11. QED
    BY <1>2, <1>6, <1>7, <1>8, <1>9, <1>10 DEF RecordMoves

LEMMA JournalGrows ==
  ASSUME TypeOK, [Next]_vars
  PROVE  \A s \in Sessions : journal[s] \subseteq journal'[s]
  <1>1. journal \in [Sessions -> SUBSET (Threads \X Nat)]
    BY DEF TypeOK
  <1>2. ASSUME NEW t \in Threads,
               \/ \E c \in Contents : CreateThread(t, c) \/ SubmitRevision(t, c)
               \/ \E s \in Sessions : Bind(t, s) \/ Fetch(s, t)
               \/ \E o \in Outcomes, op \in Operations \cup {NoOperation} :
                     SendMessage(t, o, op)
               \/ DeleteThread(t)
               \/ \E s \in Sessions, n \in MessageIds, c \in Contents :
                     ConsumeApprovedRetry(t, s, n, c)
               \/ \E w \in Waiters : Wait(w, t) \/ WaitTimesOut(w, t)
        PROVE  UNCHANGED journal
    BY <1>2 DEF CreateThread, SubmitRevision, Bind, Fetch, SendMessage, DeleteThread,
                ConsumeApprovedRetry, Wait, WaitTimesOut, adapterVars
  <1>3. ASSUME Crash \/ Start PROVE UNCHANGED journal
    BY <1>3 DEF Crash, Start, adapterVars
  <1>4. ASSUME NEW s \in Sessions, Inject(s) \/ Acknowledge(s) \/ AdapterStops(s)
        PROVE  UNCHANGED journal
    BY <1>4 DEF Inject, Acknowledge, AdapterStops
  <1>5. ASSUME NEW s \in Sessions, Record(s)
        PROVE  \A r \in Sessions : journal[r] \subseteq journal'[r]
    BY <1>1, <1>5 DEF Record
  <1>6. CASE UNCHANGED vars
    BY <1>6 DEF vars
  <1>7. QED
    BY <1>2, <1>3, <1>4, <1>5, <1>6 DEF Next

LEMMA OnlyRetriesGrant ==
  ASSUME [Next]_vars
  PROVE  \/ UNCHANGED granted
         \/ \E t \in Threads, s \in Sessions, n \in MessageIds, c \in Contents :
               ConsumeApprovedRetry(t, s, n, c)
  <1>1. ASSUME NEW t \in Threads,
               \/ \E c \in Contents : CreateThread(t, c) \/ SubmitRevision(t, c)
               \/ \E s \in Sessions : Bind(t, s) \/ Fetch(s, t)
               \/ \E o \in Outcomes, op \in Operations \cup {NoOperation} :
                     SendMessage(t, o, op)
               \/ DeleteThread(t)
               \/ \E w \in Waiters : Wait(w, t) \/ WaitTimesOut(w, t)
        PROVE  UNCHANGED granted
    BY <1>1 DEF CreateThread, SubmitRevision, Bind, Fetch, SendMessage, DeleteThread,
                Wait, WaitTimesOut
  <1>2. ASSUME Crash \/ Start PROVE UNCHANGED granted
    BY <1>2 DEF Crash, Start
  <1>3. ASSUME NEW s \in Sessions,
               Inject(s) \/ Record(s) \/ Acknowledge(s) \/ AdapterStops(s)
        PROVE  UNCHANGED granted
    BY <1>3 DEF Inject, Record, Acknowledge, AdapterStops
  <1>4. CASE UNCHANGED vars
    BY <1>4 DEF vars
  <1>5. QED
    BY <1>1, <1>2, <1>3, <1>4 DEF Next

LEMMA GrantStep ==
  ASSUME GrantInv, [Next]_vars
  PROVE  GrantInv'
  <1> DEFINE After(x) ==
               /\ thread'[x.thread].status # "unborn"
               /\ <<x.thread, x.message>> \in journal'[x.session]
               /\ thread'[x.thread].status \in {"pending", "resolved"} =>
                     /\ x.message \in DOMAIN thread'[x.thread].log
                     /\ thread'[x.thread].log[x.message].outcome = "approved"
                     /\ thread'[x.thread].log[x.message].content = x.content
                     /\ thread'[x.thread].message = x.message =>
                           \A h \in {mem', disk'} :
                               /\ HasSubmitter(h, x.thread)
                               /\ h.bindings[x.thread][1].retry = x.message
  <1>1. TypeOK /\ AckInv' /\ RecordsFit' /\ granted \in Seq(Grant)
    BY AckStep, RecordsFitStep DEF GrantInv, AckInv, TypeOK
  <1>2. ASSUME NEW x \in Grant, GrantStands(x)
        PROVE  After(x)
    <2>1. GrantStands(x)'
      BY <1>1, <1>2, JournalGrows, GrantGoesOnStanding
    <2>2. QED
      BY <2>1 DEF GrantStands, Exists, HasSubmitter
  <1>3. \A i \in DOMAIN granted : granted[i] \in Grant /\ After(granted[i])
    <2>1. \A i \in DOMAIN granted : granted[i] \in Grant /\ GrantStands(granted[i])
      BY <1>1 DEF GrantInv
    <2> HIDE DEF After
    <2>2. QED
      BY <1>2, <2>1
  <1>4. ASSUME \A i \in DOMAIN granted' : After(granted'[i])
        PROVE  \A i \in DOMAIN granted' : GrantStands(granted[i])'
    BY <1>4 DEF GrantStands, Exists, HasSubmitter
  <1>5. CASE UNCHANGED granted
    <2>1. GrantsAreUnique'
      BY <1>5 DEF GrantInv, GrantsAreUnique
    <2>2. \A i \in DOMAIN granted' : After(granted'[i])
      <3> HIDE DEF After
      <3>1. QED
        BY <1>3, <1>5
    <2>3. QED
      BY <1>1, <1>4, <2>1, <2>2 DEF GrantInv
  <1>6. ASSUME NEW t \in Threads, NEW s \in Sessions, NEW n \in MessageIds,
               NEW c \in Contents, ConsumeApprovedRetry(t, s, n, c),
               ~UNCHANGED granted
        PROVE  GrantInv'
    <2> DEFINE g == [thread |-> t, session |-> s, message |-> n, content |-> c]
               used == [mem EXCEPT !.bindings[t][1].retry = n]
    <2>1. /\ mem' = used
          /\ disk' = IF used = mem THEN disk ELSE used
          /\ granted' = Append(granted, g)
          /\ UNCHANGED <<thread, journal>>
          /\ thread[t].status = "resolved" /\ thread[t].message = n
          /\ thread[t].log[n].outcome = "approved" /\ thread[t].content = c
          /\ Acknowledged(mem, t, s, n)
          /\ mem.bindings[t][1].retry # n
      BY <1>6 DEF ConsumeApprovedRetry, Persist, adapterVars
    <2>2. HasSubmitter(used, t) /\ used.bindings[t][1].retry = n
      BY <1>1, <1>6, RetryMarks
    <2>3. mem' = used /\ disk' = used
      BY <2>1, <2>2
    <2>4. /\ thread[t].log \in Seq(SentMessage)
          /\ RecordFits(thread[t])
      BY <1>1 DEF TypeOK, ThreadRecord, GrantInv, RecordsFit
    <2>5. n \in DOMAIN thread[t].log /\ thread[t].log[n].content = c
      BY <2>1, <2>4 DEF RecordFits
    <2>6. <<t, n>> \in journal[s]
      BY <2>1 DEF GrantInv, AckInv, Honest, Acknowledged
    <2>7. g \in Grant
      BY ConstantsAssumption DEF Grant, MessageIds
    <2>8. g.thread = t /\ g.session = s /\ g.message = n /\ g.content = c
      OBVIOUS
    <2> HIDE DEF g, used
    <2>9. After(g)
      BY <2>1, <2>2, <2>3, <2>5, <2>6, <2>8
    <2>10. \A i \in DOMAIN granted' :
              \/ i \in DOMAIN granted /\ granted'[i] = granted[i]
              \/ i = Len(granted) + 1 /\ granted'[i] = g
      BY <1>1, <2>1, <2>7
    <2>11. \A i \in DOMAIN granted' : After(granted'[i])
      <3> HIDE DEF After
      <3>1. QED
        BY <1>3, <2>9, <2>10
    <2>12. ASSUME NEW i \in DOMAIN granted,
                  granted[i].thread = t, granted[i].message = n
           PROVE  FALSE
      <3>1. GrantStands(granted[i])
        BY DEF GrantInv
      <3>2. Exists(t)
        BY <2>1 DEF Exists
      <3>3. QED
        BY <2>1, <2>12, <3>1, <3>2 DEF GrantStands
    <2>13. GrantsAreUnique'
      BY <2>8, <2>10, <2>12 DEF GrantInv, GrantsAreUnique
    <2>14. QED
      BY <1>1, <1>4, <2>11, <2>13 DEF GrantInv
  <1>7. QED
    BY <1>5, <1>6, OnlyRetriesGrant

(* An approved retry is granted once per Message, only for the content the *)
(* reviewer approved and only after the approval reached the session that  *)
(* submitted it, with every fault (harnessConsumeApprovedRetry).           *)
THEOREM RetriesAreEarned == Spec => []RetryIsEarned
  <1>1. Init => GrantInv
    <2>1. Init => AckInv /\ RecordsFit /\ granted = <<>>
      BY AckInit, RecordsFitInit DEF Init
    <2>2. QED
      BY <2>1 DEF GrantInv, GrantsAreUnique
  <1>2. GrantInv /\ [Next]_vars => GrantInv'
    BY GrantStep
  <1>3. QED
    BY <1>1, <1>2, GrantInvSuffices, PTL DEF Spec

-----------------------------------------------------------------------------
(* The rest assumes that the writes of the harness-state file succeed:     *)
(* then memory and file are one copy, and what happens to a Thread's       *)
(* routing in a step is one of four things.                                *)
OneCopy == mem = disk

\* Its deliveries and promises stay; a submitter stays, or is bound to a
\* Thread that has no current Message.
Kept(t) ==
    /\ RecordMoves(t)
    /\ disk'.deliveries[t] = disk.deliveries[t]
    /\ owed'[t] = owed[t]
    /\ HasSubmitter(disk, t) =>
          HasSubmitter(disk', t) /\ Submitter(disk', t) = Submitter(disk, t)
    /\ HasSubmitter(disk', t) /\ ~HasSubmitter(disk, t) =>
          thread'[t] = thread[t] /\ thread[t].message = 0
    /\ Says(t) => ~HasSubmitter(disk', t)
    /\ ~up => thread'[t] = thread[t]
    /\ ~up /\ up' => thread[t].message = 0 \/ ~HasSubmitter(disk, t)

\* It is dropped with its Thread.
Dropped(t) ==
    /\ RecordMoves(t)
    /\ ~Exists(t)'
    /\ disk'.deliveries[t] = <<>>
    /\ owed'[t] = owed[t]

\* The current Message is promised to the submitter, and enqueued unless it
\* was enqueued before or the process died first.
Routed(t) ==
    LET s == Submitter(disk', t)
        n == thread'[t].message
    IN  /\ Exists(t)
        /\ thread'[t] = thread[t] \/ (up /\ Says(t))
        /\ HasSubmitter(disk', t)
        /\ HasSubmitter(disk, t) => Submitter(disk, t) = s
        /\ n # 0
        /\ owed'[t] = owed[t] \cup {<<s, n>>}
        /\ IF Enqueued(disk, t, s, n) \/ ~up'
           THEN disk'.deliveries[t] = disk.deliveries[t]
           ELSE disk'.deliveries[t] =
                   Append(disk.deliveries[t],
                          [session |-> s, message |-> n, acked |-> FALSE])

\* One of its deliveries is acknowledged.
SettledAt(t, i) ==
    /\ up /\ up'
    /\ i \in DOMAIN disk.deliveries[t]
    /\ thread'[t] = thread[t]
    /\ owed'[t] = owed[t]
    /\ disk'.bindings[t] = disk.bindings[t]
    /\ disk'.deliveries[t] = [disk.deliveries[t] EXCEPT ![i].acked = TRUE]

RouteMoves(t) ==
    \/ Kept(t)
    \/ Dropped(t)
    \/ Routed(t)
    \/ \E i \in DOMAIN disk.deliveries[t] : SettledAt(t, i)

\* What a Thread promised, and to whom.
PromisesFit(t) ==
    /\ \A p \in owed[t] : p[2] \in MessageIds
    /\ Exists(t) => \A p \in owed[t] :
          /\ p[2] <= Len(thread[t].log)
          /\ HasSubmitter(disk, t)
          /\ p[1] = Submitter(disk, t)
    /\ Exists(t) /\ HasSubmitter(disk, t) /\ thread[t].message # 0 =>
          <<Submitter(disk, t), thread[t].message>> \in owed[t]
    /\ thread[t].status = "unborn" => owed[t] = {}

\* Only promised Messages are enqueued, once each and in sending order.
DeliveriesFit(t) ==
    /\ \A i \in DOMAIN disk.deliveries[t] :
          <<disk.deliveries[t][i].session, disk.deliveries[t][i].message>> \in owed[t]
    /\ \A i, j \in DOMAIN disk.deliveries[t] :
          i < j => disk.deliveries[t][i].message < disk.deliveries[t][j].message

\* PromisesAreRouted, of one Thread and of the one copy.
PromiseRouted(t) ==
    Exists(t) => \A p \in owed[t] :
        \/ Enqueued(disk, t, p[1], p[2])
        \/ /\ ~up
           /\ thread[t].message = p[2]
           /\ HasSubmitter(disk, t)
           /\ Submitter(disk, t) = p[1]

RouteInv ==
    /\ ReadInv
    /\ OneCopy
    /\ \A t \in Threads : PromisesFit(t) /\ DeliveriesFit(t) /\ PromiseRouted(t)

LEMMA SaysSomething ==
  ASSUME TypeOK, NEW t \in Threads, Says(t)
  PROVE  thread'[t].log # thread[t].log
  <1>1. thread[t].log \in Seq(SentMessage)
    BY DEF TypeOK, ThreadRecord
  <1>2. PICK m \in SentMessage : thread'[t].log = Append(thread[t].log, m)
    BY SentGrows
  <1>3. Len(thread'[t].log) = Len(thread[t].log) + 1
    BY <1>1, <1>2
  <1>4. QED
    BY <1>1, <1>3

\* A turn that leaves a Thread's routing alone and says nothing on it.
LEMMA RoutingKept ==
  ASSUME TypeOK, [Next]_vars, NEW t \in Threads,
         disk'.deliveries[t] = disk.deliveries[t],
         disk'.bindings[t] = disk.bindings[t],
         owed'[t] = owed[t],
         thread'[t].log = thread[t].log,
         up \/ (UNCHANGED up /\ thread'[t] = thread[t])
  PROVE  Kept(t)
  <1>1. RecordMoves(t)
    BY EveryRecordMoves
  <1>2. ~Says(t)
    BY SaysSomething
  <1>3. HasSubmitter(disk', t) <=> HasSubmitter(disk, t)
    BY DEF HasSubmitter
  <1>4. Submitter(disk', t) = Submitter(disk, t)
    BY DEF Submitter
  <1>5. QED
    BY <1>1, <1>2, <1>3, <1>4 DEF Kept

LEMMA UnchangedKept ==
  ASSUME TypeOK, [Next]_vars, NEW t \in Threads, UNCHANGED <<disk, owed>>,
         thread'[t] = thread[t], up \/ UNCHANGED up
  PROVE  Kept(t)
  BY RoutingKept

Alone(t) == \A u \in Threads : u # t => Kept(u)

\* What Reconcile does to the deliveries, spelled out.
LEMMA ReconcileMeans ==
  ASSUME NEW h \in HarnessState, NEW t \in Threads, NEW n \in Nat
  PROVE  /\ Reconcile(h, t, n) \in HarnessState
         /\ Reconcile(h, t, n).bindings = h.bindings
         /\ \A u \in Threads : u # t => Reconcile(h, t, n).deliveries[u] = h.deliveries[u]
         /\ Reconcile(h, t, n).deliveries[t] =
               IF n = 0 \/ ~HasSubmitter(h, t) \/ Enqueued(h, t, Submitter(h, t), n)
               THEN h.deliveries[t]
               ELSE Append(h.deliveries[t],
                           [session |-> Submitter(h, t), message |-> n, acked |-> FALSE])
  <1>1. Reconcile(h, t, n) \in HarnessState /\ Reconcile(h, t, n).bindings = h.bindings
    BY ReconcileType
  <1>2. CASE n = 0 \/ ~HasSubmitter(h, t) \/ Enqueued(h, t, Submitter(h, t), n)
    BY <1>1, <1>2 DEF Reconcile
  <1>3. CASE ~(n = 0 \/ ~HasSubmitter(h, t) \/ Enqueued(h, t, Submitter(h, t), n))
    <2> DEFINE d == [session |-> Submitter(h, t), message |-> n, acked |-> FALSE]
    <2>1. Reconcile(h, t, n) = [h EXCEPT !.deliveries[t] = Append(@, d)]
      BY <1>3 DEF Reconcile
    <2>2. /\ Reconcile(h, t, n).deliveries[t] = Append(h.deliveries[t], d)
          /\ \A u \in Threads : u # t => Reconcile(h, t, n).deliveries[u] = h.deliveries[u]
      <3> HIDE DEF d
      <3>1. QED
        BY <2>1 DEF HarnessState
    <2>3. QED
      BY <1>1, <1>3, <2>2
  <1>4. QED
    BY <1>2, <1>3

LEMMA AddBindingMeans ==
  ASSUME NEW h \in HarnessState, NEW t \in Threads, NEW s \in Sessions
  PROVE  /\ AddBinding(h, t, s).deliveries = h.deliveries
         /\ \A u \in Threads : u # t => AddBinding(h, t, s).bindings[u] = h.bindings[u]
  BY DEF AddBinding, HarnessState

LEMMA RouteBind ==
  ASSUME ~WriteFaults, RouteInv, [Next]_vars,
         NEW t \in Threads, NEW s \in Sessions, Bind(t, s)
  PROVE  OneCopy' /\ Alone(t) /\ (Kept(t) \/ Routed(t))
  <1> DEFINE n == thread[t].message
             bound == AddBinding(mem, t, s)
             full == Reconcile(bound, t, n)
             owes == [owed EXCEPT ![t] = @ \cup {<<Submitter(bound, t), n>>}]
  <1>1. /\ TypeOK /\ mem \in HarnessState /\ n \in Nat /\ disk = mem
        /\ owed \in [Threads -> SUBSET (Sessions \X Nat)]
    BY DEF RouteInv, ReadInv, OneCopy, TypeOK, ThreadRecord
  <1>2. /\ bound \in HarnessState
        /\ bound.deliveries = mem.deliveries
        /\ \A u \in Threads : u # t => bound.bindings[u] = mem.bindings[u]
        /\ HasSubmitter(bound, t)
        /\ HasSubmitter(mem, t) => Submitter(bound, t) = Submitter(mem, t)
    BY <1>1, AddBindingType, AddBindingMeans, BoundHasSubmitter
  <1>3. /\ full.bindings = bound.bindings
        /\ \A u \in Threads : u # t => full.deliveries[u] = bound.deliveries[u]
        /\ full.deliveries[t] =
              IF n = 0 \/ Enqueued(bound, t, Submitter(bound, t), n)
              THEN bound.deliveries[t]
              ELSE Append(bound.deliveries[t],
                     [session |-> Submitter(bound, t), message |-> n, acked |-> FALSE])
    BY <1>1, <1>2, ReconcileMeans
  <1>4. /\ UNCHANGED thread /\ up /\ Exists(t)
        /\ owed' = IF n = 0 THEN owed ELSE owes
        /\ \/ mem' = full /\ disk' = full /\ up'
           \/ mem' = bound /\ disk' = bound /\ ~up'
    BY <1>1 DEF Bind, Persist, PersistFails, DieWith
  <1>5. OneCopy'
    BY <1>4 DEF OneCopy
  <1> HIDE DEF n, bound, full, owes
  <1>6. \A u \in Threads : u # t => owed'[u] = owed[u]
    BY <1>1, <1>4 DEF owes
  <1>7. Alone(t)
    <2> SUFFICES ASSUME NEW u \in Threads, u # t PROVE Kept(u)
      BY DEF Alone
    <2>1. disk'.deliveries[u] = disk.deliveries[u] /\ disk'.bindings[u] = disk.bindings[u]
      BY <1>1, <1>2, <1>3, <1>4
    <2>2. QED
      BY <1>1, <1>4, <1>6, <2>1, RoutingKept
  <1>8. disk'.bindings = bound.bindings
    BY <1>3, <1>4
  <1>9. HasSubmitter(disk', t) /\ Submitter(disk', t) = Submitter(bound, t)
    BY <1>2, <1>8 DEF HasSubmitter, Submitter
  <1>10. CASE n = 0
    <2>1. disk'.deliveries[t] = disk.deliveries[t] /\ owed'[t] = owed[t]
      BY <1>1, <1>2, <1>3, <1>4, <1>10
    <2>2. RecordMoves(t) /\ ~Says(t)
      BY <1>1, <1>4, EveryRecordMoves, SaysSomething
    <2>3. Kept(t)
      BY <1>1, <1>2, <1>4, <1>9, <1>10, <2>1, <2>2 DEF Kept, n
    <2>4. QED
      BY <1>5, <1>7, <2>3
  <1>11. CASE n # 0
    <2>1. owed'[t] = owed[t] \cup {<<Submitter(bound, t), n>>}
      BY <1>1, <1>4, <1>11 DEF owes
    <2>2. Enqueued(bound, t, Submitter(bound, t), n) <=> Enqueued(disk, t, Submitter(bound, t), n)
      BY <1>1, <1>2 DEF Enqueued
    <2>3. IF Enqueued(disk, t, Submitter(bound, t), n) \/ ~up'
          THEN disk'.deliveries[t] = disk.deliveries[t]
          ELSE disk'.deliveries[t] =
                  Append(disk.deliveries[t],
                     [session |-> Submitter(bound, t), message |-> n, acked |-> FALSE])
      BY <1>1, <1>2, <1>3, <1>4, <1>11, <2>2
    <2>4. thread'[t].message = n
      BY <1>4 DEF n
    <2>5. Routed(t)
      BY <1>1, <1>2, <1>4, <1>9, <1>11, <2>1, <2>3, <2>4 DEF Routed
    <2>6. QED
      BY <1>5, <1>7, <2>5
  <1>12. QED
    BY <1>10, <1>11

LEMMA RouteSendMessage ==
  ASSUME ~WriteFaults, RouteInv, [Next]_vars, NEW t \in Threads, NEW o \in Outcomes,
         NEW op \in Operations \cup {NoOperation}, SendMessage(t, o, op)
  PROVE  OneCopy' /\ Alone(t) /\ (Kept(t) \/ Routed(t))
  <1> DEFINE n == Len(thread[t].log) + 1
             full == Reconcile(mem, t, n)
             owes == [owed EXCEPT ![t] = @ \cup {<<Submitter(mem, t), n>>}]
  <1>1. /\ TypeOK /\ mem \in HarnessState /\ n \in Nat /\ n # 0 /\ disk = mem
        /\ thread \in [Threads -> ThreadRecord]
        /\ owed \in [Threads -> SUBSET (Sessions \X Nat)]
    BY DEF RouteInv, ReadInv, OneCopy, TypeOK, ThreadRecord
  <1>2. /\ full.bindings = mem.bindings
        /\ \A u \in Threads : u # t => full.deliveries[u] = mem.deliveries[u]
        /\ full.deliveries[t] =
              IF ~HasSubmitter(mem, t) \/ Enqueued(mem, t, Submitter(mem, t), n)
              THEN mem.deliveries[t]
              ELSE Append(mem.deliveries[t],
                     [session |-> Submitter(mem, t), message |-> n, acked |-> FALSE])
    BY <1>1, ReconcileMeans
  <1>3. /\ up /\ thread[t].status = "pending"
        /\ owed' = IF HasSubmitter(mem, t) THEN owes ELSE owed
        /\ \/ mem' = full /\ disk' = full /\ up'
           \/ mem' = disk /\ disk' = disk /\ ~up'
    BY <1>1 DEF SendMessage, Persist, PersistFails, DieWith
  <1>4. Says(t) /\ \A u \in Threads : u # t => thread'[u] = thread[u]
    BY <1>1 DEF SendMessage, Says
  <1>5. thread'[t].message = n
    BY <1>1, <1>4, SentGrows
  <1>6. OneCopy'
    BY <1>3 DEF OneCopy
  <1> HIDE DEF n, full, owes
  <1>7. Alone(t)
    <2> SUFFICES ASSUME NEW u \in Threads, u # t PROVE Kept(u)
      BY DEF Alone
    <2>1. disk'.deliveries[u] = disk.deliveries[u] /\ disk'.bindings[u] = disk.bindings[u]
      BY <1>1, <1>2, <1>3
    <2>2. owed'[u] = owed[u]
      BY <1>1, <1>3 DEF owes
    <2>3. QED
      BY <1>1, <1>3, <1>4, <2>1, <2>2, RoutingKept
  <1>8. disk'.bindings = disk.bindings
    BY <1>1, <1>2, <1>3
  <1>9. /\ HasSubmitter(disk', t) <=> HasSubmitter(mem, t)
        /\ Submitter(disk', t) = Submitter(mem, t)
    BY <1>1, <1>8 DEF HasSubmitter, Submitter
  <1>10. CASE HasSubmitter(mem, t)
    <2>1. owed'[t] = owed[t] \cup {<<Submitter(mem, t), n>>}
      BY <1>1, <1>3, <1>10 DEF owes
    <2>2. IF Enqueued(disk, t, Submitter(mem, t), n) \/ ~up'
          THEN disk'.deliveries[t] = disk.deliveries[t]
          ELSE disk'.deliveries[t] =
                  Append(disk.deliveries[t],
                     [session |-> Submitter(mem, t), message |-> n, acked |-> FALSE])
      BY <1>1, <1>2, <1>3, <1>10
    <2>3. Exists(t)
      BY <1>3 DEF Exists
    <2>4. Routed(t)
      BY <1>1, <1>3, <1>4, <1>5, <1>9, <1>10, <2>1, <2>2, <2>3 DEF Routed
    <2>5. QED
      BY <1>6, <1>7, <2>4
  <1>11. CASE ~HasSubmitter(mem, t)
    <2>1. disk'.deliveries[t] = disk.deliveries[t] /\ owed'[t] = owed[t]
      BY <1>1, <1>2, <1>3, <1>11
    <2>2. RecordMoves(t)
      BY <1>4 DEF RecordMoves
    <2>3. Kept(t)
      BY <1>1, <1>3, <1>9, <1>11, <2>1, <2>2 DEF Kept
    <2>4. QED
      BY <1>6, <1>7, <2>3
  <1>12. QED
    BY <1>10, <1>11

LEMMA RouteDeleteThread ==
  ASSUME ~WriteFaults, RouteInv, [Next]_vars, NEW t \in Threads, DeleteThread(t)
  PROVE  OneCopy' /\ Alone(t) /\ (Kept(t) \/ Dropped(t))
  <1> DEFINE g == DropThread(mem, t)
  <1>1. /\ TypeOK /\ mem \in HarnessState /\ disk = mem
        /\ thread \in [Threads -> ThreadRecord]
    BY DEF RouteInv, ReadInv, OneCopy, TypeOK
  <1>2. /\ g.deliveries[t] = <<>>
        /\ \A u \in Threads : u # t => /\ g.deliveries[u] = mem.deliveries[u]
                                       /\ g.bindings[u] = mem.bindings[u]
    BY <1>1 DEF DropThread, HarnessState
  <1>3. /\ up /\ Exists(t) /\ UNCHANGED owed
        /\ thread' = [thread EXCEPT ![t] = [Unborn EXCEPT !.status = "deleted"]]
        /\ \/ mem' = g /\ disk' = g
           \/ mem' = disk /\ disk' = disk
    BY <1>1 DEF DeleteThread, Persist, PersistFails, DieWith
  <1>4. OneCopy'
    BY <1>3 DEF OneCopy
  <1>5. Gone(t) /\ thread'[t].status = "deleted"
    BY <1>1, <1>3, UnbornFacts DEF Gone
  <1> HIDE DEF g
  <1>6. Alone(t)
    <2> SUFFICES ASSUME NEW u \in Threads, u # t PROVE Kept(u)
      BY DEF Alone
    <2>1. disk'.deliveries[u] = disk.deliveries[u] /\ disk'.bindings[u] = disk.bindings[u]
      BY <1>1, <1>2, <1>3
    <2>2. thread'[u] = thread[u]
      BY <1>1, <1>3
    <2>3. QED
      BY <1>1, <1>3, <2>1, <2>2, RoutingKept
  <1>7. RecordMoves(t) /\ ~Exists(t)'
    BY <1>5 DEF RecordMoves, Exists
  <1>8. CASE disk' = g
    BY <1>2, <1>3, <1>4, <1>6, <1>7, <1>8 DEF Dropped
  <1>9. CASE disk' = disk
    <2>1. ~Says(t)
      <3>1. ASSUME Says(t) PROVE FALSE
        <4>1. thread'[t].status \in {"pending", "resolved"}
          BY <1>1, <3>1, SentGrows
        <4>2. QED
          BY <1>5, <4>1
      <3>2. QED
        BY <3>1
    <2>2. Kept(t)
      BY <1>3, <1>7, <1>9, <2>1 DEF Kept
    <2>3. QED
      BY <1>4, <1>6, <2>2
  <1>10. QED
    BY <1>3, <1>8, <1>9

LEMMA RouteAcknowledge ==
  ASSUME ~WriteFaults, RouteInv, [Next]_vars, NEW s \in Sessions, Acknowledge(s)
  PROVE  LET t == job[s].thread
             d == Foremost(s)
         IN  /\ OneCopy' /\ t \in Threads /\ Alone(t)
             /\ UNCHANGED <<up, thread, owed>>
             /\ \/ UNCHANGED disk /\ job' = [job EXCEPT ![s] = Idle]
                \/ /\ SettledAt(t, d.place)
                   /\ disk.deliveries[t][d.place].session = s
                   /\ disk.deliveries[t][d.place].message = d.message
                   /\ Advance(s)
  <1> DEFINE t == job[s].thread
             d == Foremost(s)
             known == /\ d.place \in DOMAIN mem.deliveries[t]
                      /\ mem.deliveries[t][d.place].session = s
                      /\ mem.deliveries[t][d.place].message = d.message
             done == [mem EXCEPT !.deliveries[t][d.place].acked = TRUE]
  <1>1. TypeOK /\ mem \in HarnessState /\ disk = mem
    BY DEF RouteInv, ReadInv, OneCopy, TypeOK
  <1>2. t \in Threads
    BY <1>1, ForemostType DEF Acknowledge, Busy, Job
  <1>3. up /\ UNCHANGED <<up, thread, owed>>
    BY DEF Acknowledge
  <1>4. \/ known /\ mem' = done /\ disk' = done /\ Advance(s)
        \/ UNCHANGED <<mem, disk>> /\ job' = [job EXCEPT ![s] = Idle]
    BY <1>1 DEF Acknowledge, Persist, PersistFails
  <1>5. /\ done.bindings = mem.bindings
        /\ \A u \in Threads : u # t => done.deliveries[u] = mem.deliveries[u]
        /\ done.deliveries[t] = [mem.deliveries[t] EXCEPT ![d.place].acked = TRUE]
    BY <1>1, <1>2 DEF HarnessState
  <1>6. OneCopy'
    BY <1>1, <1>4 DEF OneCopy
  <1> HIDE DEF done, d, t
  <1>7. Alone(t)
    <2> SUFFICES ASSUME NEW u \in Threads, u # t PROVE Kept(u)
      BY DEF Alone
    <2>1. disk'.deliveries[u] = disk.deliveries[u] /\ disk'.bindings[u] = disk.bindings[u]
      BY <1>1, <1>4, <1>5
    <2>2. QED
      BY <1>1, <1>3, <2>1, RoutingKept
  <1>8. CASE known /\ mem' = done /\ disk' = done /\ Advance(s)
    <2>1. SettledAt(t, d.place)
      BY <1>1, <1>3, <1>5, <1>8 DEF SettledAt
    <2>2. QED
      BY <1>1, <1>2, <1>3, <1>6, <1>7, <1>8, <2>1 DEF t, d
  <1>9. CASE UNCHANGED <<mem, disk>> /\ job' = [job EXCEPT ![s] = Idle]
    BY <1>2, <1>3, <1>6, <1>7, <1>9 DEF t, d
  <1>10. QED
    BY <1>4, <1>8, <1>9

LEMMA RouteStart ==
  ASSUME RouteInv, [Next]_vars, Start
  PROVE  /\ OneCopy' /\ UNCHANGED owed
         /\ \A t \in Threads : Kept(t) \/ Dropped(t) \/ Routed(t)
  <1>1. PICK expired \in SUBSET Prunable :
           LET kept  == {t \in Threads : Exists(t)} \ expired
               state == WithoutOrphans(Reconciled, kept)
           IN  /\ thread' = [t \in Threads |->
                     IF t \in expired THEN [Unborn EXCEPT !.status = "deleted"]
                     ELSE thread[t]]
               /\ mem' = state
               /\ disk' = state
    BY DEF Start
  <1> DEFINE kept == {t \in Threads : Exists(t)} \ expired
             state == WithoutOrphans(Reconciled, kept)
  <1>2. OneCopy' /\ UNCHANGED owed /\ ~up /\ up'
    BY <1>1 DEF OneCopy, Start
  <1>3. /\ TypeOK /\ disk \in HarnessState
        /\ thread \in [Threads -> ThreadRecord]
    BY DEF RouteInv, ReadInv, TypeOK
  <1>4. ASSUME NEW t \in Threads, t \in kept
        PROVE  Kept(t) \/ Routed(t)
    <2> DEFINE n == thread[t].message
    <2>1. Exists(t) /\ thread'[t] = thread[t]
      BY <1>1, <1>4
    <2>2. /\ disk'.bindings[t] = disk.bindings[t]
          /\ disk'.deliveries[t] = Reconcile(disk, t, n).deliveries[t]
      BY <1>1, <1>4, <2>1 DEF WithoutOrphans, Reconciled
    <2>3. n \in Nat
      BY <1>3 DEF ThreadRecord
    <2>4. disk'.deliveries[t] =
             IF n = 0 \/ ~HasSubmitter(disk, t) \/ Enqueued(disk, t, Submitter(disk, t), n)
             THEN disk.deliveries[t]
             ELSE Append(disk.deliveries[t],
                     [session |-> Submitter(disk, t), message |-> n, acked |-> FALSE])
      BY <1>3, <2>2, <2>3, ReconcileMeans
    <2>5. /\ HasSubmitter(disk', t) <=> HasSubmitter(disk, t)
          /\ Submitter(disk', t) = Submitter(disk, t)
      BY <2>2 DEF HasSubmitter, Submitter
    <2>6. RecordMoves(t) /\ ~Says(t)
      BY <1>3, <2>1, EveryRecordMoves, SaysSomething
    <2>7. CASE n = 0 \/ ~HasSubmitter(disk, t)
      <3>1. Kept(t)
        BY <1>2, <2>1, <2>4, <2>5, <2>6, <2>7 DEF Kept
      <3>2. QED
        BY <3>1
    <2>8. CASE n # 0 /\ HasSubmitter(disk, t)
      <3>1. <<Submitter(disk, t), n>> \in owed[t]
        BY <2>1, <2>8 DEF RouteInv, PromisesFit
      <3>2. owed'[t] = owed[t] \cup {<<Submitter(disk, t), n>>}
        BY <1>2, <3>1
      <3>3. Routed(t)
        BY <1>2, <2>1, <2>4, <2>5, <2>8, <3>2 DEF Routed
      <3>4. QED
        BY <3>3
    <2>9. QED
      BY <2>7, <2>8
  <1>5. ASSUME NEW t \in Threads, t \notin kept
        PROVE  Dropped(t)
    <2>1. RecordMoves(t)
      BY <1>3, EveryRecordMoves
    <2>2. ~Exists(t)'
      BY <1>1, <1>5, UnbornFacts DEF Exists
    <2>3. disk'.deliveries[t] = <<>>
      BY <1>1, <1>5 DEF WithoutOrphans
    <2>4. QED
      BY <1>2, <2>1, <2>2, <2>3 DEF Dropped
  <1>6. QED
    BY <1>2, <1>4, <1>5

LEMMA EveryRouteMoves ==
  ASSUME ~WriteFaults, RouteInv, [Next]_vars
  PROVE  OneCopy' /\ \A t \in Threads : RouteMoves(t)
  <1>0. /\ TypeOK /\ thread \in [Threads -> ThreadRecord]
        /\ OneCopy
    BY DEF RouteInv, ReadInv, TypeOK
  <1>1. ASSUME UNCHANGED <<up, thread, mem, disk, owed>>
        PROVE  OneCopy' /\ \A t \in Threads : RouteMoves(t)
    BY <1>0, <1>1, UnchangedKept DEF RouteMoves, OneCopy
  <1>2. ASSUME NEW t \in Threads, NEW c \in Contents,
               CreateThread(t, c) \/ SubmitRevision(t, c)
        PROVE  OneCopy' /\ \A u \in Threads : RouteMoves(u)
    <2>1. up /\ UNCHANGED <<mem, disk, owed>>
      BY <1>2 DEF CreateThread, SubmitRevision
    <2>2. ASSUME NEW u \in Threads PROVE thread'[u].log = thread[u].log
      <3>1. thread[u] \in ThreadRecord
        BY <1>0
      <3>2. CASE CreateThread(t, c)
        BY <1>0, <3>1, <3>2 DEF CreateThread, ThreadRecord
      <3>3. CASE SubmitRevision(t, c)
        BY <1>0, <3>1, <3>3 DEF SubmitRevision, ThreadRecord
      <3>4. QED
        BY <1>2, <3>2, <3>3
    <2>3. ASSUME NEW u \in Threads PROVE Kept(u)
      <3>1. /\ disk'.deliveries[u] = disk.deliveries[u]
            /\ disk'.bindings[u] = disk.bindings[u]
            /\ owed'[u] = owed[u]
        BY <2>1
      <3>2. QED
        BY <1>0, <2>1, <2>2, <3>1, RoutingKept
    <2>4. QED
      BY <1>0, <2>1, <2>3 DEF RouteMoves, OneCopy
  <1>3. ASSUME NEW t \in Threads, NEW s \in Sessions, Bind(t, s)
        PROVE  OneCopy' /\ \A u \in Threads : RouteMoves(u)
    BY <1>3, RouteBind DEF Alone, RouteMoves
  <1>4. ASSUME NEW t \in Threads, NEW s \in Sessions, Fetch(s, t)
        PROVE  OneCopy' /\ \A u \in Threads : RouteMoves(u)
    BY <1>1, <1>4 DEF Fetch, daemonVars
  <1>5. ASSUME NEW t \in Threads, NEW o \in Outcomes,
               NEW op \in Operations \cup {NoOperation}, SendMessage(t, o, op)
        PROVE  OneCopy' /\ \A u \in Threads : RouteMoves(u)
    BY <1>5, RouteSendMessage DEF Alone, RouteMoves
  <1>6. ASSUME NEW t \in Threads, DeleteThread(t)
        PROVE  OneCopy' /\ \A u \in Threads : RouteMoves(u)
    BY <1>6, RouteDeleteThread DEF Alone, RouteMoves
  <1>7. ASSUME NEW t \in Threads, NEW s \in Sessions, NEW n \in MessageIds,
               NEW c \in Contents, ConsumeApprovedRetry(t, s, n, c)
        PROVE  OneCopy' /\ \A u \in Threads : RouteMoves(u)
    <2> DEFINE used == [mem EXCEPT !.bindings[t][1].retry = n]
    <2>1. /\ up /\ UNCHANGED <<up, thread, owed>>
          /\ mem' = used /\ disk' = (IF used = mem THEN disk ELSE used)
      BY <1>7 DEF ConsumeApprovedRetry, Persist, PersistFails
    <2>2. SameRouting(mem, used) /\ mem \in HarnessState /\ used.deliveries = mem.deliveries
      BY <1>0, RetryKeepsRouting DEF TypeOK, HarnessState
    <2>3. mem = disk /\ mem' = disk'
      BY <1>0, <2>1 DEF OneCopy
    <2> HIDE DEF used
    <2>4. ASSUME NEW u \in Threads
          PROVE  Kept(u)
      <3>1. used \in HarnessState
        BY <1>0, <2>1, TypeNext DEF TypeOK
      <3>2. /\ used.bindings[u] \in Seq(Binding) /\ mem.bindings[u] \in Seq(Binding)
            /\ DOMAIN used.bindings[u] = DOMAIN mem.bindings[u]
        BY <2>2, <3>1 DEF HarnessState, SameRouting
      <3>3. /\ HasSubmitter(used, u) <=> HasSubmitter(mem, u)
            /\ HasSubmitter(mem, u) => 1 \in DOMAIN mem.bindings[u]
        BY <3>2 DEF HasSubmitter
      <3>4. HasSubmitter(mem, u) => Submitter(used, u) = Submitter(mem, u)
        BY <2>2, <3>3 DEF SameRouting, Submitter
      <3>5. /\ HasSubmitter(disk', u) <=> HasSubmitter(disk, u)
            /\ HasSubmitter(disk, u) => Submitter(disk', u) = Submitter(disk, u)
        BY <2>1, <2>3, <3>3, <3>4
      <3>6. disk'.deliveries[u] = disk.deliveries[u]
        BY <2>1, <2>2, <2>3
      <3>7. RecordMoves(u) /\ ~Says(u)
        BY <1>0, <2>1, EveryRecordMoves, SaysSomething
      <3>8. QED
        BY <2>1, <3>5, <3>6, <3>7 DEF Kept
    <2>5. QED
      BY <2>3, <2>4 DEF RouteMoves, OneCopy
  <1>8. ASSUME NEW t \in Threads, NEW w \in Waiters, Wait(w, t) \/ WaitTimesOut(w, t)
        PROVE  OneCopy' /\ \A u \in Threads : RouteMoves(u)
    BY <1>1, <1>8 DEF Wait, WaitTimesOut
  <1>9. CASE Crash
    <2>1. up /\ mem' = disk /\ disk' = disk /\ UNCHANGED <<thread, owed>>
      BY <1>9 DEF Crash, DieWith
    <2>2. QED
      BY <1>0, <2>1, RoutingKept DEF RouteMoves, OneCopy
  <1>10. CASE Start
    BY <1>10, RouteStart DEF RouteMoves
  <1>11. ASSUME NEW s \in Sessions, Inject(s) \/ Record(s) \/ AdapterStops(s)
         PROVE  OneCopy' /\ \A u \in Threads : RouteMoves(u)
    BY <1>1, <1>11 DEF Inject, Record, AdapterStops, daemonVars
  <1>12. ASSUME NEW s \in Sessions, Acknowledge(s)
         PROVE  OneCopy' /\ \A u \in Threads : RouteMoves(u)
    <2> DEFINE t == job[s].thread
    <2>1. /\ OneCopy' /\ t \in Threads /\ Alone(t)
          /\ UNCHANGED <<up, thread, owed>>
          /\ UNCHANGED disk \/ SettledAt(t, Foremost(s).place)
      BY <1>12, RouteAcknowledge
    <2> HIDE DEF t
    <2>2. CASE UNCHANGED disk
      BY <1>0, <2>1, <2>2, UnchangedKept DEF RouteMoves
    <2>3. CASE SettledAt(t, Foremost(s).place)
      <3>1. Foremost(s).place \in DOMAIN disk.deliveries[t]
        BY <2>3 DEF SettledAt
      <3>2. QED
        BY <2>1, <2>3, <3>1 DEF Alone, RouteMoves
    <2>4. QED
      BY <2>1, <2>2, <2>3
  <1>13. CASE UNCHANGED vars
    BY <1>1, <1>13 DEF vars
  <1>14. QED
    BY <1>2, <1>3, <1>4, <1>5, <1>6, <1>7, <1>8, <1>9, <1>10, <1>11, <1>12, <1>13 DEF Next

-----------------------------------------------------------------------------
(* The invariant is preserved, one Thread at a time. *)

\* A promise is newer than the ones before it, and to the same session.
LEMMA NewestPromise ==
  ASSUME RouteInv, RecordsFit', TypeOK', NEW t \in Threads, Routed(t)
  PROVE  LET s == Submitter(disk', t)
             n == thread'[t].message
         IN  /\ n \in MessageIds
             /\ n <= Len(thread'[t].log)
             /\ Exists(t)'
             /\ <<s, n>> \in owed'[t]
             /\ \A p \in owed[t] :
                   /\ p[1] = s
                   /\ p \in Sessions \X Nat
                   /\ p[2] < n \/ p = <<s, n>>
  <1> DEFINE s == Submitter(disk', t)
             n == thread'[t].message
  <1>1. /\ TypeOK /\ PromisesFit(t) /\ RecordFits(thread[t])
        /\ thread[t] \in ThreadRecord
        /\ owed[t] \in SUBSET (Sessions \X Nat)
    BY DEF RouteInv, ReadInv, RecordsFit, TypeOK
  <1>2. RecordFits(thread'[t]) /\ thread'[t] \in ThreadRecord
    BY DEF RecordsFit, TypeOK
  <1>3. /\ thread[t].log \in Seq(SentMessage) /\ thread'[t].log \in Seq(SentMessage)
        /\ MaxMessages \in Nat
    BY <1>1, <1>2, ConstantsAssumption DEF ThreadRecord
  <1>4. n # 0 /\ Exists(t) /\ <<s, n>> \in owed'[t]
    BY DEF Routed
  <1>5. n = Len(thread'[t].log) /\ n <= MaxMessages
    BY <1>2, <1>4 DEF RecordFits
  <1>6. n \in MessageIds
    BY <1>3, <1>4, <1>5 DEF MessageIds
  <1>7. \/ thread'[t] = thread[t]
        \/ /\ Len(thread'[t].log) = Len(thread[t].log) + 1
           /\ thread'[t].status \in {"pending", "resolved"}
    <2>1. CASE thread'[t] = thread[t]
      BY <2>1
    <2>2. CASE Says(t)
      <3>1. PICK m \in SentMessage :
               /\ thread'[t].log = Append(thread[t].log, m)
               /\ thread'[t].status \in {"pending", "resolved"}
        BY <1>1, <2>2, SentGrows
      <3>2. QED
        BY <1>3, <3>1
    <2>3. QED
      BY <2>1, <2>2 DEF Routed
  <1>8. Exists(t)'
    BY <1>4, <1>7 DEF Exists
  <1>9. ASSUME NEW p \in owed[t]
        PROVE  /\ p[1] = s
               /\ p \in Sessions \X Nat
               /\ p[2] < n \/ p = <<s, n>>
    <2>1. /\ p[2] <= Len(thread[t].log)
          /\ HasSubmitter(disk, t) /\ p[1] = Submitter(disk, t)
      BY <1>1, <1>4 DEF PromisesFit
    <2>2. p[1] = s
      BY <2>1 DEF Routed
    <2>3. p \in Sessions \X Nat /\ p = <<p[1], p[2]>> /\ p[2] \in Nat
      BY <1>1
    <2>4. p[2] <= n
      BY <1>3, <1>5, <1>7, <2>1, <2>3
    <2>5. QED
      BY <1>3, <1>5, <2>2, <2>3, <2>4
  <1>10. QED
    BY <1>4, <1>5, <1>6, <1>8, <1>9, <1>3

LEMMA PromisesFitStep ==
  ASSUME RouteInv, RecordsFit', TypeOK', NEW t \in Threads, RouteMoves(t)
  PROVE  PromisesFit(t)'
  <1>1. /\ TypeOK /\ PromisesFit(t) /\ RecordFits(thread[t])
        /\ thread[t] \in ThreadRecord /\ thread'[t] \in ThreadRecord
        /\ owed[t] \in SUBSET (Sessions \X Nat)
        /\ disk \in HarnessState /\ disk' \in HarnessState
        /\ Fits(disk, thread[t], t)
    BY DEF RouteInv, ReadInv, RecordsFit, TypeOK, FitsAll
  <1>2. /\ thread[t].log \in Seq(SentMessage) /\ thread'[t].log \in Seq(SentMessage)
    BY <1>1 DEF ThreadRecord
  <1> DEFINE Said == /\ thread'[t].log = thread[t].log \/ Len(thread'[t].log) = Len(thread[t].log) + 1
                     /\ thread'[t].status \in {"pending", "resolved"}
                     /\ Exists(t)
  <1>3. ASSUME Says(t) PROVE Said
    <2>1. PICK m \in SentMessage :
             /\ thread'[t].log = Append(thread[t].log, m)
             /\ thread'[t].status \in {"pending", "resolved"}
      BY <1>1, <1>3, SentGrows
    <2>2. QED
      BY <1>2, <1>3, <2>1 DEF Says, Exists
  <1>4. ASSUME Reopened(t)
        PROVE  /\ Exists(t) /\ thread'[t].log = thread[t].log /\ thread'[t].message = 0
               /\ thread'[t].status = "pending"
    BY <1>1, <1>4 DEF Reopened, ThreadRecord
  <1>5. ASSUME Gone(t) PROVE thread'[t].status = "deleted"
    BY <1>5, UnbornFacts DEF Gone
  <1>6. ASSUME Born(t)
        PROVE  /\ thread[t].status = "unborn" /\ thread'[t].message = 0
               /\ thread'[t].status = "pending"
    BY <1>1, <1>6 DEF Born, ThreadRecord, RecordFits
  <1>7. CASE Kept(t)
    <2>1. owed'[t] = owed[t] /\ RecordMoves(t)
      BY <1>7 DEF Kept
    <2>2. HasSubmitter(disk, t) =>
             HasSubmitter(disk', t) /\ Submitter(disk', t) = Submitter(disk, t)
      BY <1>7 DEF Kept
    <2>3. thread'[t].status = "unborn" => thread[t].status = "unborn"
      BY <1>3, <1>4, <1>5, <1>6, <2>1 DEF RecordMoves
    <2>4. Exists(t)' => \A p \in owed'[t] :
             /\ p[2] <= Len(thread'[t].log)
             /\ HasSubmitter(disk', t)
             /\ p[1] = Submitter(disk', t)
      <3> SUFFICES ASSUME Exists(t)', NEW p \in owed[t]
                   PROVE  /\ p[2] <= Len(thread'[t].log)
                          /\ HasSubmitter(disk', t)
                          /\ p[1] = Submitter(disk', t)
        BY <2>1
      <3>1. ~Born(t) /\ ~Gone(t)
        BY <1>1, <1>5, <1>6 DEF PromisesFit, Exists
      <3>2. Exists(t)
        BY <1>3, <1>4, <2>1, <3>1 DEF RecordMoves, Exists
      <3>3. p[2] <= Len(thread[t].log) /\ HasSubmitter(disk, t) /\ p[1] = Submitter(disk, t)
        BY <1>1, <3>2 DEF PromisesFit
      <3>4. Len(thread[t].log) <= Len(thread'[t].log)
        BY <1>2, <1>3, <1>4, <2>1, <3>1 DEF RecordMoves
      <3>5. p[2] \in Nat
        BY <1>1
      <3>6. QED
        BY <1>2, <2>2, <3>3, <3>4, <3>5
    <2>5. Exists(t)' /\ HasSubmitter(disk', t) /\ thread'[t].message # 0 =>
             <<Submitter(disk', t), thread'[t].message>> \in owed'[t]
      <3> SUFFICES ASSUME Exists(t)', HasSubmitter(disk', t), thread'[t].message # 0
                   PROVE  <<Submitter(disk', t), thread'[t].message>> \in owed[t]
        BY <2>1
      <3>1. ~Says(t) /\ ~Reopened(t) /\ ~Born(t) /\ ~Gone(t)
        BY <1>4, <1>5, <1>6, <1>7 DEF Kept, Exists
      <3>2. thread'[t] = thread[t]
        BY <2>1, <3>1 DEF RecordMoves
      <3>3. HasSubmitter(disk, t)
        BY <1>7, <3>2 DEF Kept
      <3>4. QED
        BY <1>1, <2>2, <3>2, <3>3 DEF PromisesFit, Exists
    <2>6. QED
      BY <1>1, <2>1, <2>3, <2>4, <2>5 DEF PromisesFit, HasSubmitter, Submitter
  <1>8. CASE Dropped(t)
    <2>1. owed'[t] = owed[t] /\ ~Exists(t)' /\ RecordMoves(t)
      BY <1>8 DEF Dropped
    <2>2. thread'[t].status = "unborn" => thread[t].status = "unborn"
      BY <1>3, <1>4, <1>5, <1>6, <2>1 DEF RecordMoves
    <2>3. QED
      BY <1>1, <2>1, <2>2 DEF PromisesFit
  <1>9. CASE Routed(t)
    <2> DEFINE s == Submitter(disk', t)
               n == thread'[t].message
    <2>1. /\ n \in MessageIds /\ n <= Len(thread'[t].log) /\ Exists(t)'
          /\ <<s, n>> \in owed'[t]
          /\ \A p \in owed[t] : p[1] = s /\ p \in Sessions \X Nat /\ (p[2] < n \/ p = <<s, n>>)
      BY <1>9, NewestPromise
    <2>2. owed'[t] = owed[t] \cup {<<s, n>>} /\ HasSubmitter(disk', t)
      BY <1>9 DEF Routed
    <2>3. n \in Nat /\ Len(thread'[t].log) \in Nat
      BY <1>1, <1>2 DEF ThreadRecord
    <2>4. <<s, n>>[1] = s /\ <<s, n>>[2] = n
      OBVIOUS
    <2> HIDE DEF s, n
    <2>5. ASSUME NEW p \in owed'[t]
          PROVE  p[1] = s /\ p[2] \in MessageIds /\ p[2] <= Len(thread'[t].log)
      <3>1. CASE p = <<s, n>>
        BY <2>1, <2>4, <3>1
      <3>2. CASE p \in owed[t] /\ p # <<s, n>>
        <4>1. p[1] = s /\ p[2] \in Nat /\ p[2] < n
          BY <2>1, <3>2
        <4>2. p[2] \in MessageIds
          BY <1>1, <3>2 DEF PromisesFit
        <4>3. QED
          BY <2>1, <2>3, <4>1, <4>2
      <3>3. QED
        BY <2>2, <3>1, <3>2
    <2>6. thread'[t].status # "unborn"
      BY <2>1 DEF Exists
    <2>7. QED
      BY <2>1, <2>2, <2>5, <2>6 DEF PromisesFit, HasSubmitter, Submitter, s, n
  <1>10. ASSUME NEW i \in DOMAIN disk.deliveries[t], SettledAt(t, i)
         PROVE  PromisesFit(t)'
    BY <1>1, <1>10 DEF SettledAt, PromisesFit, HasSubmitter, Submitter, Exists
  <1>11. QED
    BY <1>7, <1>8, <1>9, <1>10 DEF RouteMoves

\* Acknowledging a delivery changes nothing else about it.
LEMMA SettledMeans ==
  ASSUME TypeOK, NEW t \in Threads, NEW i \in DOMAIN disk.deliveries[t], SettledAt(t, i)
  PROVE  /\ DOMAIN disk'.deliveries[t] = DOMAIN disk.deliveries[t]
         /\ \A j \in DOMAIN disk.deliveries[t] :
               /\ disk'.deliveries[t][j].session = disk.deliveries[t][j].session
               /\ disk'.deliveries[t][j].message = disk.deliveries[t][j].message
               /\ disk'.deliveries[t][j].acked = (disk.deliveries[t][j].acked \/ j = i)
  <1> DEFINE d == [disk.deliveries[t][i] EXCEPT !.acked = TRUE]
  <1>1. disk.deliveries[t] \in Seq(Delivery)
    BY DEF TypeOK, HarnessState
  <1>2. disk.deliveries[t][i] \in Delivery
    BY <1>1
  <1>3. /\ d.session = disk.deliveries[t][i].session
        /\ d.message = disk.deliveries[t][i].message
        /\ d.acked = TRUE
    BY <1>2 DEF Delivery
  <1>4. disk'.deliveries[t] = [disk.deliveries[t] EXCEPT ![i] = d]
    BY DEF SettledAt
  <1> HIDE DEF d
  <1>5. /\ DOMAIN disk'.deliveries[t] = DOMAIN disk.deliveries[t]
        /\ \A j \in DOMAIN disk.deliveries[t] :
              disk'.deliveries[t][j] = IF j = i THEN d ELSE disk.deliveries[t][j]
    BY <1>1, <1>4
  <1>6. \A j \in DOMAIN disk.deliveries[t] : disk.deliveries[t][j].acked \in BOOLEAN
    <2>1. \A j \in DOMAIN disk.deliveries[t] : disk.deliveries[t][j] \in Delivery
      BY <1>1
    <2>2. QED
      BY <2>1 DEF Delivery
  <1>7. \A j \in DOMAIN disk.deliveries[t] :
           disk'.deliveries[t][j].acked = (disk.deliveries[t][j].acked \/ j = i)
    BY <1>3, <1>5, <1>6
  <1>8. QED
    BY <1>3, <1>5, <1>7

\* A new delivery goes to the end of the list and leaves the others alone.
LEMMA RoutedMeans ==
  ASSUME TypeOK, TypeOK', NEW t \in Threads, Routed(t)
  PROVE  LET s   == Submitter(disk', t)
             n   == thread'[t].message
             old == disk.deliveries[t]
             new == disk'.deliveries[t]
         IN  \/ new = old /\ (Enqueued(disk, t, s, n) \/ ~up')
             \/ /\ up' /\ ~Enqueued(disk, t, s, n)
                /\ Len(old) \in Nat /\ Len(new) = Len(old) + 1
                /\ DOMAIN old = 1..Len(old) /\ DOMAIN new = 1..Len(old) + 1
                /\ \A i \in DOMAIN old : new[i] = old[i]
                /\ new[Len(old) + 1].session = s
                /\ new[Len(old) + 1].message = n
                /\ new[Len(old) + 1].acked = FALSE
  <1> DEFINE s == Submitter(disk', t)
             n == thread'[t].message
             d == [session |-> s, message |-> n, acked |-> FALSE]
  <1>1. disk.deliveries[t] \in Seq(Delivery)
    BY DEF TypeOK, HarnessState
  <1>2. s \in Sessions /\ n \in Nat
    BY SubmitterType DEF Routed, TypeOK, ThreadRecord
  <1>3. d \in Delivery /\ d.session = s /\ d.message = n /\ d.acked = FALSE
    BY <1>2 DEF Delivery
  <1>4. IF Enqueued(disk, t, s, n) \/ ~up'
        THEN disk'.deliveries[t] = disk.deliveries[t]
        ELSE disk'.deliveries[t] = Append(disk.deliveries[t], d)
    BY DEF Routed
  <1> HIDE DEF d, s, n
  <1>5. CASE Enqueued(disk, t, s, n) \/ ~up'
    BY <1>4, <1>5 DEF s, n
  <1>6. CASE ~(Enqueued(disk, t, s, n) \/ ~up')
    <2>1. disk'.deliveries[t] = Append(disk.deliveries[t], d)
      BY <1>4, <1>6
    <2>2. /\ Len(disk.deliveries[t]) \in Nat
          /\ Len(disk'.deliveries[t]) = Len(disk.deliveries[t]) + 1
          /\ DOMAIN disk.deliveries[t] = 1..Len(disk.deliveries[t])
          /\ DOMAIN disk'.deliveries[t] = 1..Len(disk.deliveries[t]) + 1
          /\ \A i \in DOMAIN disk.deliveries[t] :
                disk'.deliveries[t][i] = disk.deliveries[t][i]
          /\ disk'.deliveries[t][Len(disk.deliveries[t]) + 1] = d
      BY <1>1, <1>3, <2>1
    <2>3. QED
      BY <1>3, <1>6, <2>2 DEF s, n
  <1>7. QED
    BY <1>5, <1>6

LEMMA DeliveriesFitStep ==
  ASSUME RouteInv, RecordsFit', TypeOK', NEW t \in Threads, RouteMoves(t)
  PROVE  DeliveriesFit(t)'
  <1>1. TypeOK /\ DeliveriesFit(t)
    BY DEF RouteInv, ReadInv
  <1>2. CASE Kept(t)
    BY <1>1, <1>2 DEF Kept, DeliveriesFit
  <1>3. CASE Dropped(t)
    BY <1>3 DEF Dropped, DeliveriesFit
  <1>4. CASE Routed(t)
    <2> DEFINE s == Submitter(disk', t)
               n == thread'[t].message
               old == disk.deliveries[t]
               new == disk'.deliveries[t]
               last == Len(old) + 1
    <2>1. /\ n \in MessageIds /\ <<s, n>> \in owed'[t]
          /\ \A p \in owed[t] : p[1] = s /\ p \in Sessions \X Nat /\ (p[2] < n \/ p = <<s, n>>)
          /\ owed[t] \subseteq owed'[t]
      BY <1>4, NewestPromise DEF Routed
    <2>2. CASE new = old
      BY <1>1, <2>1, <2>2 DEF DeliveriesFit
    <2>3. CASE /\ ~Enqueued(disk, t, s, n)
               /\ Len(old) \in Nat
               /\ DOMAIN old = 1..Len(old) /\ DOMAIN new = 1..Len(old) + 1
               /\ \A i \in DOMAIN old : new[i] = old[i]
               /\ new[last].session = s
               /\ new[last].message = n
      <3>1. ASSUME NEW i \in DOMAIN old
            PROVE  old[i].message < n
        <4>1. <<old[i].session, old[i].message>> \in owed[t]
          BY <1>1 DEF DeliveriesFit
        <4>2. /\ old[i].session = s
              /\ old[i].message < n \/ old[i].message = n
          BY <2>1, <4>1
        <4>3. ~(old[i].session = s /\ old[i].message = n)
          BY <2>3 DEF Enqueued
        <4>4. QED
          BY <4>2, <4>3
      <3>2. \A i \in DOMAIN new : i \in DOMAIN old \/ i = last
        BY <2>3
      <3>3. ASSUME NEW i \in DOMAIN new
            PROVE  <<new[i].session, new[i].message>> \in owed'[t]
        BY <1>1, <2>1, <2>3, <3>2 DEF DeliveriesFit
      <3>4. ASSUME NEW i \in DOMAIN new, NEW j \in DOMAIN new, i < j
            PROVE  new[i].message < new[j].message
        <4>1. i \in DOMAIN old
          BY <2>3, <3>4
        <4>2. CASE j \in DOMAIN old
          BY <1>1, <2>3, <3>4, <4>1, <4>2 DEF DeliveriesFit
        <4>3. CASE j = last
          BY <2>3, <3>1, <4>1, <4>3
        <4>4. QED
          BY <3>2, <4>2, <4>3
      <3>5. QED
        BY <3>3, <3>4 DEF DeliveriesFit
    <2>4. QED
      BY <1>1, <1>4, <2>2, <2>3, RoutedMeans
  <1>5. ASSUME NEW i \in DOMAIN disk.deliveries[t], SettledAt(t, i)
        PROVE  DeliveriesFit(t)'
    <2>1. owed'[t] = owed[t]
      BY <1>5 DEF SettledAt
    <2>2. QED
      BY <1>1, <1>5, <2>1, SettledMeans DEF DeliveriesFit
  <1>6. QED
    BY <1>2, <1>3, <1>4, <1>5 DEF RouteMoves

\* No promised delivery record is lost in a step, or the restart recreates it.
LEMMA PromiseRoutedStep ==
  ASSUME RouteInv, RecordsFit', TypeOK', NEW t \in Threads, RouteMoves(t)
  PROVE  PromiseRouted(t)'
  <1>1. /\ TypeOK /\ PromiseRouted(t) /\ PromisesFit(t)
        /\ owed[t] \in SUBSET (Sessions \X Nat)
    BY DEF RouteInv, ReadInv, TypeOK
  <1> SUFFICES ASSUME Exists(t)', NEW p \in owed'[t]
               PROVE  \/ Enqueued(disk', t, p[1], p[2])
                      \/ /\ ~up'
                         /\ thread'[t].message = p[2]
                         /\ HasSubmitter(disk', t)
                         /\ Submitter(disk', t) = p[1]
    BY DEF PromiseRouted, Enqueued, HasSubmitter, Submitter
  <1>2. ASSUME p \in owed[t], Exists(t)
        PROVE  \/ Enqueued(disk, t, p[1], p[2])
               \/ /\ ~up
                  /\ thread[t].message = p[2] /\ p[2] # 0
                  /\ HasSubmitter(disk, t)
                  /\ Submitter(disk, t) = p[1]
    BY <1>1, <1>2 DEF PromiseRouted, PromisesFit, MessageIds
  <1>3. CASE Kept(t)
    <2>1. p \in owed[t] /\ disk'.deliveries[t] = disk.deliveries[t] /\ RecordMoves(t)
      BY <1>3 DEF Kept
    <2>2. Exists(t)
      <3>1. ~Born(t)
        BY <1>1, <2>1 DEF Born, PromisesFit
      <3>2. Gone(t) => ~Exists(t)'
        BY UnbornFacts DEF Gone, Exists
      <3>3. QED
        BY <2>1, <3>1, <3>2 DEF RecordMoves, Says, Reopened, Exists
    <2>3. CASE Enqueued(disk, t, p[1], p[2])
      BY <2>1, <2>3 DEF Enqueued
    <2>4. CASE ~Enqueued(disk, t, p[1], p[2])
      BY <1>2, <1>3, <2>1, <2>2, <2>4 DEF Kept, TypeOK
    <2>5. QED
      BY <2>3, <2>4
  <1>4. CASE Dropped(t)
    BY <1>4 DEF Dropped
  <1>5. CASE Routed(t)
    <2> DEFINE s == Submitter(disk', t)
               n == thread'[t].message
               old == disk.deliveries[t]
               new == disk'.deliveries[t]
    <2>1. p \in owed[t] \/ p = <<s, n>>
      BY <1>5 DEF Routed
    <2>2. HasSubmitter(disk', t) /\ Exists(t)
          /\ (HasSubmitter(disk, t) => Submitter(disk, t) = s)
          /\ (~up => thread'[t] = thread[t])
      BY <1>5 DEF Routed
    <2>3. ASSUME NEW r, NEW m, Enqueued(disk, t, r, m)
          PROVE  Enqueued(disk', t, r, m)
      <3>1. \/ new = old
            \/ /\ Len(old) \in Nat
               /\ DOMAIN old = 1..Len(old) /\ DOMAIN new = 1..Len(old) + 1
               /\ \A i \in DOMAIN old : new[i] = old[i]
        BY <1>1, <1>5, RoutedMeans
      <3>2. \A i \in DOMAIN old : i \in DOMAIN new /\ new[i] = old[i]
        BY <3>1
      <3>3. QED
        BY <2>3, <3>2 DEF Enqueued
    <2>4. Enqueued(disk', t, s, n) \/ ~up'
      <3>1. CASE new = old /\ (Enqueued(disk, t, s, n) \/ ~up')
        BY <2>3, <3>1
      <3>2. CASE /\ Len(old) \in Nat /\ DOMAIN new = 1..Len(old) + 1
                 /\ new[Len(old) + 1].session = s
                 /\ new[Len(old) + 1].message = n
        <4>1. Len(old) + 1 \in DOMAIN new
          BY <3>2
        <4>2. QED
          BY <3>2, <4>1 DEF Enqueued
      <3>3. QED
        BY <1>1, <1>5, <3>1, <3>2, RoutedMeans
    <2>5. CASE p = <<s, n>>
      <3>1. p[1] = s /\ p[2] = n
        BY <2>5
      <3> HIDE DEF s, n
      <3>2. QED
        BY <2>2, <2>4, <3>1 DEF s, n
    <2>6. CASE p \in owed[t]
      <3>1. CASE Enqueued(disk, t, p[1], p[2])
        BY <2>3, <3>1
      <3>2. CASE ~up /\ thread[t].message = p[2] /\ HasSubmitter(disk, t) /\ Submitter(disk, t) = p[1]
        <4>1. p[1] = s /\ p[2] = n
          BY <2>2, <3>2
        <4> HIDE DEF s, n
        <4>2. QED
          BY <2>2, <2>4, <4>1 DEF s, n
      <3>3. QED
        BY <1>2, <2>2, <2>6, <3>1, <3>2
    <2>7. QED
      BY <2>1, <2>5, <2>6
  <1>6. ASSUME NEW i \in DOMAIN disk.deliveries[t], SettledAt(t, i)
        PROVE  Enqueued(disk', t, p[1], p[2])
    <2>1. p \in owed[t] /\ up /\ thread'[t] = thread[t]
      BY <1>6 DEF SettledAt
    <2>2. Enqueued(disk, t, p[1], p[2])
      BY <1>2, <2>1 DEF Exists
    <2>3. QED
      BY <1>1, <1>6, <2>2, SettledMeans DEF Enqueued
  <1>7. QED
    BY <1>3, <1>4, <1>5, <1>6 DEF RouteMoves

LEMMA RouteInit == Init => RouteInv
  <1> SUFFICES ASSUME Init PROVE RouteInv
    OBVIOUS
  <1>1. FitsAll(mem, thread) /\ FitsAll(disk, thread) /\ LivesAll(mem, thread)
    BY DEF Init, NoHarnessState, FitsAll, LivesAll, Fits, Lives
  <1>2. ReadInv
    BY <1>1, TypeInit, RecordsFitInit DEF ReadInv
  <1>3. OneCopy
    BY DEF Init, OneCopy
  <1>4. ASSUME NEW t \in Threads
        PROVE  PromisesFit(t) /\ DeliveriesFit(t) /\ PromiseRouted(t)
    BY DEF Init, NoHarnessState, Unborn, PromisesFit, DeliveriesFit, PromiseRouted, Exists
  <1>5. QED
    BY <1>2, <1>3, <1>4 DEF RouteInv

LEMMA RouteStep ==
  ASSUME ~WriteFaults, RouteInv, [Next]_vars
  PROVE  RouteInv'
  <1>1. ReadInv'
    BY ReadStep DEF RouteInv
  <1>2. RecordsFit' /\ TypeOK'
    BY <1>1 DEF ReadInv
  <1>3. OneCopy' /\ \A t \in Threads : RouteMoves(t)
    BY EveryRouteMoves
  <1>4. \A t \in Threads : PromisesFit(t)' /\ DeliveriesFit(t)' /\ PromiseRouted(t)'
    BY <1>2, <1>3, PromisesFitStep, DeliveriesFitStep, PromiseRoutedStep
  <1>5. QED
    BY <1>1, <1>3, <1>4 DEF RouteInv

(* No promised Message is lost, across crashes between the two writes of   *)
(* sessionSendMessage and harnessBind and across any number of restarts,   *)
(* as long as the writes of the harness-state file succeed.                *)
THEOREM NoPromiseIsLost ==
  ASSUME ~WriteFaults
  PROVE  Spec => []PromisesAreRouted
  <1>1. RouteInv /\ [Next]_vars => RouteInv'
    BY RouteStep
  <1>2. RouteInv => PromisesAreRouted
    BY DEF RouteInv, OneCopy, PromiseRouted, PromisesAreRouted
  <1>3. QED
    BY <1>1, <1>2, RouteInit, PTL DEF Spec

LEMMA OnlyStartWhileDown ==
  ASSUME [Next]_vars, ~up
  PROVE  Start \/ UNCHANGED thread
  <1>1. ASSUME NEW t \in Threads, NEW c \in Contents,
               CreateThread(t, c) \/ SubmitRevision(t, c)
        PROVE  FALSE
    BY <1>1 DEF CreateThread, SubmitRevision
  <1>2. ASSUME NEW t \in Threads, NEW s \in Sessions, Bind(t, s) \/ Fetch(s, t)
        PROVE  FALSE
    BY <1>2 DEF Bind, Fetch
  <1>3. ASSUME NEW t \in Threads, NEW o \in Outcomes,
               NEW op \in Operations \cup {NoOperation}, SendMessage(t, o, op)
        PROVE  FALSE
    BY <1>3 DEF SendMessage
  <1>4. ASSUME NEW t \in Threads, DeleteThread(t)
        PROVE  FALSE
    BY <1>4 DEF DeleteThread
  <1>5. ASSUME NEW t \in Threads, NEW s \in Sessions, NEW n \in MessageIds,
               NEW c \in Contents, ConsumeApprovedRetry(t, s, n, c)
        PROVE  FALSE
    BY <1>5 DEF ConsumeApprovedRetry
  <1>6. ASSUME NEW t \in Threads, NEW w \in Waiters, Wait(w, t) \/ WaitTimesOut(w, t)
        PROVE  UNCHANGED thread
    BY <1>6 DEF Wait, WaitTimesOut
  <1>7. ~Crash
    BY DEF Crash
  <1>8. ASSUME NEW s \in Sessions,
               Inject(s) \/ Record(s) \/ Acknowledge(s) \/ AdapterStops(s)
        PROVE  UNCHANGED thread
    BY <1>8 DEF Inject, Record, Acknowledge, AdapterStops, daemonVars
  <1>9. CASE UNCHANGED vars
    BY <1>9 DEF vars
  <1>10. QED
    BY <1>1, <1>2, <1>3, <1>4, <1>5, <1>6, <1>7, <1>8, <1>9 DEF Next

\* A Thread that goes while the daemon is down has had all it was owed.
LEMMA PruneStep ==
  ASSUME ~WriteFaults, RouteInv, [Next]_vars, ~up, NEW t \in Threads,
         Exists(t), ~Exists(t)', NEW p \in owed[t]
  PROVE  Acknowledged(disk, t, p[1], p[2])
  <1>1. /\ TypeOK /\ PromiseRouted(t) /\ PromisesFit(t) /\ disk \in HarnessState
        /\ thread[t].message \in Nat
    BY DEF RouteInv, ReadInv, TypeOK, ThreadRecord
  <1> DEFINE n == thread[t].message
             r == Reconcile(disk, t, n).deliveries[t]
             d == [session |-> Submitter(disk, t), message |-> n, acked |-> FALSE]
  <1>2. Start
    BY OnlyStartWhileDown DEF Exists
  <1>3. t \in Prunable
    BY <1>2 DEF Start, Exists, TypeOK
  <1>4. ~HasPending(Reconciled, t)
    BY <1>3 DEF Prunable
  <1>5. Reconciled.deliveries[t] = r
    BY DEF Reconciled
  <1>6. \A i \in DOMAIN r : r[i].acked
    BY <1>4, <1>5 DEF HasPending
  <1>7. r = IF n = 0 \/ ~HasSubmitter(disk, t) \/ Enqueued(disk, t, Submitter(disk, t), n)
            THEN disk.deliveries[t]
            ELSE Append(disk.deliveries[t], d)
    BY <1>1, ReconcileMeans
  <1>8. r = disk.deliveries[t]
    <2>1. ASSUME n # 0, HasSubmitter(disk, t), r = Append(disk.deliveries[t], d) PROVE FALSE
      <3>1. disk.deliveries[t] \in Seq(Delivery)
        BY <1>1 DEF HarnessState
      <3>2. d \in Delivery /\ d.acked = FALSE
        BY <1>1, <2>1, SubmitterType DEF Delivery
      <3> HIDE DEF d, r
      <3>3. Len(disk.deliveries[t]) + 1 \in DOMAIN r /\ r[Len(disk.deliveries[t]) + 1] = d
        BY <2>1, <3>1, <3>2
      <3>4. QED
        BY <1>6, <3>2, <3>3
    <2> HIDE DEF r, d
    <2>2. QED
      BY <1>7, <2>1
  <1>9. Enqueued(disk, t, p[1], p[2])
    <2>1. p[2] # 0
      BY <1>1 DEF PromisesFit, MessageIds
    <2>2. \/ Enqueued(disk, t, p[1], p[2])
          \/ n = p[2] /\ HasSubmitter(disk, t) /\ Submitter(disk, t) = p[1]
      BY <1>1 DEF PromiseRouted
    <2>3. CASE n = p[2] /\ HasSubmitter(disk, t) /\ Submitter(disk, t) = p[1]
      <3>1. ASSUME ~Enqueued(disk, t, p[1], p[2])
            PROVE  r # disk.deliveries[t]
        <4>1. disk.deliveries[t] \in Seq(Delivery)
          BY <1>1 DEF HarnessState
        <4>2. d \in Delivery
          BY <1>1, <2>3, SubmitterType DEF Delivery
        <4>3. r = Append(disk.deliveries[t], d)
          BY <1>7, <2>1, <2>3, <3>1
        <4> HIDE DEF d, r
        <4>4. Len(r) = Len(disk.deliveries[t]) + 1
          BY <4>1, <4>2, <4>3
        <4>5. QED
          BY <4>1, <4>4
      <3>2. QED
        BY <1>8, <3>1
    <2>4. QED
      BY <2>2, <2>3
  <1>10. QED
    BY <1>6, <1>8, <1>9 DEF Enqueued, Acknowledged

(* Retention at start-up never discards a Thread that still owes its       *)
(* submitter a Message, counting the delivery that the crashed process had *)
(* no time to write (reconcile before prune in api.ts).                    *)
THEOREM RetentionOnlyTakesSettled ==
  ASSUME ~WriteFaults
  PROVE  Spec => PruneOnlySettled
  <1>1. RouteInv /\ [Next]_vars => RouteInv'
    BY RouteStep
  <1>2. RouteInv /\ [Next]_vars =>
           [~up => \A t \in Threads :
               Exists(t) /\ ~Exists(t)' =>
                   \A p \in owed[t] : Acknowledged(disk, t, p[1], p[2])]_vars
    BY PruneStep
  <1>3. QED
    BY <1>1, <1>2, RouteInit, PTL DEF Spec, PruneOnlySettled

-----------------------------------------------------------------------------
(* The adapters' half of the contract: what a session was handed, what is  *)
(* pending for it and what its pass still holds, in sending order.         *)

\* Only promised Messages were handed over.
OnlyPromised(s, t) == \A n \in Nat : WasInjected(s, t, n) => <<s, n>> \in owed[t]

\* Nothing that is still pending is older than what was handed over.
NoneOvertaken(s, t) ==
    \A n \in Nat : WasInjected(s, t, n) =>
        \A i \in PendingPlaces(disk, t, s) : n <= disk.deliveries[t][i].message

\* A pass may run with a stale list.  Whatever is older than a delivery it
\* still holds was handed over or is ahead of it in the same list.
PassFits(s) ==
    Busy(s) =>
        LET t == job[s].thread IN
        \A d \in job[s].todo :
            /\ <<s, d.message>> \in owed[t]
            /\ \A n \in Nat : WasInjected(s, t, n) => n <= d.message
            /\ \A e \in job[s].todo : e.message < d.message => e.place < d.place
            /\ \A e \in job[s].todo : e.place < d.place => e.message < d.message
            /\ \A p \in owed[t] : p[2] < d.message =>
                  WasInjected(s, t, p[2]) \/ \E e \in job[s].todo : e.message = p[2]
            /\ \A i \in PendingPlaces(disk, t, s) :
                  disk.deliveries[t][i].message < d.message =>
                      \E e \in job[s].todo : e.message = disk.deliveries[t][i].message

SessionsFit ==
    /\ \A s \in Sessions, t \in Threads : OnlyPromised(s, t) /\ NoneOvertaken(s, t)
    /\ \A s \in Sessions : PassFits(s)

ContractInv == RouteInv /\ AckInv /\ SessionsFit

\* New promises come after the old ones.
LEMMA PromisesGrow ==
  ASSUME RouteInv, RecordsFit', TypeOK', NEW t \in Threads, RouteMoves(t)
  PROVE  /\ owed[t] \subseteq owed'[t]
         /\ \A p \in owed'[t] : p \in owed[t] \/ \A q \in owed[t] : q[2] < p[2]
  <1>1. CASE Routed(t)
    <2> DEFINE s == Submitter(disk', t)
               n == thread'[t].message
    <2>1. owed'[t] = owed[t] \cup {<<s, n>>}
      BY <1>1 DEF Routed
    <2>2. \A p \in owed[t] : p[2] < n \/ p = <<s, n>>
      BY <1>1, NewestPromise
    <2>3. <<s, n>>[2] = n
      OBVIOUS
    <2> HIDE DEF s, n
    <2>4. QED
      BY <2>1, <2>2, <2>3
  <1>2. CASE ~Routed(t)
    BY <1>2 DEF RouteMoves, Kept, Dropped, SettledAt
  <1>3. QED
    BY <1>1, <1>2

\* What is pending was pending before, or is newer than every old promise.
LEMMA PendingMoves ==
  ASSUME RouteInv, RecordsFit', TypeOK', NEW t \in Threads, RouteMoves(t),
         NEW s \in Sessions, NEW i \in PendingPlaces(disk', t, s)
  PROVE  \/ /\ i \in PendingPlaces(disk, t, s)
            /\ disk'.deliveries[t][i].message = disk.deliveries[t][i].message
         \/ \A q \in owed[t] : q[2] <= disk'.deliveries[t][i].message
  <1>1. TypeOK /\ owed[t] \in SUBSET (Sessions \X Nat)
    BY DEF RouteInv, ReadInv, TypeOK
  <1>2. CASE Kept(t)
    BY <1>2 DEF Kept, PendingPlaces
  <1>3. CASE Dropped(t)
    BY <1>3 DEF Dropped, PendingPlaces
  <1>4. CASE Routed(t)
    <2> DEFINE r == Submitter(disk', t)
               n == thread'[t].message
               old == disk.deliveries[t]
               new == disk'.deliveries[t]
    <2>1. \/ new = old
          \/ /\ Len(old) \in Nat
             /\ DOMAIN old = 1..Len(old) /\ DOMAIN new = 1..Len(old) + 1
             /\ \A j \in DOMAIN old : new[j] = old[j]
             /\ new[Len(old) + 1].message = n
      BY <1>1, <1>4, RoutedMeans
    <2>2. \A q \in owed[t] : q[2] \in Nat /\ (q[2] < n \/ q = <<r, n>>)
      BY <1>1, <1>4, NewestPromise
    <2>3. n \in Nat /\ <<r, n>>[2] = n
      BY <1>4 DEF TypeOK, ThreadRecord
    <2>4. i \in DOMAIN new /\ new[i].session = s /\ ~new[i].acked
      BY DEF PendingPlaces
    <2> HIDE DEF r, n
    <2>5. CASE new = old
      BY <2>4, <2>5 DEF PendingPlaces
    <2>6. CASE i \in DOMAIN old /\ new[i] = old[i]
      BY <2>4, <2>6 DEF PendingPlaces
    <2>7. CASE new[i].message = n
      BY <2>2, <2>3, <2>7
    <2>8. QED
      BY <2>1, <2>4, <2>5, <2>6, <2>7
  <1>5. ASSUME NEW j \in DOMAIN disk.deliveries[t], SettledAt(t, j)
        PROVE  /\ i \in PendingPlaces(disk, t, s)
               /\ disk'.deliveries[t][i].message = disk.deliveries[t][i].message
    BY <1>1, <1>5, SettledMeans DEF PendingPlaces
  <1>6. QED
    BY <1>2, <1>3, <1>4, <1>5 DEF RouteMoves

\* Turns of the daemon, seen from what the sessions were handed.
LEMMA HandedStays ==
  ASSUME ContractInv, RecordsFit', TypeOK', NEW t \in Threads, RouteMoves(t),
         NEW s \in Sessions, injected'[s][t] = injected[s][t]
  PROVE  OnlyPromised(s, t)' /\ NoneOvertaken(s, t)'
  <1>1. /\ OnlyPromised(s, t) /\ NoneOvertaken(s, t) /\ RouteInv
        /\ \A n : WasInjected(s, t, n)' = WasInjected(s, t, n)
    BY DEF ContractInv, SessionsFit, WasInjected
  <1>2. OnlyPromised(s, t)'
    BY <1>1, PromisesGrow DEF OnlyPromised
  <1>3. NoneOvertaken(s, t)'
    <2> SUFFICES ASSUME NEW n \in Nat, WasInjected(s, t, n),
                        NEW i \in PendingPlaces(disk', t, s)
                 PROVE  n <= disk'.deliveries[t][i].message
      BY <1>1 DEF NoneOvertaken, PendingPlaces
    <2>1. <<s, n>> \in owed[t] /\ <<s, n>>[2] = n
      BY <1>1 DEF OnlyPromised
    <2>2. QED
      BY <1>1, <2>1, PendingMoves DEF NoneOvertaken
  <1>4. QED
    BY <1>2, <1>3

\* A pass that holds what it held before.
LEMMA PassGoesOn ==
  ASSUME ContractInv, RecordsFit', TypeOK', \A t \in Threads : RouteMoves(t),
         NEW s \in Sessions, injected'[s] = injected[s],
         Busy(s)' => /\ Busy(s)
                     /\ job'[s].thread = job[s].thread
                     /\ job'[s].todo = job[s].todo
  PROVE  PassFits(s)'
  <1> DEFINE t == job[s].thread
  <1> SUFFICES ASSUME Busy(s)', NEW d \in job[s].todo
               PROVE  /\ <<s, d.message>> \in owed'[t]
                      /\ \A n \in Nat : WasInjected(s, t, n) => n <= d.message
                      /\ \A e \in job[s].todo : e.message < d.message => e.place < d.place
                      /\ \A e \in job[s].todo : e.place < d.place => e.message < d.message
                      /\ \A p \in owed'[t] : p[2] < d.message =>
                            \/ WasInjected(s, t, p[2])
                            \/ \E e \in job[s].todo : e.message = p[2]
                      /\ \A i \in PendingPlaces(disk', t, s) :
                            disk'.deliveries[t][i].message < d.message =>
                               \E e \in job[s].todo :
                                  e.message = disk'.deliveries[t][i].message
    <2>1. \A u, n : WasInjected(s, u, n)' = WasInjected(s, u, n)
      BY DEF WasInjected
    <2>2. Busy(s)' => job'[s].thread = t /\ job'[s].todo = job[s].todo
      OBVIOUS
    <2> HIDE DEF t
    <2>3. QED
      BY <2>1, <2>2 DEF PassFits, PendingPlaces
  <1>1. /\ RouteInv /\ TypeOK /\ PassFits(s) /\ Busy(s)
    BY DEF ContractInv, RouteInv, ReadInv, SessionsFit
  <1>2. t \in Threads /\ d.message \in Nat
    BY <1>1, ForemostType DEF Job
  <1>4. RouteMoves(t) /\ owed[t] \in SUBSET (Sessions \X Nat) /\ owed'[t] \in SUBSET (Sessions \X Nat)
    BY <1>1, <1>2 DEF TypeOK
  <1>5. /\ owed[t] \subseteq owed'[t]
        /\ \A p \in owed'[t] : p \in owed[t] \/ \A q \in owed[t] : q[2] < p[2]
    BY <1>1, <1>2, <1>4, PromisesGrow
  <1>6. <<s, d.message>> \in owed[t] /\ <<s, d.message>>[2] = d.message
    BY <1>1 DEF PassFits
  <1> HIDE DEF t
  <1>7. ASSUME NEW p \in owed'[t], p[2] < d.message
        PROVE  WasInjected(s, t, p[2]) \/ \E e \in job[s].todo : e.message = p[2]
    <2>1. p[2] \in Nat
      BY <1>4
    <2>2. p \in owed[t]
      BY <1>2, <1>5, <1>6, <1>7, <2>1
    <2>3. QED
      BY <1>1, <1>7, <2>2 DEF PassFits, t
  <1>8. ASSUME NEW i \in PendingPlaces(disk', t, s), disk'.deliveries[t][i].message < d.message
        PROVE  \E e \in job[s].todo : e.message = disk'.deliveries[t][i].message
    <2>1. disk'.deliveries[t][i].message \in Nat
      <3>1. disk'.deliveries[t] \in Seq(Delivery) /\ i \in DOMAIN disk'.deliveries[t]
        BY <1>2 DEF TypeOK, HarnessState, PendingPlaces
      <3>2. disk'.deliveries[t][i] \in Delivery
        BY <3>1
      <3>3. QED
        BY <3>2 DEF Delivery
    <2>2. ~(\A q \in owed[t] : q[2] <= disk'.deliveries[t][i].message)
      BY <1>2, <1>6, <1>8, <2>1
    <2>3. /\ i \in PendingPlaces(disk, t, s)
          /\ disk'.deliveries[t][i].message = disk.deliveries[t][i].message
      BY <1>1, <1>2, <1>4, <2>2, PendingMoves
    <2>4. QED
      BY <1>1, <1>8, <2>3 DEF PassFits, t
  <1>9. /\ \A n \in Nat : WasInjected(s, t, n) => n <= d.message
        /\ \A e \in job[s].todo : e.message < d.message => e.place < d.place
        /\ \A e \in job[s].todo : e.place < d.place => e.message < d.message
    BY <1>1 DEF PassFits, t
  <1>10. QED
    BY <1>5, <1>6, <1>7, <1>8, <1>9

\* A pass goes on with the oldest Message it holds.
LEMMA ForemostIsOldest ==
  ASSUME TypeOK, NEW s \in Sessions, Busy(s), PassFits(s)
  PROVE  /\ Foremost(s) \in job[s].todo
         /\ job[s].thread \in Threads
         /\ Foremost(s).message \in Nat
         /\ \A e \in job[s].todo : e.message \in Nat /\ Foremost(s).message <= e.message
  <1>1. /\ Foremost(s) \in job[s].todo
        /\ job[s] \in Job
        /\ \A e \in job[s].todo : Foremost(s).place <= e.place
    BY ForemostType
  <1>2. \A e \in job[s].todo : e.place \in Nat /\ e.message \in Nat
    BY <1>1 DEF Job
  <1>3. \A e \in job[s].todo : e.message < Foremost(s).message => e.place < Foremost(s).place
    BY <1>1 DEF PassFits
  <1>4. QED
    BY <1>1, <1>2, <1>3 DEF Job

\* The list that a pass starts with is complete and in order.
LEMMA FetchFits ==
  ASSUME ContractInv, NEW s \in Sessions, NEW t \in Threads, Fetch(s, t)
  PROVE  PassFits(s)'
  <1> DEFINE todo == {[place |-> i, message |-> disk.deliveries[t][i].message] :
                         i \in PendingPlaces(disk, t, s)}
  <1>1. /\ TypeOK /\ disk = mem /\ PromisesFit(t) /\ DeliveriesFit(t) /\ PromiseRouted(t)
        /\ Honest(disk, journal) /\ JournalledWasInjected
        /\ OnlyPromised(s, t) /\ NoneOvertaken(s, t)
        /\ owed[t] \in SUBSET (Sessions \X Nat)
    BY DEF ContractInv, RouteInv, ReadInv, OneCopy, AckInv, SessionsFit, TypeOK
  <1>2. /\ up /\ Exists(t) /\ UNCHANGED <<disk, owed, injected>>
        /\ job'[s].thread = t /\ job'[s].todo = todo
    BY <1>1 DEF Fetch, daemonVars, TypeOK
  <1>3. ASSUME NEW i \in DOMAIN disk.deliveries[t]
        PROVE  /\ i \in Nat
               /\ disk.deliveries[t][i].message \in Nat
               /\ <<disk.deliveries[t][i].session, disk.deliveries[t][i].message>> \in owed[t]
               /\ disk.deliveries[t][i].session = Submitter(disk, t)
    <2>1. disk.deliveries[t] \in Seq(Delivery)
      BY <1>1 DEF TypeOK, HarnessState
    <2>2. i \in Nat /\ disk.deliveries[t][i] \in Delivery
      BY <2>1
    <2>3. <<disk.deliveries[t][i].session, disk.deliveries[t][i].message>> \in owed[t]
      BY <1>1 DEF DeliveriesFit
    <2>4. QED
      BY <1>1, <1>2, <2>2, <2>3 DEF Delivery, PromisesFit
  <1>4. \A i \in PendingPlaces(disk, t, s) : i \in DOMAIN disk.deliveries[t]
                                             /\ disk.deliveries[t][i].session = s
    BY DEF PendingPlaces
  <1>5. ASSUME NEW i \in PendingPlaces(disk, t, s), NEW p \in owed[t]
        PROVE  \/ WasInjected(s, t, p[2])
               \/ \E j \in PendingPlaces(disk, t, s) : disk.deliveries[t][j].message = p[2]
    <2>1. Enqueued(disk, t, p[1], p[2])
      BY <1>1, <1>2 DEF PromiseRouted
    <2>2. PICK j \in DOMAIN disk.deliveries[t] :
             disk.deliveries[t][j].session = p[1] /\ disk.deliveries[t][j].message = p[2]
      BY <2>1 DEF Enqueued
    <2>3. disk.deliveries[t][j].session = s
      BY <1>3, <1>4, <2>2
    <2>4. CASE disk.deliveries[t][j].acked
      <3>1. <<t, p[2]>> \in journal[s]
        BY <1>1, <2>2, <2>3, <2>4 DEF Honest
      <3>2. p[2] \in Nat
        BY <1>1
      <3>3. QED
        BY <1>1, <3>1, <3>2 DEF JournalledWasInjected
    <2>5. CASE ~disk.deliveries[t][j].acked
      BY <2>2, <2>3, <2>5 DEF PendingPlaces
    <2>6. QED
      BY <2>4, <2>5
  <1> SUFFICES ASSUME NEW i \in PendingPlaces(disk, t, s)
               PROVE  LET m == disk.deliveries[t][i].message IN
            /\ <<s, m>> \in owed[t]
            /\ \A n \in Nat : WasInjected(s, t, n) => n <= m
            /\ \A e \in todo : e.message < m => e.place < i
            /\ \A e \in todo : e.place < i => e.message < m
            /\ \A p \in owed[t] : p[2] < m =>
                  WasInjected(s, t, p[2]) \/ \E e \in todo : e.message = p[2]
            /\ \A j \in PendingPlaces(disk, t, s) :
                  disk.deliveries[t][j].message < m =>
                      \E e \in todo : e.message = disk.deliveries[t][j].message
    <2>1. \A n : WasInjected(s, t, n)' = WasInjected(s, t, n)
      BY <1>2 DEF WasInjected
    <2>2. \A d \in todo : \E i \in PendingPlaces(disk, t, s) :
             d.place = i /\ d.message = disk.deliveries[t][i].message
      OBVIOUS
    <2> HIDE DEF todo
    <2>3. QED
      BY <1>2, <2>1, <2>2 DEF PassFits, PendingPlaces
  <1> DEFINE m == disk.deliveries[t][i].message
  <1>6. <<s, m>> \in owed[t]
    BY <1>3, <1>4
  <1>7. \A n \in Nat : WasInjected(s, t, n) => n <= m
    BY <1>1 DEF NoneOvertaken
  <1>8. \A e \in todo : (e.message < m => e.place < i) /\ (e.place < i => e.message < m)
    <2> SUFFICES ASSUME NEW j \in PendingPlaces(disk, t, s)
                 PROVE  disk.deliveries[t][j].message < m <=> j < i
      OBVIOUS
    <2>1. /\ i < j => m < disk.deliveries[t][j].message
          /\ j < i => disk.deliveries[t][j].message < m
      BY <1>1, <1>4 DEF DeliveriesFit
    <2>2. i \in Nat /\ j \in Nat /\ m \in Nat /\ disk.deliveries[t][j].message \in Nat
      BY <1>3, <1>4
    <2> HIDE DEF m
    <2>3. CASE i = j
      BY <2>2, <2>3 DEF m
    <2>4. QED
      BY <2>1, <2>2, <2>3
  <1>9. \A j \in PendingPlaces(disk, t, s) : \E e \in todo : e.message = disk.deliveries[t][j].message
    <2> SUFFICES ASSUME NEW j \in PendingPlaces(disk, t, s)
                 PROVE  \E e \in todo : e.message = disk.deliveries[t][j].message
      OBVIOUS
    <2>1. [place |-> j, message |-> disk.deliveries[t][j].message] \in todo
      OBVIOUS
    <2> HIDE DEF todo
    <2>2. QED
      BY <2>1
  <1> HIDE DEF todo
  <1>10. \A p \in owed[t] : WasInjected(s, t, p[2]) \/ \E e \in todo : e.message = p[2]
    BY <1>5, <1>9
  <1>11. QED
    BY <1>6, <1>7, <1>8, <1>9, <1>10

\* What Inject does to what was handed over.
LEMMA InjectHands ==
  ASSUME TypeOK, NEW s \in Sessions, Inject(s)
  PROVE  LET t == job[s].thread
             n == Foremost(s).message
         IN  /\ Busy(s) /\ UNCHANGED <<disk, owed>>
             /\ job'[s].thread = t /\ job'[s].todo = job[s].todo
             /\ \A r \in Sessions : r # s => job'[r] = job[r] /\ injected'[r] = injected[r]
             /\ \A u \in Threads : u # t => injected'[s][u] = injected[s][u]
             /\ \/ injected' = injected
                \/ /\ injected' = [injected EXCEPT ![s][t] = Append(@, n)]
                   /\ \A m \in Nat : WasInjected(s, t, m)' <=> WasInjected(s, t, m) \/ m = n
  <1> DEFINE t == job[s].thread
             n == Foremost(s).message
  <1>1. Busy(s)
    BY DEF Inject, Busy
  <1>2. /\ t \in Threads /\ n \in Nat /\ job[s] \in Job
        /\ injected[s][t] \in Seq(Nat)
    BY <1>1, ForemostType DEF Job, TypeOK
  <1>3. UNCHANGED <<disk, owed>>
    BY DEF Inject, daemonVars
  <1>4. /\ job'[s].thread = t /\ job'[s].todo = job[s].todo
        /\ \A r \in Sessions : r # s => job'[r] = job[r]
    <2>1. \/ job' = [job EXCEPT ![s].step = "ack"]
          \/ job' = [job EXCEPT ![s].step = "record"]
      BY DEF Inject
    <2>2. QED
      BY <1>2, <2>1 DEF TypeOK, Job
  <1>5. injected' = injected \/ injected' = [injected EXCEPT ![s][t] = Append(@, n)]
    BY DEF Inject
  <1> HIDE DEF t, n
  <1>6. CASE injected' = [injected EXCEPT ![s][t] = Append(@, n)]
    <2>1. injected'[s][t] = Append(injected[s][t], n)
      BY <1>2, <1>6 DEF TypeOK
    <2>2. /\ Len(injected[s][t]) \in Nat
          /\ DOMAIN injected[s][t] = 1..Len(injected[s][t])
          /\ DOMAIN injected'[s][t] = 1..Len(injected[s][t]) + 1
          /\ \A k \in DOMAIN injected[s][t] : injected'[s][t][k] = injected[s][t][k]
          /\ injected'[s][t][Len(injected[s][t]) + 1] = n
      BY <1>2, <2>1
    <2>3. \A m \in Nat : (\E k \in DOMAIN injected'[s][t] : injected'[s][t][k] = m)
                         <=> (\E k \in DOMAIN injected[s][t] : injected[s][t][k] = m) \/ m = n
      <3>1. \A k : k \in DOMAIN injected'[s][t] <=>
                      k \in DOMAIN injected[s][t] \/ k = Len(injected[s][t]) + 1
        BY <2>2
      <3>2. QED
        BY <2>2, <3>1
    <2>4. \A m \in Nat : WasInjected(s, t, m)' <=> WasInjected(s, t, m) \/ m = n
      BY <1>4, <2>3 DEF WasInjected, t
    <2>5. /\ \A r \in Sessions : r # s => injected'[r] = injected[r]
          /\ \A u \in Threads : u # t => injected'[s][u] = injected[s][u]
      BY <1>2, <1>6 DEF TypeOK
    <2>6. QED
      BY <1>1, <1>3, <1>4, <1>6, <2>4, <2>5 DEF t, n
  <1>7. CASE injected' = injected
    BY <1>1, <1>3, <1>4, <1>7 DEF t, n
  <1>8. QED
    BY <1>5, <1>6, <1>7

\* The injected Message is promised, and nothing older is still to come.
LEMMA InjectFits ==
  ASSUME ContractInv, RecordsFit', TypeOK', \A t \in Threads : RouteMoves(t),
         NEW s \in Sessions, Inject(s)
  PROVE  SessionsFit'
  <1> DEFINE t == job[s].thread
             n == Foremost(s).message
  <1>1. /\ TypeOK /\ SessionsFit /\ PassFits(s)
    BY DEF ContractInv, RouteInv, ReadInv, SessionsFit
  <1>2. /\ Busy(s) /\ UNCHANGED <<disk, owed>>
        /\ job'[s].thread = t /\ job'[s].todo = job[s].todo
        /\ \A r \in Sessions : r # s => job'[r] = job[r] /\ injected'[r] = injected[r]
        /\ \A u \in Threads : u # t => injected'[s][u] = injected[s][u]
        /\ \/ injected' = injected
           \/ \A m \in Nat : WasInjected(s, t, m)' <=> WasInjected(s, t, m) \/ m = n
    BY <1>1, InjectHands
  <1>3. /\ Foremost(s) \in job[s].todo /\ t \in Threads /\ n \in Nat
        /\ \A e \in job[s].todo : e.message \in Nat /\ n <= e.message
    BY <1>1, <1>2, ForemostIsOldest
  <1>4. \A m : (\E k \in DOMAIN injected'[s][t] : injected'[s][t][k] = m) <=> WasInjected(s, t, m)'
    BY <1>2 DEF WasInjected
  <1> HIDE DEF t, n
  <1>5. CASE injected' = injected
    <2>1. ASSUME NEW r \in Sessions
          PROVE  PassFits(r)'
      <3>1. Busy(r)' => Busy(r) /\ job'[r].thread = job[r].thread /\ job'[r].todo = job[r].todo
        BY <1>2 DEF Busy, t
      <3>2. injected'[r] = injected[r]
        BY <1>5
      <3>3. QED
        BY <3>1, <3>2, PassGoesOn
    <2>2. ASSUME NEW r \in Sessions, NEW u \in Threads
          PROVE  OnlyPromised(r, u)' /\ NoneOvertaken(r, u)'
      BY <1>5, HandedStays
    <2>3. QED
      BY <2>1, <2>2 DEF SessionsFit
  <1>6. CASE \A m \in Nat : WasInjected(s, t, m)' <=> WasInjected(s, t, m) \/ m = n
    <2>1. \A m \in Nat : (\E k \in DOMAIN injected'[s][t] : injected'[s][t][k] = m)
                         <=> WasInjected(s, t, m) \/ m = n
      BY <1>4, <1>6
    <2>2. OnlyPromised(s, t) /\ NoneOvertaken(s, t)
      BY <1>1, <1>3 DEF SessionsFit
    <2>3. <<s, n>> \in owed[t]
      BY <1>1, <1>2, <1>3 DEF PassFits, t, n
    <2>4. \A i \in PendingPlaces(disk, t, s) : n <= disk.deliveries[t][i].message
      <3> SUFFICES ASSUME NEW i \in PendingPlaces(disk, t, s)
                   PROVE  n <= disk.deliveries[t][i].message
        OBVIOUS
      <3>1. disk.deliveries[t][i].message \in Nat
        <4>1. disk.deliveries[t] \in Seq(Delivery) /\ i \in DOMAIN disk.deliveries[t]
          BY <1>1, <1>3 DEF TypeOK, HarnessState, PendingPlaces
        <4>2. disk.deliveries[t][i] \in Delivery
          BY <4>1
        <4>3. QED
          BY <4>2 DEF Delivery
      <3>2. disk.deliveries[t][i].message < n =>
               \E e \in job[s].todo : e.message = disk.deliveries[t][i].message
        BY <1>1, <1>2, <1>3 DEF PassFits, t, n
      <3>3. QED
        BY <1>3, <3>1, <3>2
    <2>5. OnlyPromised(s, t)'
      <3>1. ASSUME NEW m \in Nat, \E k \in DOMAIN injected'[s][t] : injected'[s][t][k] = m
            PROVE  <<s, m>> \in owed'[t]
        BY <1>2, <2>1, <2>2, <2>3, <3>1 DEF OnlyPromised
      <3>2. \A u : u = t => OnlyPromised(s, u)'
        BY <3>1 DEF OnlyPromised, WasInjected
      <3>3. t' = t
        BY <1>2 DEF t
      <3>4. QED
        BY <3>2, <3>3
    <2>6. NoneOvertaken(s, t)'
      <3>1. ASSUME NEW m \in Nat, \E k \in DOMAIN injected'[s][t] : injected'[s][t][k] = m,
                   NEW i \in PendingPlaces(disk, t, s)
            PROVE  m <= disk.deliveries[t][i].message
        BY <2>1, <2>2, <2>4, <3>1 DEF NoneOvertaken
      <3>2. \A u : u = t => NoneOvertaken(s, u)'
        BY <1>2, <3>1 DEF NoneOvertaken, WasInjected, PendingPlaces
      <3>3. t' = t
        BY <1>2 DEF t
      <3>4. QED
        BY <3>2, <3>3
    <2>7. ASSUME NEW r \in Sessions, NEW u \in Threads
          PROVE  OnlyPromised(r, u)' /\ NoneOvertaken(r, u)'
      <3>1. CASE r = s /\ u = t
        <4>1. t' = t
          BY <1>2 DEF t
        <4>2. QED
          BY <2>5, <2>6, <3>1, <4>1
      <3>2. CASE ~(r = s /\ u = t)
        <4>1. injected'[r][u] = injected[r][u]
          BY <1>2, <3>2
        <4>2. QED
          BY <4>1, HandedStays
      <3>3. QED
        BY <3>1, <3>2
    <2>8. PassFits(s)'
      <3> SUFFICES ASSUME NEW d \in job[s].todo
                   PROVE
            /\ <<s, d.message>> \in owed[t]
            /\ \A m \in Nat : WasInjected(s, t, m) \/ m = n => m <= d.message
            /\ \A e \in job[s].todo : e.message < d.message => e.place < d.place
            /\ \A e \in job[s].todo : e.place < d.place => e.message < d.message
            /\ \A p \in owed[t] : p[2] < d.message =>
                  WasInjected(s, t, p[2]) \/ \E e \in job[s].todo : e.message = p[2]
            /\ \A i \in PendingPlaces(disk, t, s) :
                  disk.deliveries[t][i].message < d.message =>
                      \E e \in job[s].todo : e.message = disk.deliveries[t][i].message
        <4>1. owed[t] \in SUBSET (Sessions \X Nat)
          BY <1>1, <1>3 DEF TypeOK
        <4>2. \A p \in owed[t] : p[2] \in Nat
          BY <4>1
        <4>3. QED
          BY <1>2, <1>6, <2>1, <4>2 DEF PassFits, PendingPlaces, WasInjected
      <3>1. n <= d.message
        BY <1>3
      <3>2. QED
        BY <1>1, <1>2, <3>1 DEF PassFits, t
    <2>9. ASSUME NEW r \in Sessions
          PROVE  PassFits(r)'
      <3>1. CASE r = s
        BY <2>8, <3>1
      <3>2. CASE r # s
        <4>1. injected'[r] = injected[r] /\ job'[r] = job[r]
          BY <1>2, <3>2
        <4>2. Busy(r)' => Busy(r) /\ job'[r].thread = job[r].thread /\ job'[r].todo = job[r].todo
          BY <4>1 DEF Busy
        <4>3. QED
          BY <4>1, <4>2, PassGoesOn
      <3>3. QED
        BY <3>1, <3>2
    <2>10. QED
      BY <2>7, <2>9 DEF SessionsFit
  <1>7. QED
    BY <1>2, <1>5, <1>6

\* A pass that has its oldest delivery acknowledged still fits.
LEMMA AdvanceFits ==
  ASSUME ContractInv, RecordsFit', TypeOK', NEW s \in Sessions,
         UNCHANGED <<owed, injected>>, job[s].step = "ack", Advance(s),
         SettledAt(job[s].thread, Foremost(s).place),
         disk.deliveries[job[s].thread][Foremost(s).place].session = s,
         disk.deliveries[job[s].thread][Foremost(s).place].message = Foremost(s).message
  PROVE  PassFits(s)'
  <1> DEFINE t == job[s].thread
             d0 == Foremost(s)
             left == job[s].todo \ {d0}
  <1>2. /\ TypeOK /\ PassFits(s) /\ Busy(s) /\ PassOf(s) /\ JournalledWasInjected
    BY DEF ContractInv, RouteInv, ReadInv, SessionsFit, Busy, AckInv, PassIsHonest
  <1>3. /\ d0 \in job[s].todo /\ t \in Threads /\ d0.message \in Nat
        /\ \A e \in job[s].todo : e.message \in Nat /\ d0.message <= e.message
    BY <1>2, ForemostIsOldest
  <1>4. DeliveriesFit(t)
    BY <1>3 DEF ContractInv, RouteInv
  <1>5. WasInjected(s, t, d0.message)
    BY <1>2, <1>3 DEF PassOf, JournalledWasInjected
  <1>6. Busy(s)' => job'[s].thread = t /\ job'[s].todo = left
    BY <1>2 DEF Advance, Busy, Idle, TypeOK
  <1>7. \A u, m : WasInjected(s, u, m)' = WasInjected(s, u, m)
    BY DEF WasInjected
  <1> HIDE DEF t, d0
  <1>8. ASSUME NEW i \in PendingPlaces(disk', t, s)
        PROVE  /\ i \in PendingPlaces(disk, t, s)
               /\ disk'.deliveries[t][i].message = disk.deliveries[t][i].message
               /\ disk.deliveries[t][i].message # d0.message
    <2>1. SettledAt(t, d0.place) /\ d0.place \in DOMAIN disk.deliveries[t]
      BY DEF SettledAt, t, d0
    <2>2. /\ i \in DOMAIN disk.deliveries[t]
          /\ disk'.deliveries[t][i].session = disk.deliveries[t][i].session
          /\ disk'.deliveries[t][i].message = disk.deliveries[t][i].message
          /\ ~(disk.deliveries[t][i].acked \/ i = d0.place)
          /\ disk'.deliveries[t][i].session = s
      <3>1. /\ DOMAIN disk'.deliveries[t] = DOMAIN disk.deliveries[t]
            /\ \A j \in DOMAIN disk.deliveries[t] :
                  /\ disk'.deliveries[t][j].session = disk.deliveries[t][j].session
                  /\ disk'.deliveries[t][j].message = disk.deliveries[t][j].message
                  /\ disk'.deliveries[t][j].acked = (disk.deliveries[t][j].acked \/ j = d0.place)
        BY <1>2, <1>3, <2>1, SettledMeans
      <3>2. i \in DOMAIN disk'.deliveries[t] /\ disk'.deliveries[t][i].session = s
            /\ ~disk'.deliveries[t][i].acked
        BY DEF PendingPlaces
      <3>3. QED
        BY <3>1, <3>2
    <2>3. disk.deliveries[t][d0.place].message = d0.message
      BY DEF t, d0
    <2>4. i \in Nat /\ d0.place \in Nat
      <3>1. disk.deliveries[t] \in Seq(Delivery)
        BY <1>2, <1>3 DEF TypeOK, HarnessState
      <3>2. QED
        BY <2>1, <2>2, <3>1
    <2>5. i < d0.place \/ d0.place < i
      BY <2>2, <2>4
    <2>6. \/ disk.deliveries[t][i].message < d0.message
          \/ d0.message < disk.deliveries[t][i].message
      BY <1>4, <2>1, <2>2, <2>3, <2>5 DEF DeliveriesFit
    <2>7. disk.deliveries[t][i].message # d0.message
      BY <1>3, <2>6
    <2>8. QED
      BY <2>2, <2>7 DEF PendingPlaces
  <1>9. left \subseteq job[s].todo /\ \A e \in job[s].todo : e \in left \/ e = d0
    OBVIOUS
  <1> HIDE DEF left
  <1>10. ASSUME NEW d \in left
         PROVE  /\ <<s, d.message>> \in owed[t]
                /\ \A n \in Nat : WasInjected(s, t, n) => n <= d.message
                /\ \A e \in left : e.message < d.message => e.place < d.place
                /\ \A e \in left : e.place < d.place => e.message < d.message
    BY <1>2, <1>9 DEF PassFits, t
  <1>11. ASSUME NEW d \in left, NEW p \in owed[t], p[2] < d.message
         PROVE  WasInjected(s, t, p[2]) \/ \E e \in left : e.message = p[2]
    <2>1. WasInjected(s, t, p[2]) \/ \E e \in job[s].todo : e.message = p[2]
      BY <1>2, <1>9, <1>11 DEF PassFits, t
    <2>2. QED
      BY <1>5, <1>9, <2>1
  <1>12. ASSUME NEW d \in left, NEW i \in PendingPlaces(disk', t, s),
                disk'.deliveries[t][i].message < d.message
         PROVE  \E e \in left : e.message = disk'.deliveries[t][i].message
    <2>1. \A j \in PendingPlaces(disk, t, s) : disk.deliveries[t][j].message < d.message =>
             \E e \in job[s].todo : e.message = disk.deliveries[t][j].message
      BY <1>2, <1>9 DEF PassFits, t
    <2>2. QED
      BY <1>8, <1>9, <1>12, <2>1
  <1>13. owed' = owed
    OBVIOUS
  <1>14. ASSUME Busy(s)', NEW d \in job'[s].todo
         PROVE  LET u == job'[s].thread IN
                /\ <<s, d.message>> \in owed'[u]
                /\ \A n \in Nat : WasInjected(s, u, n) => n <= d.message
                /\ \A e \in job'[s].todo : e.message < d.message => e.place < d.place
                /\ \A e \in job'[s].todo : e.place < d.place => e.message < d.message
    BY <1>6, <1>10, <1>13, <1>14
  <1>15. ASSUME Busy(s)', NEW d \in job'[s].todo
         PROVE  LET u == job'[s].thread IN
                \A p \in owed'[u] : p[2] < d.message =>
                   WasInjected(s, u, p[2]) \/ \E e \in job'[s].todo : e.message = p[2]
    BY <1>6, <1>11, <1>13, <1>15
  <1>16. ASSUME Busy(s)', NEW d \in job'[s].todo
         PROVE  LET u == job'[s].thread IN
                \A i \in PendingPlaces(disk', u, s) :
                   disk'.deliveries[u][i].message < d.message =>
                      \E e \in job'[s].todo : e.message = disk'.deliveries[u][i].message
    BY <1>6, <1>12, <1>16
  <1>17. QED
    BY <1>14, <1>15, <1>16 DEF PassFits, WasInjected

\* A turn that neither starts a pass, injects nor advances one.
LEMMA SessionsStay ==
  ASSUME ContractInv, RecordsFit', TypeOK', \A t \in Threads : RouteMoves(t),
         UNCHANGED injected,
         \A s \in Sessions : Busy(s)' => /\ Busy(s)
                                         /\ job'[s].thread = job[s].thread
                                         /\ job'[s].todo = job[s].todo
  PROVE  SessionsFit'
  <1>1. ASSUME NEW s \in Sessions, NEW t \in Threads
        PROVE  OnlyPromised(s, t)' /\ NoneOvertaken(s, t)'
    BY HandedStays
  <1>2. ASSUME NEW s \in Sessions
        PROVE  PassFits(s)'
    BY PassGoesOn
  <1>3. QED
    BY <1>1, <1>2 DEF SessionsFit

\* One pass changes as `PassFits(s)'` says, the others go on.
LEMMA OnePassMoves ==
  ASSUME ContractInv, RecordsFit', TypeOK', \A t \in Threads : RouteMoves(t),
         UNCHANGED injected, NEW s \in Sessions, PassFits(s)',
         \A r \in Sessions : r # s => job'[r] = job[r]
  PROVE  SessionsFit'
  <1>1. ASSUME NEW r \in Sessions, NEW t \in Threads
        PROVE  OnlyPromised(r, t)' /\ NoneOvertaken(r, t)'
    BY HandedStays
  <1>2. ASSUME NEW r \in Sessions
        PROVE  PassFits(r)'
    <2>1. CASE r # s
      <3>1. Busy(r)' => Busy(r) /\ job'[r].thread = job[r].thread /\ job'[r].todo = job[r].todo
        BY <2>1 DEF Busy
      <3>2. QED
        BY <3>1, PassGoesOn
    <2>2. QED
      BY <2>1
  <1>3. QED
    BY <1>1, <1>2 DEF SessionsFit

\* A pass that ends.
LEMMA PassEnds ==
  ASSUME NEW s \in Sessions, job'[s] = Idle
  PROVE  PassFits(s)'
  BY DEF PassFits, Busy, Idle

LEMMA SessionsStep ==
  ASSUME ~WriteFaults, ContractInv, [Next]_vars
  PROVE  SessionsFit'
  <1>0. /\ TypeOK /\ RouteInv
        /\ RecordsFit' /\ TypeOK'
        /\ \A t \in Threads : RouteMoves(t)
    BY RouteStep, EveryRouteMoves DEF ContractInv, RouteInv, ReadInv
  <1>1. ASSUME UNCHANGED <<job, injected>> PROVE SessionsFit'
    BY <1>0, <1>1, SessionsStay DEF Busy
  <1>2. ASSUME NEW t \in Threads, NEW c \in Contents,
               CreateThread(t, c) \/ SubmitRevision(t, c)
        PROVE  SessionsFit'
    BY <1>1, <1>2 DEF CreateThread, SubmitRevision, adapterVars
  <1>3. ASSUME NEW t \in Threads, NEW s \in Sessions, Bind(t, s) PROVE SessionsFit'
    BY <1>1, <1>3 DEF Bind, adapterVars
  <1>4. ASSUME NEW t \in Threads, NEW s \in Sessions, Fetch(s, t) PROVE SessionsFit'
    <2>1. UNCHANGED injected /\ \A r \in Sessions : r # s => job'[r] = job[r]
      BY <1>0, <1>4 DEF Fetch, TypeOK
    <2>2. PassFits(s)'
      BY <1>4, FetchFits
    <2>3. QED
      BY <1>0, <2>1, <2>2, OnePassMoves
  <1>5. ASSUME NEW t \in Threads, NEW o \in Outcomes,
               NEW op \in Operations \cup {NoOperation}, SendMessage(t, o, op)
        PROVE  SessionsFit'
    BY <1>1, <1>5 DEF SendMessage, adapterVars
  <1>6. ASSUME NEW t \in Threads, DeleteThread(t) PROVE SessionsFit'
    BY <1>1, <1>6 DEF DeleteThread, adapterVars
  <1>7. ASSUME NEW t \in Threads, NEW s \in Sessions, NEW n \in MessageIds,
               NEW c \in Contents, ConsumeApprovedRetry(t, s, n, c)
        PROVE  SessionsFit'
    BY <1>1, <1>7 DEF ConsumeApprovedRetry, adapterVars
  <1>8. ASSUME NEW t \in Threads, NEW w \in Waiters, Wait(w, t) \/ WaitTimesOut(w, t)
        PROVE  SessionsFit'
    BY <1>1, <1>8 DEF Wait, WaitTimesOut, adapterVars
  <1>9. CASE Crash \/ Start
    BY <1>1, <1>9 DEF Crash, Start, adapterVars
  <1>10. ASSUME NEW s \in Sessions, Inject(s) PROVE SessionsFit'
    BY <1>0, <1>10, InjectFits
  <1>11. ASSUME NEW s \in Sessions, Record(s) PROVE SessionsFit'
    <2>1. UNCHANGED injected /\ job' = [job EXCEPT ![s].step = "ack"] /\ job[s].step = "record"
      BY <1>11 DEF Record
    <2>2. Busy(s) /\ job[s] \in Job
      BY <1>0, <2>1, ForemostType DEF Busy
    <2>3. \A r \in Sessions : Busy(r)' => /\ Busy(r)
                                          /\ job'[r].thread = job[r].thread
                                          /\ job'[r].todo = job[r].todo
      BY <1>0, <2>1, <2>2 DEF TypeOK, Busy, Job
    <2>4. QED
      BY <1>0, <2>1, <2>3, SessionsStay
  <1>12. ASSUME NEW s \in Sessions, Acknowledge(s) PROVE SessionsFit'
    <2>1. /\ UNCHANGED <<owed, injected>> /\ job[s].step = "ack"
          /\ \/ job' = [job EXCEPT ![s] = Idle]
             \/ /\ SettledAt(job[s].thread, Foremost(s).place)
                /\ disk.deliveries[job[s].thread][Foremost(s).place].session = s
                /\ disk.deliveries[job[s].thread][Foremost(s).place].message
                      = Foremost(s).message
                /\ Advance(s)
      BY <1>0, <1>12, RouteAcknowledge DEF Acknowledge
    <2>2. \A r \in Sessions : r # s => job'[r] = job[r]
      BY <1>0, <2>1 DEF Advance, TypeOK
    <2>3. PassFits(s)'
      <3>1. CASE job' = [job EXCEPT ![s] = Idle]
        <4>1. job'[s] = Idle
          BY <1>0, <3>1 DEF TypeOK
        <4>2. QED
          BY <4>1, PassEnds
      <3>2. CASE Advance(s)
        BY <1>0, <2>1, <3>1, <3>2, AdvanceFits
      <3>3. QED
        BY <2>1, <3>1, <3>2
    <2>4. QED
      BY <1>0, <2>1, <2>2, <2>3, OnePassMoves
  <1>13. ASSUME NEW s \in Sessions, AdapterStops(s) PROVE SessionsFit'
    <2>1. UNCHANGED injected /\ job' = [job EXCEPT ![s] = Idle]
      BY <1>13 DEF AdapterStops
    <2>2. job'[s] = Idle /\ \A r \in Sessions : r # s => job'[r] = job[r]
      BY <1>0, <2>1 DEF TypeOK
    <2>3. QED
      BY <1>0, <2>1, <2>2, PassEnds, OnePassMoves
  <1>14. CASE UNCHANGED vars
    BY <1>1, <1>14 DEF vars
  <1>15. QED
    BY <1>2, <1>3, <1>4, <1>5, <1>6, <1>7, <1>8, <1>9, <1>10, <1>11, <1>12, <1>13, <1>14
       DEF Next

LEMMA ContractInvInit == Init => ContractInv
  <1> SUFFICES ASSUME Init PROVE ContractInv
    OBVIOUS
  <1>1. \A s \in Sessions, t \in Threads : DOMAIN injected[s][t] = {}
    BY DEF Init
  <1>2. SessionsFit
    BY <1>1 DEF Init, Idle, SessionsFit, OnlyPromised, NoneOvertaken, WasInjected, PassFits, Busy
  <1>3. QED
    BY <1>2, RouteInit, AckInit DEF ContractInv

LEMMA ContractInvStep ==
  ASSUME ~WriteFaults, ContractInv, [Next]_vars
  PROVE  ContractInv'
  BY RouteStep, AckStep, SessionsStep DEF ContractInv

-----------------------------------------------------------------------------
(* The refinement: what each step is in the contract's terms. *)

\* The contract's `settled`, of one Thread.
Settled(t) ==
    {<<disk.deliveries[t][i].session, disk.deliveries[t][i].message>> :
        i \in {j \in DOMAIN disk.deliveries[t] : disk.deliveries[t][j].acked}}

\* Nothing that the contract speaks of changes.
LEMMA ContractRests ==
  ASSUME UNCHANGED <<owed, injected>>, \A t \in Threads : Settled(t)' = Settled(t)
  PROVE  UNCHANGED Contract!contractVars
  BY DEF Contract!contractVars, Settled

LEMMA SameDeliveriesSettled ==
  ASSUME NEW t \in Threads, disk'.deliveries[t] = disk.deliveries[t]
  PROVE  Settled(t)' = Settled(t)
  BY DEF Settled

LEMMA DroppedSettled ==
  ASSUME NEW t \in Threads, Dropped(t)
  PROVE  Settled(t)' = {}
  <1>1. disk'.deliveries[t] = <<>>
    BY DEF Dropped
  <1>2. QED
    BY <1>1 DEF Settled

\* A new delivery is not settled.
LEMMA RoutedSettled ==
  ASSUME TypeOK, TypeOK', NEW t \in Threads, Routed(t)
  PROVE  Settled(t)' = Settled(t)
  <1> DEFINE old == disk.deliveries[t]
             new == disk'.deliveries[t]
  <1>1. \/ new = old
        \/ /\ Len(old) \in Nat
           /\ DOMAIN old = 1..Len(old) /\ DOMAIN new = 1..Len(old) + 1
           /\ \A i \in DOMAIN old : new[i] = old[i]
           /\ new[Len(old) + 1].acked = FALSE
    BY RoutedMeans
  <1>2. CASE new = old
    BY <1>2, SameDeliveriesSettled
  <1>3. CASE /\ Len(old) \in Nat
             /\ DOMAIN old = 1..Len(old) /\ DOMAIN new = 1..Len(old) + 1
             /\ \A i \in DOMAIN old : new[i] = old[i]
             /\ new[Len(old) + 1].acked = FALSE
    <2>1. \A i : i \in DOMAIN new <=> i \in DOMAIN old \/ i = Len(old) + 1
      BY <1>3
    <2> HIDE DEF old, new
    <2>2. {i \in DOMAIN new : new[i].acked} = {i \in DOMAIN old : old[i].acked}
      BY <1>3, <2>1
    <2>3. {<<new[i].session, new[i].message>> : i \in {j \in DOMAIN new : new[j].acked}}
          = {<<old[i].session, old[i].message>> : i \in {j \in DOMAIN old : old[j].acked}}
      BY <1>3, <2>2
    <2>4. QED
      BY <2>3 DEF Settled, old, new
  <1>4. QED
    BY <1>1, <1>2, <1>3

\* An acknowledged delivery is.
LEMMA SettledSettles ==
  ASSUME TypeOK, NEW t \in Threads, NEW i \in DOMAIN disk.deliveries[t], SettledAt(t, i)
  PROVE  Settled(t)' = Settled(t) \cup
            {<<disk.deliveries[t][i].session, disk.deliveries[t][i].message>>}
  <1> DEFINE old == disk.deliveries[t]
             new == disk'.deliveries[t]
  <1>1. /\ DOMAIN new = DOMAIN old
        /\ \A j \in DOMAIN old :
              /\ new[j].session = old[j].session
              /\ new[j].message = old[j].message
              /\ new[j].acked = (old[j].acked \/ j = i)
    BY SettledMeans
  <1>2. i \in DOMAIN old
    OBVIOUS
  <1> HIDE DEF old, new
  <1>3. {j \in DOMAIN new : new[j].acked} = {j \in DOMAIN old : old[j].acked} \cup {i}
    BY <1>1, <1>2
  <1>4. {<<new[k].session, new[k].message>> : k \in {j \in DOMAIN new : new[j].acked}}
        = {<<old[k].session, old[k].message>> : k \in {j \in DOMAIN old : old[j].acked}}
             \cup {<<old[i].session, old[i].message>>}
    BY <1>1, <1>2, <1>3
  <1>5. QED
    BY <1>4 DEF Settled, old, new

\* The promise of one Thread's current Message.
LEMMA RoutedPromises ==
  ASSUME RouteInv, RecordsFit', TypeOK', UNCHANGED injected,
         NEW t \in Threads, Routed(t), Alone(t), owed' \in [Threads -> SUBSET (Sessions \X Nat)]
  PROVE  [Contract!ContractNext]_(Contract!contractVars)
  <1> DEFINE s == Submitter(disk', t)
             n == thread'[t].message
  <1>1. TypeOK /\ owed \in [Threads -> SUBSET (Sessions \X Nat)]
    BY DEF RouteInv, ReadInv, TypeOK
  <1>2. /\ n \in MessageIds
        /\ \A p \in owed[t] : p[1] = s /\ (p[2] < n \/ p = <<s, n>>)
    BY NewestPromise
  <1>3. owed'[t] = owed[t] \cup {<<s, n>>} /\ HasSubmitter(disk', t)
    BY DEF Routed
  <1>4. s \in Sessions
    BY <1>3, SubmitterType DEF TypeOK
  <1>5. \A u \in Threads : Settled(u)' = Settled(u)
    <2>1. Settled(t)' = Settled(t)
      BY <1>1, RoutedSettled
    <2>2. \A u \in Threads : u # t => Settled(u)' = Settled(u)
      BY SameDeliveriesSettled DEF Alone, Kept
    <2>3. QED
      BY <2>1, <2>2
  <1>6. \A u \in Threads : u # t => owed'[u] = owed[u]
    BY DEF Alone, Kept
  <1> HIDE DEF s, n
  <1>7. owed' = [owed EXCEPT ![t] = @ \cup {<<s, n>>}]
    BY <1>1, <1>3, <1>6
  <1>8. CASE <<s, n>> \in owed[t]
    <2>1. owed' = owed
      BY <1>1, <1>7, <1>8
    <2>2. QED
      BY <1>5, <2>1, ContractRests
  <1>9. CASE <<s, n>> \notin owed[t]
    <2>1. \A p \in owed[t] : p[1] = s /\ p[2] < n
      BY <1>2, <1>9
    <2>2. Contract!Promise(t, s, n)
      BY <1>5, <1>7, <2>1 DEF Contract!Promise, Settled
    <2>3. QED
      BY <1>2, <1>4, <2>2 DEF Contract!ContractNext
  <1>10. QED
    BY <1>8, <1>9

\* What is dropped is forgotten; nothing else is promised or settled.
LEMMA GoneForgets ==
  ASSUME UNCHANGED <<owed, injected>>, NEW gone \in SUBSET Threads,
         \A t \in Threads : Settled(t)' = IF t \in gone THEN {} ELSE Settled(t)
  PROVE  Contract!Forget(gone)
  BY DEF Contract!Forget, Settled

LEMMA DroppedForgets ==
  ASSUME UNCHANGED <<owed, injected>>,
         \A t \in Threads : Settled(t)' = Settled(t) \/ Settled(t)' = {}
  PROVE  [Contract!ContractNext]_(Contract!contractVars)
  <1>1. PICK gone \in SUBSET Threads :
           \A t \in Threads : t \in gone <=> Settled(t)' = {}
    <2>1. {t \in Threads : Settled(t)' = {}} \in SUBSET Threads
      OBVIOUS
    <2>2. QED
      BY <2>1
  <1>2. \A t \in Threads : Settled(t)' = IF t \in gone THEN {} ELSE Settled(t)
    BY <1>1
  <1>3. Contract!Forget(gone)
    BY <1>2, GoneForgets
  <1>4. QED
    BY <1>3 DEF Contract!ContractNext

\* The native send is the hand-over, of the oldest promise that is left.
LEMMA InjectHandsOver ==
  ASSUME ContractInv, NEW s \in Sessions, Inject(s)
  PROVE  [Contract!ContractNext]_(Contract!contractVars)
  <1> DEFINE t == job[s].thread
             n == Foremost(s).message
  <1>1. /\ TypeOK /\ PassFits(s)
        /\ \A u \in Threads : PromisesFit(u)
    BY DEF ContractInv, RouteInv, ReadInv, SessionsFit
  <1>2. /\ Busy(s) /\ UNCHANGED <<disk, owed>>
        /\ injected' = injected \/ injected' = [injected EXCEPT ![s][t] = Append(@, n)]
    BY <1>1, InjectHands
  <1>3. /\ Foremost(s) \in job[s].todo /\ t \in Threads /\ n \in Nat
        /\ \A e \in job[s].todo : e.message \in Nat /\ n <= e.message
    BY <1>1, <1>2, ForemostIsOldest
  <1>4. /\ <<s, n>> \in owed[t]
        /\ \A m \in Nat : WasInjected(s, t, m) => m <= n
        /\ \A p \in owed[t] : p[2] < n =>
              WasInjected(s, t, p[2]) \/ \E e \in job[s].todo : e.message = p[2]
    BY <1>1, <1>2, <1>3 DEF PassFits
  <1>5. \A u \in Threads : Settled(u)' = Settled(u)
    BY <1>2, SameDeliveriesSettled
  <1>6. <<s, n>>[2] = n
    OBVIOUS
  <1> HIDE DEF t, n
  <1>7. n \in MessageIds
    BY <1>1, <1>3, <1>4, <1>6 DEF PromisesFit
  <1>8. \A p \in owed[t] : p[2] \in Nat /\ (p[2] < n => WasInjected(s, t, p[2]))
    <2>1. owed[t] \in SUBSET (Sessions \X Nat)
      BY <1>1, <1>3 DEF TypeOK
    <2>2. \A p \in owed[t] : p[2] \in Nat
      BY <2>1
    <2>3. QED
      BY <1>3, <1>4, <2>2
  <1>9. \A m : m \in Contract!HandedTo(s, t) <=> WasInjected(s, t, m)
    BY DEF Contract!HandedTo, WasInjected
  <1>10. \A m \in Contract!HandedTo(s, t) : m \in Nat
    <2>1. injected[s][t] \in Seq(Nat)
      BY <1>1, <1>3 DEF TypeOK
    <2>2. QED
      BY <2>1 DEF Contract!HandedTo
  <1>11. CASE injected' = injected
    BY <1>2, <1>5, <1>11, ContractRests
  <1>12. CASE injected' = [injected EXCEPT ![s][t] = Append(@, n)]
    <2>1. \A m \in Contract!HandedTo(s, t) : m <= n
      BY <1>4, <1>9, <1>10
    <2>2. \A p \in owed[t] : p[2] < n => p[2] \in Contract!HandedTo(s, t)
      BY <1>8, <1>9
    <2>3. UNCHANGED owed /\ [u \in Threads |-> Settled(u)]' = [u \in Threads |-> Settled(u)]
      BY <1>2, <1>5
    <2>4. Contract!Hand(t, s, n)
      BY <1>4, <1>12, <2>1, <2>2, <2>3 DEF Contract!Hand, Settled
    <2>5. QED
      BY <1>3, <1>7, <2>4 DEF Contract!ContractNext
  <1>13. QED
    BY <1>2, <1>11, <1>12

\* An acknowledged delivery of a Message that was handed over settles it.
LEMMA AcknowledgedSettles ==
  ASSUME TypeOK, UNCHANGED <<owed, injected>>, NEW t \in Threads, Alone(t),
         NEW i \in DOMAIN disk.deliveries[t], SettledAt(t, i), NEW s, NEW n,
         disk.deliveries[t][i].session = s, disk.deliveries[t][i].message = n,
         WasInjected(s, t, n)
  PROVE  Contract!Settle(t, s, n)
  <1>1. Settled(t)' = Settled(t) \cup {<<s, n>>}
    BY SettledSettles
  <1>2. \A u \in Threads : u # t => Settled(u)' = Settled(u)
    BY SameDeliveriesSettled DEF Alone, Kept
  <1>3. n \in Contract!HandedTo(s, t)
    BY DEF Contract!HandedTo, WasInjected
  <1>4. [u \in Threads |-> Settled(u)]' =
           [[u \in Threads |-> Settled(u)] EXCEPT ![t] = @ \cup {<<s, n>>}]
    BY <1>1, <1>2
  <1>5. QED
    BY <1>3, <1>4 DEF Contract!Settle, Settled

\* The acknowledgement settles, and what it settles was handed over.
LEMMA AcknowledgeSettles ==
  ASSUME ~WriteFaults, ContractInv, [Next]_vars, NEW s \in Sessions, Acknowledge(s)
  PROVE  [Contract!ContractNext]_(Contract!contractVars)
  <1> DEFINE t == job[s].thread
             d == Foremost(s)
  <1>1. /\ TypeOK /\ RouteInv /\ PassOf(s) /\ JournalledWasInjected /\ PassFits(s)
        /\ \A u \in Threads : PromisesFit(u) /\ DeliveriesFit(u)
    BY DEF ContractInv, RouteInv, ReadInv, AckInv, PassIsHonest, SessionsFit
  <1>2. /\ t \in Threads /\ Alone(t) /\ UNCHANGED <<owed, injected>>
        /\ \/ UNCHANGED disk
           \/ /\ SettledAt(t, d.place)
              /\ disk.deliveries[t][d.place].session = s
              /\ disk.deliveries[t][d.place].message = d.message
    BY <1>1, RouteAcknowledge DEF Acknowledge
  <1>3. job[s].step = "ack" /\ Busy(s)
    BY DEF Acknowledge, Busy
  <1>4. d.message \in Nat /\ WasInjected(s, t, d.message)
    <2>1. d.message \in Nat
      BY <1>1, <1>3, ForemostIsOldest
    <2>2. QED
      BY <1>1, <1>2, <1>3, <2>1 DEF PassOf, JournalledWasInjected
  <1>5. CASE UNCHANGED disk
    BY <1>2, <1>5, SameDeliveriesSettled, ContractRests
  <1>6. CASE /\ SettledAt(t, d.place)
             /\ disk.deliveries[t][d.place].session = s
             /\ disk.deliveries[t][d.place].message = d.message
    <2>1. d.place \in DOMAIN disk.deliveries[t]
      BY <1>6 DEF SettledAt
    <2> HIDE DEF t, d
    <2>2. PICK u \in Threads, i \in DOMAIN disk.deliveries[t], n \in Nat :
             u = t /\ i = d.place /\ n = d.message
      BY <1>2, <1>4, <2>1
    <2>3. Alone(u) /\ i \in DOMAIN disk.deliveries[u]
      BY <1>2, <2>2 DEF Alone
    <2>4. SettledAt(u, i)
      BY <1>6, <2>2 DEF SettledAt
    <2>5. disk.deliveries[u][i].session = s /\ disk.deliveries[u][i].message = n
      BY <1>6, <2>2
    <2>6. WasInjected(s, u, n)
      BY <1>4, <2>2
    <2>7. n \in MessageIds
      <3>1. <<s, n>> \in owed[u]
        BY <1>1, <2>3, <2>5 DEF DeliveriesFit
      <3>2. <<s, n>>[2] = n
        OBVIOUS
      <3>3. QED
        BY <1>1, <3>1, <3>2 DEF PromisesFit
    <2>8. Contract!Settle(u, s, n)
      BY <1>1, <1>2, <2>3, <2>4, <2>5, <2>6, AcknowledgedSettles
    <2>9. QED
      BY <2>7, <2>8 DEF Contract!ContractNext
  <1>7. QED
    BY <1>2, <1>5, <1>6

\* The steps that move a Thread's routing, one Thread at a time.
LEMMA OneThreadRefines ==
  ASSUME RouteInv, RecordsFit', TypeOK', UNCHANGED injected, NEW t \in Threads, Alone(t),
         Kept(t) \/ Routed(t) \/ Dropped(t)
  PROVE  [Contract!ContractNext]_(Contract!contractVars)
  <1>1. TypeOK /\ owed' \in [Threads -> SUBSET (Sessions \X Nat)]
               /\ owed \in [Threads -> SUBSET (Sessions \X Nat)]
    BY DEF RouteInv, ReadInv, TypeOK
  <1>2. CASE Routed(t)
    BY <1>1, <1>2, RoutedPromises
  <1>3. CASE Kept(t) \/ Dropped(t)
    <2>1. owed' = owed
      BY <1>1, <1>3 DEF Alone, Kept, Dropped
    <2>2. \A u \in Threads : Kept(u) => Settled(u)' = Settled(u)
      BY SameDeliveriesSettled DEF Kept
    <2>3. \A u \in Threads : Settled(u)' = Settled(u) \/ Settled(u)' = {}
      BY <1>3, <2>2, DroppedSettled DEF Alone
    <2>4. QED
      BY <2>1, <2>3, DroppedForgets
  <1>4. QED
    BY <1>2, <1>3

LEMMA ContractStep ==
  ASSUME ~WriteFaults, ContractInv, [Next]_vars
  PROVE  [Contract!ContractNext]_(Contract!contractVars)
  <1>0. TypeOK /\ RouteInv /\ RecordsFit' /\ TypeOK'
    BY RouteStep DEF ContractInv, RouteInv, ReadInv
  <1>1. ASSUME UNCHANGED <<owed, injected>>,
               \A t \in Threads : disk'.deliveries[t] = disk.deliveries[t]
        PROVE  [Contract!ContractNext]_(Contract!contractVars)
    BY <1>1, SameDeliveriesSettled, ContractRests
  <1>2. ASSUME NEW t \in Threads, NEW c \in Contents,
               CreateThread(t, c) \/ SubmitRevision(t, c)
        PROVE  [Contract!ContractNext]_(Contract!contractVars)
    BY <1>1, <1>2 DEF CreateThread, SubmitRevision, adapterVars
  <1>3. ASSUME NEW t \in Threads, NEW s \in Sessions, Bind(t, s)
        PROVE  [Contract!ContractNext]_(Contract!contractVars)
    <2>1. UNCHANGED injected
      BY <1>3 DEF Bind, adapterVars
    <2>2. QED
      BY <1>0, <1>3, <2>1, RouteBind, OneThreadRefines
  <1>4. ASSUME NEW t \in Threads, NEW s \in Sessions, Fetch(s, t)
        PROVE  [Contract!ContractNext]_(Contract!contractVars)
    BY <1>1, <1>4 DEF Fetch, daemonVars
  <1>5. ASSUME NEW t \in Threads, NEW o \in Outcomes,
               NEW op \in Operations \cup {NoOperation}, SendMessage(t, o, op)
        PROVE  [Contract!ContractNext]_(Contract!contractVars)
    <2>1. UNCHANGED injected
      BY <1>5 DEF SendMessage, adapterVars
    <2>2. QED
      BY <1>0, <1>5, <2>1, RouteSendMessage, OneThreadRefines
  <1>6. ASSUME NEW t \in Threads, DeleteThread(t)
        PROVE  [Contract!ContractNext]_(Contract!contractVars)
    <2>1. UNCHANGED injected
      BY <1>6 DEF DeleteThread, adapterVars
    <2>2. QED
      BY <1>0, <1>6, <2>1, RouteDeleteThread, OneThreadRefines
  <1>7. ASSUME NEW t \in Threads, NEW s \in Sessions, NEW n \in MessageIds,
               NEW c \in Contents, ConsumeApprovedRetry(t, s, n, c)
        PROVE  [Contract!ContractNext]_(Contract!contractVars)
    <2>1. UNCHANGED <<owed, injected>>
      BY <1>7 DEF ConsumeApprovedRetry, adapterVars
    <2>2. disk'.deliveries = disk.deliveries
      <3> DEFINE used == [mem EXCEPT !.bindings[t][1].retry = n]
      <3>1. disk' = (IF used = mem THEN disk ELSE used)
        BY <1>7 DEF ConsumeApprovedRetry, Persist, PersistFails
      <3>2. used.deliveries = mem.deliveries /\ mem = disk
        BY <1>0 DEF RouteInv, OneCopy, TypeOK, HarnessState
      <3> HIDE DEF used
      <3>3. QED
        BY <3>1, <3>2
    <2>3. QED
      BY <1>1, <2>1, <2>2
  <1>8. ASSUME NEW t \in Threads, NEW w \in Waiters, Wait(w, t) \/ WaitTimesOut(w, t)
        PROVE  [Contract!ContractNext]_(Contract!contractVars)
    BY <1>1, <1>8 DEF Wait, WaitTimesOut, adapterVars
  <1>9. CASE Crash
    BY <1>1, <1>9 DEF Crash, DieWith, adapterVars
  <1>10. CASE Start
    <2>1. UNCHANGED <<owed, injected>> /\ \A t \in Threads : Kept(t) \/ Dropped(t) \/ Routed(t)
      BY <1>0, <1>10, RouteStart DEF Start, adapterVars
    <2>2. \A t \in Threads : Kept(t) => Settled(t)' = Settled(t)
      BY SameDeliveriesSettled DEF Kept
    <2>3. \A t \in Threads : Settled(t)' = Settled(t) \/ Settled(t)' = {}
      BY <1>0, <2>1, <2>2, DroppedSettled, RoutedSettled
    <2>4. QED
      BY <2>1, <2>3, DroppedForgets
  <1>11. ASSUME NEW s \in Sessions, Inject(s)
         PROVE  [Contract!ContractNext]_(Contract!contractVars)
    BY <1>11, InjectHandsOver
  <1>12. ASSUME NEW s \in Sessions, Record(s) \/ AdapterStops(s)
         PROVE  [Contract!ContractNext]_(Contract!contractVars)
    BY <1>1, <1>12 DEF Record, AdapterStops, daemonVars
  <1>13. ASSUME NEW s \in Sessions, Acknowledge(s)
         PROVE  [Contract!ContractNext]_(Contract!contractVars)
    BY <1>13, AcknowledgeSettles
  <1>14. CASE UNCHANGED vars
    BY <1>1, <1>14 DEF vars
  <1>15. QED
    BY <1>2, <1>3, <1>4, <1>5, <1>6, <1>7, <1>8, <1>9, <1>10, <1>11, <1>12, <1>13, <1>14
       DEF Next

LEMMA ContractStart == Init => Contract!ContractInit
  <1> SUFFICES ASSUME Init PROVE Contract!ContractInit
    OBVIOUS
  <1>1. \A t \in Threads : Settled(t) = {}
    BY DEF Init, NoHarnessState, Settled
  <1>2. QED
    BY <1>1 DEF Init, Contract!ContractInit, Settled

(* The whole machinery, with its crashes, restarts, stale lists, lost      *)
(* replies and retries, implements the contract: a session is handed every *)
(* promised Message at least once and in sending order, and nothing is     *)
(* settled that was not handed over.  A failed write of the harness-state  *)
(* file is left out: after it a promise may be forgotten, and a newer      *)
(* Message would then be handed over without the one before it.            *)
THEOREM DeliveryHonoursContract ==
  ASSUME ~WriteFaults
  PROVE  Spec => HonoursContract
  <1>1. ContractInv /\ [Next]_vars => ContractInv'
    BY ContractInvStep
  <1>2. ContractInv /\ [Next]_vars => [Contract!ContractNext]_(Contract!contractVars)
    BY ContractStep
  <1>3. QED
    BY <1>1, <1>2, ContractInvInit, ContractStart, PTL
       DEF Spec, HonoursContract, Contract!ContractSpec
==============================================================================
