------------------------- MODULE RemoteParts_proofs --------------------------
(***************************************************************************)
(* Theorems about two parts that share no state.  SingleInstance, for any  *)
(* number of processes, attempts, writes and crashes: its types, that two  *)
(* processes own a home only after a lock was removed that is not the one  *)
(* found stale, and that clients reach the process that serves.            *)
(* ThreadSubscription, for any number of changes and hitches: a            *)
(* subscription never replaces the state it shows by an older one.         *)
(***************************************************************************)
EXTENDS SingleInstance, ThreadSubscription, TLAPS

(* SingleInstance.                                                         *)

(* A starter that goes for the lock has an attempt left. *)
Attempting ==
    \A p \in Processes : pc[p] \in {"read", "check", "reclaim"} => attempt[p] < Attempts

(* Dead processes stay dead: the owner a starter found dead never returns.  *)
FoundWasOwner ==
    /\ lock # NoProcess => pc[lock] # "off"
    /\ \A p \in Processes : pc[p] \in {"check", "reclaim"} =>
          /\ found[p] \in Processes
          /\ pc[found[p]] # "off"
          /\ pc[p] = "reclaim" => pc[found[p]] = "dead"

(* Until a lock is stolen, an owner's lock is in place and its socket too.  *)
OwnersAreLocked ==
    ~stolen => \A p \in Processes : /\ Owns(p) => lock = p
                                    /\ pc[p] = "serve" => socket = p

LockInv == TypeOK /\ Attempting /\ FoundWasOwner /\ OwnersAreLocked

LEMMA InitLocked == Init => LockInv
  <1> SUFFICES ASSUME Init PROVE LockInv
    OBVIOUS
  <1>1. 0 \in 0..Attempts /\ 0 \in 0..MaxWrites /\ 0 \in 0..MaxCrashes
    BY ProcessAssumption
  <1>2. TypeOK
    BY <1>1 DEF Init, TypeOK, Running
  <1>3. Attempting /\ FoundWasOwner /\ OwnersAreLocked
    BY DEF Init, Attempting, FoundWasOwner, OwnersAreLocked, Owns, Owning
  <1> QED
    BY <1>2, <1>3 DEF LockInv

LEMMA StepLocked == LockInv /\ [Next]_vars => LockInv'
  <1> SUFFICES ASSUME LockInv, [Next]_vars PROVE LockInv'
    OBVIOUS
  <1> USE ProcessAssumption
  <1> USE DEF LockInv, TypeOK, Attempting, FoundWasOwner, OwnersAreLocked
  <1> USE DEF Goto, Running, Starting, Owning, Owns
  <1>1. ASSUME NEW p \in Processes, Construct(p) PROVE LockInv'
    BY <1>1 DEF Construct, files
  <1>2. ASSUME NEW p \in Processes, Settle(p) PROVE LockInv'
    BY <1>2 DEF Settle
  <1>3. ASSUME NEW p \in Processes, Link(p) PROVE LockInv'
    BY <1>3 DEF Link
  <1>4. ASSUME NEW p \in Processes, LinkExists(p) \/ GiveUp(p) PROVE LockInv'
    BY <1>4 DEF LinkExists, GiveUp, files
  <1>5. ASSUME NEW p \in Processes, ReadOwner(p) PROVE LockInv'
    BY <1>5 DEF ReadOwner, files
  <1>6. ASSUME NEW p \in Processes, OwnerAlive(p) \/ OwnerDead(p) PROVE LockInv'
    BY <1>6 DEF OwnerAlive, OwnerDead, Alive, files
  <1>7. ASSUME NEW p \in Processes, OwnerVanished(p) PROVE LockInv'
    BY <1>7 DEF OwnerVanished, files
  <1>8. ASSUME NEW p \in Processes, Reclaim(p) PROVE LockInv'
    <2>1. attempt[p] + 1 \in 0..Attempts
      BY <1>8 DEF Reclaim
    <2>2. pc' = [pc EXCEPT ![p] = "link"] /\ lock' = NoProcess /\ pc[p] = "reclaim"
      BY <1>8 DEF Reclaim
    <2>3. TypeOK'
      BY <1>8, <2>1, <2>2 DEF Reclaim
    <2>4. Attempting'
      BY <1>8, <2>2 DEF Reclaim
    <2>5. FoundWasOwner'
      BY <1>8, <2>2 DEF Reclaim
    <2>6. ASSUME ~stolen' PROVE ~\E q \in Processes : Owns(q)
      <3>1. ~stolen /\ lock \in {found[p], NoProcess}
        BY <1>8, <2>6 DEF Reclaim
      <3>2. found[p] \in Processes /\ pc[found[p]] = "dead"
        BY <2>2
      <3>3. ASSUME NEW q \in Processes, Owns(q) PROVE FALSE
        <4>1. lock = q
          BY <3>1, <3>3
        <4>2. q = found[p]
          BY <3>1, <4>1
        <4> QED
          BY <3>2, <3>3, <4>2
      <3> QED
        BY <3>3
    <2>7. OwnersAreLocked'
      <3>1. \A q \in Processes : Owns(q)' => Owns(q)
        BY <2>2
      <3>2. \A q \in Processes : pc'[q] = "serve" => Owns(q)'
        OBVIOUS
      <3> HIDE DEF Owns
      <3> QED
        BY <2>6, <3>1, <3>2
    <2> QED
      BY <2>3, <2>4, <2>5, <2>7
  <1>9. ASSUME NEW p \in Processes, Bind(p) PROVE LockInv'
    BY <1>9 DEF Bind
  <1>10. ASSUME NEW p \in Processes, Write(p) PROVE LockInv'
    BY <1>10 DEF Write
  <1>11. ASSUME NEW p \in Processes, Stop(p) \/ StopRefused(p) PROVE LockInv'
    BY <1>11 DEF Stop, StopRefused, files
  <1>12. ASSUME NEW p \in Processes, Release(p) PROVE LockInv'
    BY <1>12 DEF Release
  <1>13. ASSUME NEW p \in Processes, Crash(p) PROVE LockInv'
    BY <1>13 DEF Crash, Alive, files
  <1>14. CASE UNCHANGED vars
    BY <1>14 DEF vars
  <1> QED
    BY <1>1, <1>2, <1>3, <1>4, <1>5, <1>6, <1>7, <1>8, <1>9, <1>10, <1>11, <1>12,
       <1>13, <1>14 DEF Next, Start

LEMMA SpecLocked == Spec => []LockInv
  BY InitLocked, StepLocked, PTL DEF Spec

(* Every variable keeps its type; no process tries more often than Attempts. *)
THEOREM LockTypeCorrect == Spec => []TypeOK
  <1>1. LockInv => TypeOK
    BY DEF LockInv
  <1> QED
    BY <1>1, SpecLocked, PTL

(* However many daemons start, stop and die at once, two of them own the     *)
(* home only after a starter removed a lock that is not the one it read: a   *)
(* lock found stale may be removed safely, since the dead stay dead.         *)
THEOREM OneOwnerUnlessStolen == Spec => []ExclusiveUnlessStolen
  <1>1. LockInv => ExclusiveUnlessStolen
    BY DEF LockInv, OwnersAreLocked, ExclusiveUnlessStolen, Exclusive
  <1> QED
    BY <1>1, SpecLocked, PTL

(* Unless a lock was stolen, the process that serves has the socket: neither *)
(* a refused nor a stopping process takes it away.                           *)
THEOREM ServerIsReachable == Spec => []ReachableUnlessStolen
  <1>1. LockInv => ReachableUnlessStolen
    BY DEF LockInv, OwnersAreLocked, ReachableUnlessStolen
  <1> QED
    BY <1>1, SpecLocked, PTL

-----------------------------------------------------------------------------
(* ThreadSubscription.                                                     *)

Read == [epoch : Nat, version : Nat, seen : Nat]

SubTypeOK ==
    /\ server \in Nat
    /\ hints \in Nat
    /\ generation \in Nat
    /\ request \in Nat
    /\ shown \in Nat
    /\ reads \subseteq Read

(* No read is from a later connection or asked later than the last one, a  *)
(* connection that is down or stopped has none of its own, and no two      *)
(* reads share a connection and a version.                                 *)
ReadsAreOrdered ==
    /\ \A r \in reads :
          /\ r.epoch <= generation
          /\ r.epoch = generation => r.version <= request /\ Connected
    /\ \A r, q \in reads : r.epoch = q.epoch /\ r.version = q.version => r = q

\* Nothing is read or shown before the daemon has it.
NothingFromTheFuture ==
    /\ shown <= server
    /\ \A r \in reads : r.seen <= server

(* Why a stale value cannot be shown: the read that may still be shown has *)
(* seen at least what is shown.                                            *)
LastReadIsNewest == \A r \in reads : Current(r) /\ r.seen # 0 => r.seen >= shown

SubIInv ==
    /\ SubTypeOK
    /\ ReadsAreOrdered
    /\ NothingFromTheFuture
    /\ LastReadIsNewest

-----------------------------------------------------------------------------
LEMMA SubInitHolds == SubInit => SubIInv
  BY DEF SubInit, SubIInv, SubTypeOK, ReadsAreOrdered, NothingFromTheFuture, LastReadIsNewest

\* A refresh asks anew, and everything asked before is overtaken.
LEMMA RefreshKeeps ==
    ASSUME SubIInv, Connected, Refresh, Connected',
           UNCHANGED <<server, generation, shown>>, hints' \in Nat
    PROVE  SubIInv'
<1> DEFINE asked == [epoch |-> generation, version |-> request + 1, seen |-> 0]
<1>1. /\ request' = request + 1
      /\ reads' = reads \cup {asked}
  BY DEF Refresh
<1>2. SubTypeOK'
  BY <1>1 DEF SubIInv, SubTypeOK, Read
<1>3. \A r \in reads : r.epoch = generation => r.version < request + 1
  BY DEF SubIInv, SubTypeOK, ReadsAreOrdered, Read
<1>4. ReadsAreOrdered'
  <2>1. \A r \in reads' :
           /\ r.epoch <= generation'
           /\ r.epoch = generation' => r.version <= request' /\ Connected'
    BY <1>1, <1>3 DEF SubIInv, SubTypeOK, ReadsAreOrdered, Read
  <2>2. \A r, q \in reads' : r.epoch = q.epoch /\ r.version = q.version => r = q
    BY <1>1, <1>3 DEF SubIInv, SubTypeOK, ReadsAreOrdered, Read
  <2> QED BY <2>1, <2>2 DEF ReadsAreOrdered
<1>5. NothingFromTheFuture'
  BY <1>1 DEF SubIInv, SubTypeOK, NothingFromTheFuture
<1>6. LastReadIsNewest'
  BY <1>1, <1>3 DEF SubIInv, SubTypeOK, LastReadIsNewest, Current
<1> QED BY <1>2, <1>4, <1>5, <1>6 DEF SubIInv

\* The end of a connection leaves its reads to an earlier generation.
LEMMA CloseKeeps ==
    ASSUME SubIInv, NEW next, Close(next), reads' \subseteq reads,
           UNCHANGED <<server, request, shown>>
    PROVE  SubIInv'
<1>1. generation' = generation + 1 /\ hints' = 0
  BY DEF Close
<1>2. \A r \in reads' : r.epoch < generation'
  BY <1>1 DEF SubIInv, SubTypeOK, ReadsAreOrdered, Read
<1>3. SubTypeOK'
  BY <1>1 DEF SubIInv, SubTypeOK
<1>4. ReadsAreOrdered'
  <2>1. \A r \in reads' : r.epoch <= generation' /\ r.epoch # generation'
    BY <1>1, <1>2, <1>3 DEF SubTypeOK, Read
  <2> QED BY <2>1 DEF SubIInv, ReadsAreOrdered
<1>5. NothingFromTheFuture' /\ LastReadIsNewest'
  BY <1>2, <1>3 DEF SubIInv, NothingFromTheFuture, LastReadIsNewest, Current, SubTypeOK, Read
<1> QED BY <1>3, <1>4, <1>5 DEF SubIInv

\* Reads that go away disturb nothing.
LEMMA FewerReadsKeep ==
    ASSUME SubIInv, reads' \subseteq reads,
           UNCHANGED <<server, hints, mode, generation, request, shown>>
    PROVE  SubIInv'
  BY DEF SubIInv, SubTypeOK, ReadsAreOrdered, NothingFromTheFuture, LastReadIsNewest,
         Connected, Current

-----------------------------------------------------------------------------
LEMMA SubStepKeeps == SubIInv /\ [SubNext]_subVars => SubIInv'
<1> SUFFICES ASSUME SubIInv, [SubNext]_subVars PROVE SubIInv'
  OBVIOUS
<1>1. CASE Change
  BY <1>1 DEF Change, SubIInv, SubTypeOK, ReadsAreOrdered, NothingFromTheFuture,
              LastReadIsNewest, Connected, Current, Read
<1>2. ASSUME NEW r \in reads, ServerReads(r) PROVE SubIInv'
  <2> DEFINE served == [r EXCEPT !.seen = server]
  <2>1. /\ reads' = (reads \ {r}) \cup {served}
        /\ r \in Read
        /\ served \in Read
        /\ served.epoch = r.epoch /\ served.version = r.version /\ served.seen = server
    BY <1>2 DEF ServerReads, SubIInv, SubTypeOK, Read
  <2> HIDE DEF served
  <2>2. UNCHANGED <<server, hints, mode, generation, request, shown>>
    BY <1>2 DEF ServerReads
  <2>3. SubTypeOK'
    BY <2>1, <2>2 DEF SubIInv, SubTypeOK
  <2>4. ReadsAreOrdered'
    <3>1. \A q \in reads' :
             /\ q.epoch <= generation'
             /\ q.epoch = generation' => q.version <= request' /\ Connected'
      BY <2>1, <2>2 DEF SubIInv, ReadsAreOrdered, Connected
    <3>2. ASSUME NEW p \in reads', NEW q \in reads', p.epoch = q.epoch, p.version = q.version
          PROVE  p = q
      <4>1. (p = served \/ p \in reads \ {r}) /\ (q = served \/ q \in reads \ {r})
        BY <2>1
      <4> QED BY <2>1, <3>2, <4>1 DEF SubIInv, ReadsAreOrdered
    <3> QED BY <3>1, <3>2 DEF ReadsAreOrdered
  <2>5. NothingFromTheFuture'
    BY <2>1, <2>2 DEF SubIInv, SubTypeOK, NothingFromTheFuture
  <2>6. ASSUME NEW q \in reads', Current(q)', q.seen # 0 PROVE q.seen >= shown
    <3>1. Current(q)
      BY <2>2, <2>6 DEF Current
    <3>2. q = served \/ q \in reads
      BY <2>1
    <3> QED BY <2>1, <2>6, <3>1, <3>2 DEF SubIInv, SubTypeOK, Read, NothingFromTheFuture, LastReadIsNewest
  <2> QED BY <2>2, <2>3, <2>4, <2>5, <2>6 DEF SubIInv, LastReadIsNewest
<1>3. ASSUME NEW r \in reads, Answer(r) PROVE SubIInv'
  <2>1. CASE Current(r)
    <3>1. /\ reads' = reads \ {r}
          /\ shown' = r.seen
          /\ UNCHANGED <<server, hints, mode, generation, request>>
      BY <1>3, <2>1 DEF Answer
    <3>2. \A q \in reads' : ~Current(q)'
      BY <2>1, <3>1 DEF SubIInv, ReadsAreOrdered, Current
    <3> QED BY <3>1, <3>2 DEF SubIInv, SubTypeOK, Read, ReadsAreOrdered, Connected,
                              NothingFromTheFuture, LastReadIsNewest
  <2>2. CASE ~Current(r)
    BY <1>3, <2>2, FewerReadsKeep DEF Answer
  <2> QED BY <2>1, <2>2
<1>4. ASSUME NEW r \in reads, Forsake(r) PROVE SubIInv'
  BY <1>4, FewerReadsKeep DEF Forsake
<1>5. ASSUME NEW r \in reads, ReadFails(r) PROVE SubIInv'
  BY <1>5, FewerReadsKeep, CloseKeeps DEF ReadFails
<1>6. CASE Connect
  <2>1. \A r \in reads : r.epoch < generation + 1
    BY DEF SubIInv, SubTypeOK, ReadsAreOrdered, Read
  <2> QED BY <1>6, <2>1 DEF Connect, SubIInv, SubTypeOK, Read, ReadsAreOrdered,
                            NothingFromTheFuture, LastReadIsNewest, Current
<1>7. CASE ServerSubscribes
  BY <1>7, FewerReadsKeep DEF ServerSubscribes
<1>8. CASE Subscribed
  BY <1>8, RefreshKeeps DEF Subscribed, Connected, SubIInv, SubTypeOK
<1>9. CASE Hint
  <2>1. hints' \in Nat
    BY <1>9 DEF Hint, SubIInv, SubTypeOK
  <2> QED BY <1>9, <2>1, RefreshKeeps DEF Hint, Connected
<1>10. CASE Cut
  BY <1>10, CloseKeeps DEF Cut
<1>11. CASE Dispose
  BY <1>11, CloseKeeps DEF Dispose
<1>12. CASE UNCHANGED subVars
  BY <1>12, FewerReadsKeep DEF subVars
<1> QED BY <1>1, <1>2, <1>3, <1>4, <1>5, <1>6, <1>7, <1>8, <1>9, <1>10, <1>11, <1>12
        DEF SubNext

\* What one step may do to the value shown.
LEMMA StepShowsNoOlder ==
    SubIInv /\ [SubNext]_subVars => shown' >= shown /\ (mode = "stopped" => shown' = shown)
<1> SUFFICES ASSUME SubIInv, [SubNext]_subVars
             PROVE  shown' >= shown /\ (mode = "stopped" => shown' = shown)
  OBVIOUS
<1>1. ASSUME NEW r \in reads, Answer(r)
      PROVE  shown' >= shown /\ (mode = "stopped" => shown' = shown)
  BY <1>1 DEF Answer, Current, SubIInv, SubTypeOK, LastReadIsNewest, Read
<1>2. CASE UNCHANGED shown
  BY <1>2 DEF SubIInv, SubTypeOK
<1> QED BY <1>1, <1>2 DEF SubNext, subVars, Change, ServerReads, Forsake, ReadFails, Connect,
                          ServerSubscribes, Subscribed, Hint, Cut, Dispose

(* However many reads overlap and connections are cut, thread-subscription *)
(* never hands its observer an older state than it did before, and nothing *)
(* once it is disposed.                                                    *)
THEOREM ShowsNoOlder == SubSpec => NeverOlder
<1>1. SubInit => SubIInv
  BY SubInitHolds
<1>2. SubIInv /\ [SubNext]_subVars => SubIInv'
  BY SubStepKeeps
<1>3. SubIInv /\ [SubNext]_subVars
         => [shown' >= shown /\ (mode = "stopped" => shown' = shown)]_subVars
  BY StepShowsNoOlder
<1> QED BY <1>1, <1>2, <1>3, PTL DEF SubSpec, NeverOlder
==============================================================================
