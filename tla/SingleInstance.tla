--------------------------- MODULE SingleInstance ---------------------------
(***************************************************************************)
(* How daemon processes over one cueloop home come to serve it             *)
(* (daemon/src/server.ts, main.ts).  Each process recovers the home's      *)
(* state into memory when its DaemonServer is constructed, then takes the  *)
(* lock file with link(2), binds the socket and serves; a process that     *)
(* finds the lock of a live owner is refused, and one that finds the lock  *)
(* of a dead owner removes it and tries again.                             *)
(*                                                                         *)
(* Every action is one system call, since the processes share nothing but  *)
(* the file system.  The files under the home are one number, the number   *)
(* of the write that produced them: harness-state.json, and a log that is  *)
(* torn or has an expired Thread, are written or removed as a whole.       *)
(***************************************************************************)
EXTENDS Naturals, FiniteSets

CONSTANTS
    Processes,   \* daemon processes; each starts once, with a pid of its own
    NoProcess,   \* no lock file, no socket file
    Attempts,    \* the attempts of acquireLock, 3 in the code
    MaxAlive,    \* bound: processes alive at once
    MaxWrites,   \* bound: writes to the home
    MaxCrashes   \* bound: processes that are killed

ASSUME ProcessAssumption ==
    /\ NoProcess \notin Processes
    /\ Attempts \in Nat \ {0}
    /\ MaxAlive \in Nat
    /\ MaxWrites \in Nat
    /\ MaxCrashes \in Nat

VARIABLES
    pc,       \* where each process is
    attempt,  \* the attempts of acquireLock it has used up
    found,    \* the pid it read from the lock file
    seen,     \* the state its DaemonCore has in memory
    lock,     \* the process that linked the lock file
    socket,   \* the process that bound the socket file
    home,     \* the files under the home
    writes,   \* writes so far
    crashes,  \* crashes so far
    stolen    \* history: a lock other than the one read was removed

files == <<lock, socket, home>>
vars  == <<pc, attempt, found, seen, lock, socket, home, writes, crashes, stolen>>

Starting == {"recovered", "link", "read", "check", "reclaim"}
Owning   == {"bind", "serve", "release"}
Running  == Starting \cup Owning \cup {"refused"}

Alive(p) == pc[p] \in Running
Owns(p)  == pc[p] \in Owning

TypeOK ==
    /\ pc \in [Processes -> Running \cup {"off", "dead"}]
    /\ attempt \in [Processes -> 0..Attempts]
    /\ found \in [Processes -> Processes \cup {NoProcess}]
    /\ seen \in [Processes -> 0..MaxWrites]
    /\ lock \in Processes \cup {NoProcess}
    /\ socket \in Processes \cup {NoProcess}
    /\ home \in 0..MaxWrites
    /\ writes \in 0..MaxWrites
    /\ crashes \in 0..MaxCrashes
    /\ stolen \in BOOLEAN

Init ==
    /\ pc = [p \in Processes |-> "off"]
    /\ attempt = [p \in Processes |-> 0]
    /\ found = [p \in Processes |-> NoProcess]
    /\ seen = [p \in Processes |-> 0]
    /\ lock = NoProcess
    /\ socket = NoProcess
    /\ home = 0
    /\ writes = 0
    /\ crashes = 0
    /\ stolen = FALSE

Goto(p, from, to) == pc[p] = from /\ pc' = [pc EXCEPT ![p] = to]

(* new DaemonServer: DaemonCore recovers the Threads and reconciles ...    *)
Construct(p) ==
    /\ Cardinality({q \in Processes : Alive(q)}) < MaxAlive
    /\ Goto(p, "off", "recovered")
    /\ seen' = [seen EXCEPT ![p] = home]
    /\ UNCHANGED <<attempt, found, files, writes, crashes, stolen>>

(* ... and writes back what it recovered: torn logs, missing deliveries,   *)
(* expired Threads.  It may find nothing to write.                         *)
Settle(p) ==
    /\ Goto(p, "recovered", "link")
    /\ home' \in {home, seen[p]}
    /\ UNCHANGED <<attempt, found, seen, lock, socket, writes, crashes, stolen>>

Link(p) ==
    /\ attempt[p] < Attempts
    /\ lock = NoProcess
    /\ Goto(p, "link", "bind")
    /\ lock' = p
    /\ UNCHANGED <<attempt, found, seen, socket, home, writes, crashes, stolen>>

LinkExists(p) ==
    /\ attempt[p] < Attempts
    /\ lock # NoProcess
    /\ Goto(p, "link", "read")
    /\ UNCHANGED <<attempt, found, seen, files, writes, crashes, stolen>>

GiveUp(p) ==
    /\ attempt[p] = Attempts
    /\ Goto(p, "link", "refused")
    /\ UNCHANGED <<attempt, found, seen, files, writes, crashes, stolen>>

ReadOwner(p) ==
    /\ lock # NoProcess
    /\ Goto(p, "read", "check")
    /\ found' = [found EXCEPT ![p] = lock]
    /\ UNCHANGED <<attempt, seen, files, writes, crashes, stolen>>

OwnerVanished(p) ==
    /\ lock = NoProcess
    /\ Goto(p, "read", "link")
    /\ attempt' = [attempt EXCEPT ![p] = @ + 1]
    /\ UNCHANGED <<found, seen, files, writes, crashes, stolen>>

OwnerAlive(p) ==
    /\ Goto(p, "check", "refused")
    /\ Alive(found[p])
    /\ UNCHANGED <<attempt, found, seen, files, writes, crashes, stolen>>

\* Mutant: every error of kill(pid, 0) and every answer counts as dead.
OwnerPresumedDead(p) ==
    /\ Goto(p, "check", "reclaim")
    /\ UNCHANGED <<attempt, found, seen, files, writes, crashes, stolen>>

OwnerDead(p) ==
    /\ Goto(p, "check", "reclaim")
    /\ ~Alive(found[p])
    /\ UNCHANGED <<attempt, found, seen, files, writes, crashes, stolen>>

\* Mutant: the starter tries again without removing the stale lock.
RetryOnly(p) ==
    /\ Goto(p, "reclaim", "link")
    /\ attempt' = [attempt EXCEPT ![p] = @ + 1]
    /\ UNCHANGED <<found, seen, files, writes, crashes, stolen>>

(* rmSync removes whatever lock file is there now. *)
Reclaim(p) ==
    /\ Goto(p, "reclaim", "link")
    /\ lock' = NoProcess
    /\ attempt' = [attempt EXCEPT ![p] = @ + 1]
    /\ stolen' = (stolen \/ lock \notin {found[p], NoProcess})
    /\ UNCHANGED <<found, seen, socket, home, writes, crashes>>

(* A leftover socket file is removed and the new one is bound. *)
Bind(p) ==
    /\ Goto(p, "bind", "serve")
    /\ socket' = p
    /\ UNCHANGED <<attempt, found, seen, lock, home, writes, crashes, stolen>>

(* A client's request changes a Thread, in memory and on disk. *)
Write(p) ==
    /\ pc[p] = "serve"
    /\ writes < MaxWrites
    /\ writes' = writes + 1
    /\ home' = writes + 1
    /\ seen' = [seen EXCEPT ![p] = writes + 1]
    /\ UNCHANGED <<pc, attempt, found, lock, socket, crashes, stolen>>

(* stop: idle exit, a signal, or a client's shutdown request. *)
Stop(p) ==
    /\ Goto(p, "serve", "release")
    /\ socket' = NoProcess
    /\ UNCHANGED <<attempt, found, seen, lock, home, writes, crashes, stolen>>

\* Mutant: stop removes the socket file without holding the lock.
StopRefusedUnlinks(p) ==
    /\ Goto(p, "refused", "dead")
    /\ socket' = NoProcess
    /\ UNCHANGED <<attempt, found, seen, lock, home, writes, crashes, stolen>>

StopRefused(p) ==
    /\ Goto(p, "refused", "dead")
    /\ UNCHANGED <<attempt, found, seen, files, writes, crashes, stolen>>

(* releaseLock removes the lock file only if it is the one it linked. *)
Release(p) ==
    /\ Goto(p, "release", "dead")
    /\ lock' = IF lock = p THEN NoProcess ELSE lock
    /\ UNCHANGED <<attempt, found, seen, socket, home, writes, crashes, stolen>>

Crash(p) ==
    /\ Alive(p)
    /\ crashes < MaxCrashes
    /\ crashes' = crashes + 1
    /\ pc' = [pc EXCEPT ![p] = "dead"]
    /\ UNCHANGED <<attempt, found, seen, files, writes, stolen>>

Start(p) ==
    \/ Settle(p) \/ Link(p) \/ LinkExists(p) \/ GiveUp(p)
    \/ ReadOwner(p) \/ OwnerVanished(p)
    \/ OwnerAlive(p) \/ OwnerDead(p) \/ Reclaim(p) \/ Bind(p)

Next ==
    \E p \in Processes :
        \/ Construct(p) \/ Start(p) \/ Write(p)
        \/ Stop(p) \/ StopRefused(p) \/ Release(p) \/ Crash(p)

Spec == Init /\ [][Next]_vars

\* A process that runs gets through its own start-up and shutdown code.
Fairness == \A p \in Processes : WF_vars(Start(p) \/ StopRefused(p) \/ Release(p))

FairSpec == Spec /\ Fairness

-----------------------------------------------------------------------------
Exclusive == \A p, q \in Processes : Owns(p) /\ Owns(q) => p = q

(* "Exclusive single-instance lock over a cueloop home": at no time do two  *)
(* processes own the home.                                                  *)
AtMostOneOwner == Exclusive

(* The one way to two owners is that a starter removes a lock that is not   *)
(* the one whose owner it found dead.                                       *)
ExclusiveUnlessStolen == stolen \/ Exclusive

(* As long as no lock was stolen, the serving daemon is the one its clients *)
(* reach: no refused, stopping or starting process takes its socket away.   *)
ReachableUnlessStolen ==
    \A p \in Processes : pc[p] = "serve" => stolen \/ socket = p

(* No "divergent in-memory state over the same session files": the memory   *)
(* of a serving daemon is what the files hold.                              *)
OwnerIsCurrent == \A p \in Processes : pc[p] = "serve" => seen[p] = home

(* A home nobody owns gets a daemon once a process goes for its lock with    *)
(* its attempts unspent: a stale lock, whoever left it and however many      *)
(* starters race over it, does not keep the home shut.  (A starter may be    *)
(* refused because of a daemon that is about to stop; then no daemon serves  *)
(* until the next start.)                                                    *)
GoesForTheLock(p) ==
    pc[p] = "link" /\ attempt[p] = 0 /\ crashes = MaxCrashes

StartersGetService ==
    \A p \in Processes :
        (GoesForTheLock(p) /\ ~\E q \in Processes : Owns(q))
            ~> \E q \in Processes : pc[q] = "serve"
=============================================================================
