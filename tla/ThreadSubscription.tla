-------------------------- MODULE ThreadSubscription --------------------------
(***************************************************************************)
(* A client that keeps showing the state of a Thread                       *)
(* (daemon/src/thread-subscription.ts).  Events of the daemon are hints to *)
(* read again; each connection subscribes and then reads.  Reads overlap   *)
(* and are answered in any order; a connection may be cut at any step, and *)
(* a new one is made a while later.                                        *)
(*                                                                         *)
(* The daemon's state is durable: a version once read is never undone.     *)
(***************************************************************************)
EXTENDS Naturals, FiniteSets

CONSTANTS
    MaxChanges, \* bound: changes of the Thread
    MaxHitches  \* bound: cut connections and failing reads, in all

ASSUME SubscriptionAssumption == MaxChanges \in Nat /\ MaxHitches \in Nat

VARIABLES
    server,     \* the version of the Thread in the daemon
    subscribed, \* the daemon has the connection among its subscribers
    hints,      \* events on their way
    mode,       \* "down" | "subscribing" | "live" | "stopped"
    generation, \* as in the code: each connection's, and each end of one
    request,    \* the last read of this connection
    reads,      \* reads that have not settled, with the version read or 0
    shown,      \* the version handed to onValue last, 0 before the first
    missed,     \* history variable: the last read of a connection failed
    hitches     \* hitches so far

subVars == <<server, subscribed, hints, mode, generation, request, reads, shown,
             missed, hitches>>

SubInit ==
    /\ server = 1
    /\ subscribed = FALSE
    /\ hints = 0
    /\ mode = "down"
    /\ generation = 0
    /\ request = 0
    /\ reads = {}
    /\ shown = 0
    /\ missed = FALSE
    /\ hitches = 0

Connected == mode \in {"subscribing", "live"}

\* A change is told to who is subscribed by then.
Change ==
    /\ server <= MaxChanges
    /\ server' = server + 1
    /\ hints' = IF subscribed THEN hints + 1 ELSE hints
    /\ UNCHANGED <<subscribed, mode, generation, request, reads, shown, missed, hitches>>

-----------------------------------------------------------------------------
(* refresh() *)

Refresh ==
    /\ request' = request + 1
    /\ reads' = reads \cup {[epoch |-> generation, version |-> request + 1, seen |-> 0]}
    /\ missed' = FALSE

\* The daemon serves a read; one of a closed connection does not reach it.
ServerReads(r) ==
    /\ Connected
    /\ r.epoch = generation
    /\ r.seen = 0
    /\ reads' = (reads \ {r}) \cup {[r EXCEPT !.seen = server]}
    /\ UNCHANGED <<server, subscribed, hints, mode, generation, request, shown,
                   missed, hitches>>

\* Mutant of Current: a read that a newer one overtook still counts.
OfThisConnection(r) == mode # "stopped" /\ r.epoch = generation

Current(r) == mode # "stopped" /\ r.epoch = generation /\ r.version = request

Answer(r) ==
    /\ r.seen # 0
    /\ reads' = reads \ {r}
    /\ shown' = IF Current(r) THEN r.seen ELSE shown
    /\ UNCHANGED <<server, subscribed, hints, mode, generation, request, missed, hitches>>

\* An overtaken read was aborted, or ends with its connection.
Forsake(r) ==
    /\ ~Current(r)
    /\ reads' = reads \ {r}
    /\ UNCHANGED <<server, subscribed, hints, mode, generation, request, shown,
                   missed, hitches>>

Close(next) ==
    /\ mode' = next
    /\ generation' = generation + 1
    /\ subscribed' = FALSE
    /\ hints' = 0

Hitch == hitches < MaxHitches /\ hitches' = hitches + 1

(* The last read fails: with an error of the daemon the subscription ends, *)
(* with any other it stays as it is until the next event.                  *)
ReadFails(r) ==
    /\ Hitch
    /\ Current(r)
    /\ reads' = reads \ {r}
    /\ \/ Close("stopped") /\ UNCHANGED missed
       \/ missed' = TRUE /\ UNCHANGED <<subscribed, hints, mode, generation>>
    /\ UNCHANGED <<server, request, shown>>

-----------------------------------------------------------------------------
(* connect() *)

Connect ==
    /\ mode = "down"
    /\ mode' = "subscribing"
    /\ generation' = generation + 1
    /\ request' = 0
    /\ UNCHANGED <<server, subscribed, hints, reads, shown, missed, hitches>>

ServerSubscribes ==
    /\ mode = "subscribing"
    /\ subscribed' = TRUE
    /\ UNCHANGED <<server, hints, mode, generation, request, reads, shown, missed, hitches>>

\* Mutant of Subscribed: a new connection waits for an event.
SubscribedOnly ==
    /\ mode = "subscribing"
    /\ subscribed
    /\ mode' = "live"
    /\ UNCHANGED <<server, subscribed, hints, generation, request, reads, shown, missed, hitches>>

Subscribed ==
    /\ mode = "subscribing"
    /\ subscribed
    /\ mode' = "live"
    /\ Refresh
    /\ UNCHANGED <<server, subscribed, hints, generation, shown, hitches>>

\* The listener is there before the subscription.
Hint ==
    /\ Connected
    /\ hints > 0
    /\ hints' = hints - 1
    /\ Refresh
    /\ UNCHANGED <<server, subscribed, mode, generation, shown, hitches>>

\* Disconnected, or connecting or subscribing failed; some errors are final.
Cut ==
    /\ Hitch
    /\ mode \in {"down", "subscribing", "live"}
    /\ Close("down") \/ Close("stopped")
    /\ UNCHANGED <<server, request, reads, shown, missed>>

Dispose ==
    /\ mode # "stopped"
    /\ Close("stopped")
    /\ UNCHANGED <<server, request, reads, shown, missed, hitches>>

-----------------------------------------------------------------------------
SubNext ==
    \/ Change
    \/ \E r \in reads : ServerReads(r) \/ Answer(r) \/ Forsake(r) \/ ReadFails(r)
    \/ Connect
    \/ ServerSubscribes
    \/ Subscribed
    \/ Hint
    \/ Cut
    \/ Dispose

SubSpec == SubInit /\ [][SubNext]_subVars

\* The client reconnects, and what it asks is served; only the last read of
\* a connection has to be.
ClientProceeds ==
    \/ Connect
    \/ ServerSubscribes
    \/ Subscribed
    \/ Hint
    \/ \E r \in reads : Current(r) /\ (ServerReads(r) \/ Answer(r))

SubFairSpec == SubSpec /\ WF_subVars(ClientProceeds)

-----------------------------------------------------------------------------
(* However reads overlap, fail and cross cuts and reconnections, the value *)
(* shown is never replaced by an older one, nor by any once disposed.      *)
NeverOlder == [][shown' >= shown /\ (mode = "stopped" => shown' = shown)]_subVars

(* A connection that stays up ends up showing the daemon's state, whatever *)
(* changed before it was subscribed and however events and reads overlap,  *)
(* unless the last read failed: nothing repeats that one.                  *)
CatchesUp == <>[](mode = "live" /\ ~missed) => <>[](shown = server)
=============================================================================
