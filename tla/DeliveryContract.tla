-------------------------- MODULE DeliveryContract --------------------------
(***************************************************************************)
(* What the delivery machinery promises a harness session, with nothing    *)
(* said about processes, files or crashes.  A Thread promises its Messages *)
(* to one session, in sending order; the session is handed every promised  *)
(* Message at least once and never out of order; a Message is settled only *)
(* once it has been handed over.                                           *)
(***************************************************************************)
EXTENDS Naturals, Sequences

CONSTANTS Threads, Sessions,
          MessageIds   \* the numbers a Thread's Messages may have

VARIABLES
    promised,  \* per Thread, the <<session, message>> pairs it owes
    handed,    \* per session and Thread, the Messages handed over, in order
    settled    \* per Thread, the pairs that are acknowledged

contractVars == <<promised, handed, settled>>

HandedTo(s, t) == {handed[s][t][i] : i \in DOMAIN handed[s][t]}

ContractInit ==
    /\ promised = [t \in Threads |-> {}]
    /\ handed = [s \in Sessions |-> [t \in Threads |-> <<>>]]
    /\ settled = [t \in Threads |-> {}]

\* A newer Message, for the session the Thread already promises to.
Promise(t, s, n) ==
    /\ \A p \in promised[t] : p[1] = s /\ p[2] < n
    /\ promised' = [promised EXCEPT ![t] = @ \cup {<<s, n>>}]
    /\ UNCHANGED <<handed, settled>>

\* Hand over a promised Message, or repeat the last one.
Hand(t, s, n) ==
    /\ <<s, n>> \in promised[t]
    /\ \A m \in HandedTo(s, t) : m <= n
    /\ \A p \in promised[t] : p[2] < n => p[2] \in HandedTo(s, t)
    /\ handed' = [handed EXCEPT ![s][t] = Append(@, n)]
    /\ UNCHANGED <<promised, settled>>

Settle(t, s, n) ==
    /\ n \in HandedTo(s, t)
    /\ settled' = [settled EXCEPT ![t] = @ \cup {<<s, n>>}]
    /\ UNCHANGED <<promised, handed>>

\* Threads are deleted or pruned: their routing is forgotten.
Forget(gone) ==
    /\ settled' = [t \in Threads |-> IF t \in gone THEN {} ELSE settled[t]]
    /\ UNCHANGED <<promised, handed>>

ContractNext ==
    \/ \E gone \in SUBSET Threads : Forget(gone)
    \/ \E t \in Threads, s \in Sessions, n \in MessageIds :
          Promise(t, s, n) \/ Hand(t, s, n) \/ Settle(t, s, n)

ContractSpec == ContractInit /\ [][ContractNext]_contractVars
=============================================================================
