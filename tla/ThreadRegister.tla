--------------------------- MODULE ThreadRegister ---------------------------
(***************************************************************************)
(* What a ThreadRepository promises its daemon: one durable register per   *)
(* Thread.  A put or a removal takes effect at once; when the daemon dies, *)
(* the register of the Thread it was writing has the value before or the   *)
(* value after that write, and every other register is untouched.  Values  *)
(* are numbered in the order they are put, so none ever comes back.        *)
(***************************************************************************)
EXTENDS Naturals

CONSTANT Threads

VARIABLES
    up,     \* the daemon is serving
    value,  \* per Thread, the number of the put it shows; 0: no record
    puts    \* per Thread, how many puts were tried

vars == <<up, value, puts>>

Absent(t)  == value[t] = 0 /\ puts[t] = 0
Present(t) == value[t] # 0

TypeOK ==
    /\ up \in BOOLEAN
    /\ value \in [Threads -> Nat]
    /\ puts \in [Threads -> Nat]

Init ==
    /\ up = FALSE
    /\ value \in [Threads -> Nat]
    /\ puts \in [Threads -> Nat]
    /\ \A t \in Threads : value[t] <= puts[t]

Put(t) ==
    /\ Absent(t) \/ Present(t)
    /\ puts' = [puts EXCEPT ![t] = @ + 1]
    /\ value' = [value EXCEPT ![t] = puts[t] + 1]

Remove(t) ==
    /\ Present(t)
    /\ value' = [value EXCEPT ![t] = 0]
    /\ UNCHANGED puts

LostPut(t) ==
    /\ Absent(t) \/ Present(t)
    /\ puts' = [puts EXCEPT ![t] = @ + 1]
    /\ UNCHANGED value

Serve == up /\ up' = TRUE /\ \E t \in Threads : Put(t) \/ Remove(t)

Die ==
    /\ up /\ up' = FALSE
    /\ \/ \E t \in Threads : Put(t) \/ LostPut(t) \/ Remove(t)
       \/ UNCHANGED <<value, puts>>

Start == ~up /\ up' = TRUE /\ UNCHANGED <<value, puts>>

Next == Serve \/ Die \/ Start

Spec == Init /\ [][Next]_vars
=============================================================================
