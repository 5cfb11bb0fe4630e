----------------------------- MODULE MCReviewer -----------------------------
(***************************************************************************)
(* Small instances for TLC of what a reviewer's side relies on: the        *)
(* window (ThreadController), the share it hands out and the agent lent to *)
(* it (SharedAgentRelay), and the log the daemon keeps of a Thread         *)
(* (ThreadStore).  The parts share no state; a behaviour is one of the     *)
(* part that the initial state names, and the others stay as they begin.   *)
(***************************************************************************)
EXTENDS ThreadStore, SharedAgentRelay, ThreadController, TLC

CONSTANTS s1, s2, s3, h1, c1, c2, l1, l2, n1, n2, o1, o2, t1

VARIABLE part

reviewerVars == <<part, vars, relayVars, viewVars>>

ReviewerInit ==
    /\ part \in {"window", "share", "log"}
    /\ Init
    /\ RelayInit
    /\ ViewInit
    /\ part # "log" => legacy = [t \in Threads |-> "none"]
    /\ IsThere(s1) /\ ~IsThere(s3)
    /\ part # "window" => viewing = NoSession /\ ~IsThere(s2) /\ \A l \in Links : ~share[l].live

ReviewerNext ==
    \/ part = "window" /\ ViewNext /\ UNCHANGED <<part, vars, relayVars>>
    \/ part = "share" /\ RelayNext /\ UNCHANGED <<part, vars, viewVars>>
    \/ part = "log" /\ Next /\ UNCHANGED <<part, relayVars, viewVars>>

ReviewerSpec == ReviewerInit /\ [][ReviewerNext]_reviewerVars

Alike == Permutations(Notes) \cup Permutations(Prompts) \cup Permutations(Comments)
=============================================================================
