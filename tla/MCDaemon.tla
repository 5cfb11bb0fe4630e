------------------------------ MODULE MCDaemon ------------------------------
(***************************************************************************)
(* Small instances for TLC of what a daemon keeps of one Thread: its log   *)
(* (ThreadStore), its record (ThreadRecord), the diff it follows           *)
(* (DiffRefresh) and its agent's prompts (AcpRecovery).  The parts share   *)
(* no state; a behaviour is one of the part that the initial state names,  *)
(* and the others stay as they begin.                                      *)
(***************************************************************************)
EXTENDS ThreadStore, ThreadRecord, DiffRefresh, AcpRecovery, TLC

CONSTANTS t1, t2, a1, a2, x, y, p, q

VARIABLE part

daemonVars == <<part, vars, recordVars, refreshVars, acpVars>>

DaemonInit ==
    /\ part \in {"log", "record", "diff", "prompts"}
    /\ Init
    /\ RecordInit
    /\ RefreshInit
    /\ AcpInit
    /\ part # "log" => legacy = [t \in Threads |-> "none"]
    /\ part # "diff" => kind = "live"

Short(n) == Cardinality(UNION {Places(k, n) : k \in Events \cup Requests}) <= 1

\* Bound: only one turn is longer than a line, on the first relay and up to
\* a second crash.
Sized ==
    \/ crashes <= 1 /\ relay.epoch = 1 /\ \E n \in 1..MaxPrompts : Short(n)
    \/ \A n \in 1..MaxPrompts : Short(n)

\* Bound: the agent has captured its draft before the last move.
Drafted == draft.version <= MaxMoves

DaemonNext ==
    \/ part = "log" /\ Next /\ UNCHANGED <<part, recordVars, refreshVars, acpVars>>
    \/ part = "record" /\ RecordNext /\ UNCHANGED <<part, vars, refreshVars, acpVars>>
    \/ part = "diff" /\ RefreshNext /\ Drafted' /\ UNCHANGED <<part, vars, recordVars, acpVars>>
    \/ part = "prompts" /\ AcpNext /\ Sized' /\ UNCHANGED <<part, vars, recordVars, refreshVars>>

\* RefreshFairness and the fairness of AcpFairSpec, each where its part is
\* the one that moves.
DaemonSpec ==
    /\ DaemonInit /\ [][DaemonNext]_daemonVars
    /\ WF_refreshVars(part = "diff" /\ WatcherRefresh)
    /\ WF_refreshVars(part = "diff" /\ CaptureProceeds)
    /\ WF_refreshVars(part = "diff" /\ PollAsks)
    /\ WF_refreshVars(part = "diff" /\ PollAnswers)
    /\ WF_acpVars(part = "prompts" /\ Stops)
    /\ WF_acpVars(part = "prompts" /\ DaemonProceeds)
=============================================================================
