------------------------------ MODULE MCRemote ------------------------------
(***************************************************************************)
(* Small instances for TLC of what has to get through to a Thread in the   *)
(* end: a process to a home that it may serve (SingleInstance), a          *)
(* collaborator's prompt to the owner's agent (SharedAgentRelay) and a     *)
(* change to a client that watches (ThreadSubscription).  The parts share  *)
(* no state; a behaviour is one of the part that the initial state names,  *)
(* and the others stay as they begin.                                      *)
(***************************************************************************)
EXTENDS SingleInstance, SharedAgentRelay, ThreadSubscription, TLC

CONSTANTS p1, p2, p3, n1, o1, o2

VARIABLE part

remoteVars == <<part, vars, relayVars, subVars>>

RemoteInit ==
    /\ part \in {"home", "share", "client"}
    /\ Init
    /\ RelayInit
    /\ SubInit

RemoteNext ==
    \/ part = "home" /\ Next /\ UNCHANGED <<part, relayVars, subVars>>
    \/ part = "share" /\ RelayNext /\ UNCHANGED <<part, vars, subVars>>
    \/ part = "client" /\ SubNext /\ UNCHANGED <<part, vars, relayVars>>

\* The fairness of FairSpec, RelayFairSpec and SubFairSpec, each where its
\* part is the one that moves.
RemoteSpec ==
    /\ RemoteInit /\ [][RemoteNext]_remoteVars
    /\ \A p \in Processes :
          WF_vars(part = "home" /\ (Start(p) \/ StopRefused(p) \/ Release(p)))
    /\ WF_relayVars(part = "share" /\ EndJob)
    /\ WF_relayVars(part = "share" /\ GatewayProceeds)
    /\ SF_relayVars(part = "share" /\ TakeState)
    /\ WF_relayVars(part = "share" /\ OwnerProceeds)
    /\ WF_subVars(part = "client" /\ ClientProceeds)
=============================================================================
