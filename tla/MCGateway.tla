------------------------------ MODULE MCGateway ------------------------------
(***************************************************************************)
(* The conversation queue of a mission and the memory of a project side by *)
(* side.  They share no state, so each behaviour runs one of them while    *)
(* the other rests.                                                        *)
(***************************************************************************)
EXTENDS TurnQueue, ProjectMemory

CONSTANTS w1, w2

(* Two workspaces of one repository; the first and the last event belong   *)
(* to the first one, which shares a file with the other.                   *)
MCWorkspaceOf == [e \in Events |-> IF e = 2 THEN w2 ELSE w1]
MCNodeOf      == [e \in Events |-> IF e = 3 THEN "other" ELSE "file"]
MCClosing     == {w1}

VARIABLE component

gatewayVars == <<component, vars, memoryVars>>

Queueing(A)    == component = "turns" /\ A /\ UNCHANGED <<component, memoryVars>>
Remembering(A) == component = "memory" /\ A /\ UNCHANGED <<component, vars>>

GatewayInit == component \in {"turns", "memory"} /\ Init /\ MemoryInit
GatewayNext ==
  \/ component = "turns" /\ Next /\ UNCHANGED <<component, memoryVars>>
  \/ component = "memory" /\ MemoryNext /\ UNCHANGED <<component, vars>>
GatewaySpec ==
  /\ GatewayInit /\ [][GatewayNext]_gatewayVars
  /\ WF_gatewayVars(Queueing(DrainNext)) /\ WF_gatewayVars(Queueing(CancelMission))
  /\ \A t \in Turns : /\ WF_gatewayVars(Queueing(SteerReturns(t))) /\ WF_gatewayVars(Queueing(ReplanNext(t)))
                      /\ WF_gatewayVars(Queueing(StartNext(t))) /\ WF_gatewayVars(Queueing(PlanNext(t)))
  /\ WF_gatewayVars(Remembering(FlowStep))
=============================================================================
