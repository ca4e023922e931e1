------------------------------ MODULE MCRuntime ------------------------------
(***************************************************************************)
(* The runtime host: the sessions of the agents and the turns of the       *)
(* orchestrator's own agent.  They share no state, so each behaviour runs  *)
(* one of them while the other rests.                                      *)
(***************************************************************************)
EXTENDS RuntimeSessions, SupervisorTurns

VARIABLE component

runtimeVars == <<component, vars, supervisorVars>>

Agents(A) == component = "agents" /\ A /\ UNCHANGED <<component, supervisorVars>>
Supervising(A) == component = "supervisor" /\ A /\ UNCHANGED <<component, vars>>

RuntimeInit == component \in {"agents", "supervisor"} /\ Init /\ SupervisorInit
RuntimeNext == Agents(Next) \/ Supervising(SupervisorNext)

(* Timers fire and what the gateway awaits comes back; nothing is assumed  *)
(* of a process, a provider or the user.                                   *)
RuntimeSpec ==
  /\ RuntimeInit /\ [][RuntimeNext]_runtimeVars
  /\ WF_runtimeVars(Agents(Tick)) /\ WF_runtimeVars(Agents(WatchdogStep))
  /\ WF_runtimeVars(Agents(\E s \in Sessions : LaunchStep(s)))
  /\ WF_runtimeVars(Supervising(\E t \in Turns : HostStep(t)))

(* Attempts and processes of agents and of the orchestrator are accounted  *)
(* for, in the component that is at work.                                  *)
RuntimeInv == IF component = "agents" THEN SessionInv ELSE SupervisorSafety

(* Neither an attempt nor a turn of the orchestrator hangs.                *)
NobodyHangs == NothingHangs /\ SupervisorTurnsEnd
=============================================================================
