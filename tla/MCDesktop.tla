------------------------------ MODULE MCDesktop ------------------------------
(***************************************************************************)
(* The components of the desktop application side by side.  They share no  *)
(* state, so each behaviour runs one of them while the others rest.        *)
(***************************************************************************)
EXTENDS EventStream, ManualTerminals, Sidecar

VARIABLE component

vars == <<component, streamVars, terminalVars, sidecarVars>>

Stream(A) == component = "stream" /\ A /\ UNCHANGED <<component, terminalVars, sidecarVars>>
Terminals(A) == component = "terminals" /\ A /\ UNCHANGED <<component, streamVars, sidecarVars>>
Gateway(A) == component = "sidecar" /\ A /\ UNCHANGED <<component, streamVars, terminalVars>>

Init == /\ component \in {"stream", "terminals", "sidecar"}
        /\ StreamInit /\ TerminalsInit /\ SidecarInit
Next == Stream(StreamNext) \/ Terminals(TerminalsNext) \/ Gateway(SidecarNext)

FairSpec ==
  /\ Init /\ [][Next]_vars
  /\ WF_vars(Stream(Replay)) /\ WF_vars(Stream(Drain)) /\ WF_vars(Stream(Accept))
  /\ WF_vars(Stream(ReadChunk)) /\ WF_vars(Stream(FlushTimer)) /\ WF_vars(Stream(Reconnect))
  /\ WF_vars(Stream(ReadHistory)) /\ WF_vars(Stream(Hydrate))
  /\ WF_vars(Terminals(ThreadStep))
  /\ WF_vars(Gateway(GatewayStart)) /\ (\A t \in Threads : WF_vars(Gateway(ShutdownStep(t))))
  /\ \A g \in Gateways : WF_vars(Gateway(GatewayStep(g)))
=============================================================================
