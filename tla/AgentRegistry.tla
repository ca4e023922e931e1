---------------------------- MODULE AgentRegistry ----------------------------
(***************************************************************************)
(* The agents of one mission as the coordination server knows them         *)
(* (services/coordination-mcp/src/coordination.ts, the reservation in      *)
(* services/workspace-manager/src/workspace-manager.ts and the tools of    *)
(* services/api-gateway/src/control-plane-router.ts).                      *)
(*                                                                         *)
(* A working agent may spawn others, within limits on depth, children and  *)
(* the agents of the mission that are at work.  The limits are counted     *)
(* from the rows of agent_instances; the rows follow the events of the     *)
(* runtime.  Whatever ends an agent without such an event leaves its row   *)
(* counted.  A call of spawnAgent leaves the process nowhere, so it is one *)
(* step; a crash or an error may end it after the reservation.             *)
(***************************************************************************)
EXTENDS Naturals, FiniteSets

CONSTANTS
  Planned,      \* agents of the plan's tasks, which the orchestrator dispatches
  Dynamic,      \* how many agents may be spawned by others
  Guarded,      \* agents whose adapter reports nothing once it was told to cancel
  MaxParallel,  \* maxParallelAgents of the worker pool policy
  MaxChildren,  \* DEFAULT_MAX_CHILDREN
  MaxDepth,     \* DEFAULT_MAX_DEPTH
  MaxStops,     \* bound: how often the mission is stopped
  MaxBreaks,    \* bound: deaths of the gateway and failing spawns, together
  NoParent

Spawned == 1 .. Dynamic
Agents == Planned \cup Spawned

ASSUME RegistryAssumption ==
  /\ {Dynamic, MaxParallel, MaxChildren, MaxDepth, MaxStops, MaxBreaks} \subseteq Nat
  /\ IsFiniteSet(Planned)
  /\ Planned \cap Spawned = {} /\ NoParent \notin Agents /\ Guarded \subseteq Agents

VARIABLES
  agent,       \* agent_instances.status, "none" before the row exists
  parent,      \* agent_instances.parent_agent_id
  registered,  \* keys of agentRegistry
  worker,      \* the session of the agent
  open,        \* whether the mission's status is not terminal
  stranded,    \* history: agents that ended, or never began, without an event
  stops, breaks

registryVars == <<agent, parent, registered, worker, open, stranded, stops, breaks>>

Counted == {"idle", "running", "waiting"}
AtWork  == {"launching", "working", "stopping"}

RegistryTypeOK ==
  /\ agent \in [Agents -> {"none", "completed", "failed"} \cup Counted]
  /\ parent \in [Agents -> Agents \cup {NoParent}]
  /\ worker \in [Agents -> {"none", "over"} \cup AtWork]
  /\ registered \subseteq Agents /\ stranded \subseteq Agents /\ open \in BOOLEAN
  /\ stops \in 0 .. MaxStops /\ breaks \in 0 .. MaxBreaks

RegistryInit ==
  /\ agent = [a \in Agents |-> "none"] /\ parent = [a \in Agents |-> NoParent]
  /\ worker = [a \in Agents |-> "none"] /\ registered = {} /\ stranded = {}
  /\ open = TRUE /\ stops = 0 /\ breaks = 0

-----------------------------------------------------------------------------
(* depthForAgent. *)
Depth == LET d[a \in Agents] == IF parent[a] = NoParent THEN 0 ELSE 1 + d[parent[a]] IN d

Children(a) == {c \in registered : parent[c] = a /\ agent[c] # "failed"}

Active == {a \in Agents : agent[a] \in Counted}

(* spawnAgent and reserveAgentCapacity; the limit of a role is the same    *)
(* count over fewer rows.                                                  *)
MaySpawn(a) ==
  /\ open /\ Depth[a] < MaxDepth
  /\ Cardinality(Children(a)) < MaxChildren /\ Cardinality(Active) < MaxParallel

(* An identifier is new. *)
NextAgent(c) == c \in Spawned /\ agent[c] = "none" /\ \A b \in Spawned : b < c => agent[b] # "none"

(* The tools of an agent work until its session has ended (the grant).     *)
HasGrant(a) == worker[a] \in {"working", "stopping"}

Becomes(a, status) == agent' = [agent EXCEPT ![a] = status]
Session(a, w) == worker' = [worker EXCEPT ![a] = w]

SpawnAgent(a, c) ==
  /\ HasGrant(a) /\ MaySpawn(a) /\ NextAgent(c)
  /\ Becomes(c, "idle") /\ Session(c, "launching")
  /\ parent' = [parent EXCEPT ![c] = a] /\ registered' = registered \cup {c}
  /\ UNCHANGED <<open, stranded, stops, breaks>>

(* The task cannot be made after the capacity has been reserved.           *)
SpawnBreaks(a, c) ==
  /\ HasGrant(a) /\ MaySpawn(a) /\ NextAgent(c)
  /\ breaks < MaxBreaks /\ breaks' = breaks + 1
  /\ Becomes(c, "idle") /\ parent' = [parent EXCEPT ![c] = a]
  /\ stranded' = stranded \cup {c}
  /\ UNCHANGED <<registered, worker, open, stops>>

(* assignTask counts the tasks of the plan, not the rows.                  *)
Dispatch(p) ==
  /\ open /\ p \in Planned /\ agent[p] = "none"
  /\ Becomes(p, "idle") /\ Session(p, "launching")
  /\ registered' = registered \cup {p}
  /\ UNCHANGED <<parent, open, stranded, stops, breaks>>

AgentStarts(a) ==
  /\ worker[a] = "launching" /\ Session(a, "working") /\ Becomes(a, "running")
  /\ UNCHANGED <<parent, registered, open, stranded, stops, breaks>>

(* The runtime host answers a failing launch with task_failed.             *)
LaunchFails(a) ==
  /\ worker[a] = "launching" /\ Session(a, "over") /\ Becomes(a, "failed")
  /\ UNCHANGED <<parent, registered, open, stranded, stops, breaks>>

(* agent_handoff makes the caller wait, agent_report_progress makes it run.*)
Reports(a, status) ==
  /\ HasGrant(a) /\ agent[a] # status /\ Becomes(a, status)
  /\ UNCHANGED <<parent, registered, worker, open, stranded, stops, breaks>>

(* Its result, or the failure of its process; a guarded adapter is silent  *)
(* once it was told to cancel.                                             *)
AgentEnds(a, status) ==
  /\ worker[a] = "working" \/ (worker[a] = "stopping" /\ a \notin Guarded)
  /\ Session(a, "over") /\ Becomes(a, status)
  /\ UNCHANGED <<parent, registered, open, stranded, stops, breaks>>

(* Mutated form: the request to stop releases the rows.                    *)
StopReleasing(cancel) ==
  /\ stops < MaxStops /\ stops' = stops + 1
  /\ worker' = [a \in Agents |-> IF worker[a] = "working" THEN "stopping" ELSE worker[a]]
  /\ agent' = [a \in Agents |-> IF worker[a] = "working" THEN "failed" ELSE agent[a]]
  /\ open' = (open /\ ~cancel)
  /\ UNCHANGED <<parent, registered, stranded, breaks>>

(* stopMission stops the sessions it finds, not the launches in flight; a  *)
(* stop_and_replan keeps the mission open.  syncAgentEvent does not know   *)
(* agent_cancelled.                                                        *)
StopAgents(cancel) ==
  /\ stops < MaxStops /\ stops' = stops + 1
  /\ worker' = [a \in Agents |-> IF worker[a] = "working" THEN "stopping" ELSE worker[a]]
  /\ open' = (open /\ ~cancel)
  /\ UNCHANGED <<agent, parent, registered, stranded, breaks>>

AgentStopped(a) ==
  /\ worker[a] = "stopping" /\ Session(a, "over")
  /\ IF a \in Guarded THEN stranded' = stranded \cup {a} /\ UNCHANGED agent
     ELSE Becomes(a, "failed") /\ UNCHANGED stranded
  /\ UNCHANGED <<parent, registered, open, stops, breaks>>

(* The gateway dies; the next one reads the rows (hydrateDurableState).    *)
RegistryRestarts ==
  /\ breaks < MaxBreaks /\ breaks' = breaks + 1
  /\ worker' = [a \in Agents |-> IF worker[a] \in AtWork THEN "over" ELSE worker[a]]
  /\ registered' = {a \in Agents : agent[a] # "none"}
  /\ stranded' = stranded \cup {a \in Agents : worker[a] \in AtWork}
  /\ UNCHANGED <<agent, parent, open, stops>>

AgentStep(a) ==
  \/ Dispatch(a) \/ AgentStarts(a) \/ LaunchFails(a) \/ AgentStopped(a)
  \/ Reports(a, "running") \/ Reports(a, "waiting")
  \/ AgentEnds(a, "completed") \/ AgentEnds(a, "failed")
  \/ \E c \in Spawned : SpawnAgent(a, c) \/ SpawnBreaks(a, c)

RegistryNext ==
  \/ \E a \in Agents : AgentStep(a)
  \/ \E cancel \in BOOLEAN : StopAgents(cancel)
  \/ RegistryRestarts

RegistrySpec == RegistryInit /\ [][RegistryNext]_registryVars

-----------------------------------------------------------------------------
(* The agents that agents have spawned never exceed the limit of the       *)
(* mission, through launches, waits, ends, stops and restarts.             *)
SpawnedWithinLimit == Cardinality({c \in Spawned : worker[c] \in AtWork}) <= MaxParallel

(* An agent at work is counted: no event releases the capacity of an agent *)
(* whose process is still there, stopping or waiting.                      *)
AtWorkIsCounted == \A a \in Agents : worker[a] \in AtWork => agent[a] \in Counted

(* Delegation ends: agents are spawned no deeper than the limit, and none  *)
(* has more children that did not fail than the limit, also when the       *)
(* registry has been read from the rows again.                             *)
DelegationIsBounded ==
  \A a \in Agents :
    /\ Depth[a] <= MaxDepth
    /\ Cardinality({c \in Spawned : parent[c] = a /\ worker[c] # "none" /\ agent[c] # "failed"}) <= MaxChildren

(* Capacity is lost in no other way than by a stop its adapter is silent   *)
(* about, a crash or a spawn that breaks off: every agent whose session    *)
(* has ended otherwise is no longer counted.                               *)
CapacityIsReleased == \A a \in Active : worker[a] \in AtWork \/ a \in stranded

(* The inductive invariant of the agents at work; the registry knows every *)
(* agent that has been launched.                                           *)
LaunchedIsRegistered == \A a \in Agents : worker[a] # "none" => a \in registered /\ agent[a] # "none"

RegistryInv ==
  /\ RegistryTypeOK /\ AtWorkIsCounted /\ CapacityIsReleased /\ LaunchedIsRegistered
  /\ SpawnedWithinLimit

(* What bounds a delegation: an agent's parent has been made before it, and *)
(* agents are numbered as they are made, so that following parents ends.   *)
ParentsAreOlder ==
  \A c \in Agents : parent[c] # NoParent =>
    /\ c \in Spawned /\ agent[c] # "none" /\ agent[parent[c]] # "none"
    /\ parent[c] \in Spawned => parent[c] < c

NumberedInOrder == \A b, c \in Spawned : b < c /\ agent[c] # "none" => agent[b] # "none"

DelegationInv == RegistryInv /\ ParentsAreOlder /\ NumberedInOrder /\ DelegationIsBounded

(* The capacity that rows reserve is that of the agents at work, up to the *)
(* losses named above.                                                     *)
RegistrySafety == SpawnedWithinLimit /\ AtWorkIsCounted /\ DelegationIsBounded /\ CapacityIsReleased

(* "terminal agents release durable global and role capacity"              *)
(* (workspace-manager.test.ts).  Not of the code: an agent that was        *)
(* stopped stays counted.                                                  *)
EndedReleasesCapacity == \A a \in Agents : worker[a] = "over" => agent[a] \notin Counted
=============================================================================
