------------------------------ MODULE TurnQueue ------------------------------
(***************************************************************************)
(* The durable conversation queue of one mission                           *)
(* (services/api-gateway/src/index.ts) together with the orchestrator      *)
(* calls it awaits (services/orchestration-core/src/orchestrator-v2.ts).   *)
(*                                                                         *)
(* The tables conversation_turns, mission_commands, mission_runs and       *)
(* missions are `turn`, `command`, `run`, `mission` and `activeRun`.  A    *)
(* command is executed at most once, so a turn, its command and its run    *)
(* share one identifier: their number in order of creation.                *)
(*                                                                         *)
(* SQLite is synchronous and Node runs a handler to its next real await,   *)
(* so one action is the code between two awaits that leave the process:    *)
(* the supervisor's decision, the stopping of sessions, the execution of   *)
(* a plan, the application of a steer.                                     *)
(***************************************************************************)
EXTENDS Naturals, FiniteSets

CONSTANTS
  MaxTurns,      \* bound: how many turns the user creates
  Deliveries,    \* the deliveries the user chooses from
  StartMayFail,  \* whether the decision or the plan of a turn may fail
  StopMayFail,   \* whether stopping the sessions of a mission may fail
  MayCancel,     \* whether the user cancels the mission
  MaxCrashes,    \* bound: how often the gateway dies
  NULL           \* the SQL NULL

ASSUME BoundsAssumption   == MaxTurns \in Nat \ {0} /\ MaxCrashes \in Nat
ASSUME DeliveryAssumption ==
  Deliveries \subseteq {"queue", "start", "steer", "stop_and_replan", "retry"}
ASSUME FlagsAssumption    == {StartMayFail, StopMayFail, MayCancel} \subseteq BOOLEAN
ASSUME NullAssumption     == NULL \notin Nat \cup Deliveries

VARIABLES
  mission,    \* missions.status
  activeRun,  \* missions.active_run_id
  kind,       \* how each turn was delivered
  turn,       \* conversation_turns.status
  command,    \* mission_commands.status
  run,        \* mission_runs.status
  drain,      \* missionDrains: no drain, one about to loop, one awaiting a start
  starts,     \* the turns whose orchestrator.startMission or retryTasks is awaited
  plan,       \* what the orchestrator does for each turn
  route,      \* where the handler of each message stands
  captured,   \* the turns a stop_and_replan found active when it began
  cancelledRuns,  \* orchestrator.cancelledRunIds
  cancelling, \* whether POST /api/missions/:id/cancel awaits its stop
  crashes     \* how often the gateway died

tables == <<mission, activeRun, kind, turn, command, run>>
vars   == <<tables, drain, starts, plan, route, captured, cancelledRuns, cancelling, crashes>>

Turns == 1 .. MaxTurns

Active   == {"planning", "ready", "running", "waiting"}
Terminal == {"completed", "failed", "cancelled"}
Drainable == {"draft", "ready", "planning"} \cup Terminal

(* "running" stands for running, reviewing and revising, which a restart   *)
(* puts back to ready; "waiting" for waiting_for_approval, applying and    *)
(* verifying, which it keeps; "draft" for draft and blocked.               *)
MissionStatus == {"draft"} \cup Active \cup Terminal

LiveRun     == {"starting", "running"}
Unstarted   == {"queued", "pending_priority"}
LiveCommand == {"pending", "processing"}

TypeOK ==
  /\ mission \in MissionStatus
  /\ activeRun \in Turns \cup {NULL}
  /\ kind \in [Turns -> Deliveries \cup {NULL}]
  /\ turn \in [Turns -> {"absent"} \cup Unstarted \cup LiveRun \cup Terminal]
  /\ command \in [Turns -> {"absent"} \cup LiveCommand \cup Terminal]
  /\ run \in [Turns -> {"absent"} \cup LiveRun \cup Terminal]
  /\ drain \in {"idle", "due", "starting"}
  /\ starts \subseteq Turns
  /\ plan \in [Turns -> {"none", "executing", "synthesizing"}]
  /\ route \in [Turns -> {"none", "steering", "stopping", "settling", "restopping", "served",
                        "refused", "undoing"}]
  /\ captured \in [Turns -> SUBSET Turns]
  /\ cancelledRuns \subseteq Turns
  /\ cancelling \in BOOLEAN
  /\ crashes \in 0 .. MaxCrashes

Init ==
  /\ mission = "draft" /\ activeRun = NULL
  /\ kind = [t \in Turns |-> NULL]
  /\ turn = [t \in Turns |-> "absent"]
  /\ command = [t \in Turns |-> "absent"]
  /\ run = [t \in Turns |-> "absent"]
  /\ drain = "idle" /\ starts = {}
  /\ plan = [t \in Turns |-> "none"]
  /\ route = [t \in Turns |-> "none"]
  /\ captured = [t \in Turns |-> {}]
  /\ cancelledRuns = {} /\ cancelling = FALSE /\ crashes = 0

-----------------------------------------------------------------------------
(* Shared pieces of the handlers.                                          *)

ActiveRuns == {t \in Turns : run[t] \in LiveRun}

(* The next value of a status column after UPDATE ... SET status = `to`    *)
(* WHERE id IN ids AND status IN from.                                     *)
Moved(column, ids, from, to) ==
  [t \in Turns |-> IF t \in ids /\ column[t] \in from THEN to ELSE column[t]]

(* drainMissionCommands: a drain that already exists is returned as it is. *)
Poked == IF drain = "idle" THEN "due" ELSE drain

(* The drain after the start of t threw or returned: it awaits the start   *)
(* of the command it claimed; a start and a retry have their own request.   *)
OwnRequest(t)       == kind[t] \in {"start", "retry"}
DrainAfterThrow(t)  == IF OwnRequest(t) THEN drain ELSE "idle"
DrainAfterReturn(t) == IF OwnRequest(t) THEN drain ELSE "due"

Priority(t) == CASE kind[t] = "stop_and_replan" -> 200
                 [] kind[t] = "steer"           -> 100
                 [] OTHER                       -> 0

(* The pending command with the highest priority, then the oldest. *)
IsNext(t) ==
  /\ command[t] = "pending"
  /\ \A u \in Turns : command[u] = "pending" =>
       \/ Priority(u) < Priority(t)
       \/ (Priority(u) = Priority(t) /\ t <= u)

(* The listener of mission_completed and mission_failed: a run that is     *)
(* still active settles with its turn and its claimed command, and the     *)
(* queue is drained next.  The event carries the run that the orchestrator *)
(* works for.                                                              *)
CloseRun(t, outcome) ==
  IF run[t] \in LiveRun
  THEN /\ command' = Moved(command, {t}, {"processing"}, outcome)
       /\ run' = [run EXCEPT ![t] = outcome]
       /\ turn' = [turn EXCEPT ![t] = outcome]
       /\ activeRun' = IF activeRun = t THEN NULL ELSE activeRun
  ELSE UNCHANGED <<command, run, turn, activeRun>>

(* ensureRunIsCurrent. *)
Stale(t) ==
  \/ t \in cancelledRuns
  \/ mission = "cancelled"
  \/ activeRun \notin {NULL, t}

(* Mutated form: the catch forgets the run. *)
FailStartKeepingRun(t) ==
  /\ command' = Moved(command, {t}, {"processing"}, "failed")
  /\ turn' = Moved(turn, {t}, LiveRun, "failed")
  /\ activeRun' = IF activeRun = t THEN NULL ELSE activeRun
  /\ mission' = IF activeRun = t /\ mission \notin {"completed", "cancelled"}
                THEN "failed" ELSE mission
  /\ UNCHANGED run

(* The catch of startDurableTurn and of startMissionWithDurability. *)
FailStart(t) ==
  /\ command' = Moved(command, {t}, {"processing"}, "failed")
  /\ turn' = Moved(turn, {t}, LiveRun, "failed")
  /\ run' = Moved(run, {t}, LiveRun, "failed")
  /\ activeRun' = IF activeRun = t THEN NULL ELSE activeRun
  /\ mission' = IF activeRun = t /\ mission \notin {"completed", "cancelled"}
                THEN "failed" ELSE mission

(* The transaction that opens the run of t. *)
OpenRun(t) ==
  /\ run' = [run EXCEPT ![t] = "starting"]
  /\ activeRun' = t
  /\ mission' = IF mission = "cancelled" THEN mission ELSE "planning"
  /\ starts' = starts \cup {t}

(* stopMission cancels the supervisor's work for the turns in flight when  *)
(* it is called and returns when their processes are gone: a synthesis     *)
(* among them has ended, a decision among them fails.                      *)
Stopped(turns) == \A t \in turns : plan[t] # "synthesizing"
Interrupted(t) == cancelling \/ \E u \in Turns : route[u] = "stopping" /\ t \in captured[u]

(* cancelMissionTasks. *)
TasksCancelled == [t \in Turns |-> IF plan[t] = "executing" THEN "none" ELSE plan[t]]

-----------------------------------------------------------------------------
(* POST /api/missions/:id/messages and /start: the user.                   *)

IsNew(t) == turn[t] = "absent" /\ \A u \in 1 .. t - 1 : turn[u] # "absent"

Insert(t, delivery, status, commandStatus) ==
  /\ kind' = [kind EXCEPT ![t] = delivery]
  /\ turn' = [turn EXCEPT ![t] = status]
  /\ command' = [command EXCEPT ![t] = commandStatus]

(* delivery "queue", and "steer" when nothing is active: a poke only when  *)
(* the mission is not active; otherwise its terminal event drains.         *)
QueueMessage(t) ==
  /\ IsNew(t) /\ "queue" \in Deliveries
  /\ Insert(t, "queue", "queued", "pending")
  /\ drain' = IF mission \in Active THEN drain ELSE Poked
  /\ UNCHANGED <<mission, activeRun, run, starts, plan, route, captured, cancelledRuns,
                 cancelling, crashes>>

(* delivery "steer": handed to the active run; without one the route       *)
(* throws and leaves the command pending.                                  *)
SteerMessage(t) ==
  /\ IsNew(t) /\ "steer" \in Deliveries /\ mission \in Active
  /\ Insert(t, "steer", "pending_priority", IF ActiveRuns = {} THEN "pending" ELSE "processing")
  /\ route' = [route EXCEPT ![t] = IF ActiveRuns = {} THEN "none" ELSE "steering"]
  /\ UNCHANGED <<mission, activeRun, run, drain, starts, plan, captured, cancelledRuns,
                 cancelling, crashes>>

(* The orchestrator applied the steer or refused it; either result is      *)
(* written whatever the rows say by now.                                   *)
SteerReturns(t) ==
  /\ route[t] = "steering"
  /\ \E outcome \in {"completed", "failed"} :
       /\ command' = [command EXCEPT ![t] = outcome]
       /\ turn' = [turn EXCEPT ![t] = outcome]
  /\ route' = [route EXCEPT ![t] = "none"]
  /\ UNCHANGED <<mission, activeRun, kind, run, drain, starts, plan, captured, cancelledRuns,
                 cancelling, crashes>>

(* delivery "stop_and_replan": the rows of the new turn, the snapshot of   *)
(* what is active, the in-memory fence of the active runs; then the await  *)
(* of stopMission.                                                         *)
ReplanMessage(t) ==
  /\ IsNew(t) /\ "stop_and_replan" \in Deliveries
  /\ Insert(t, "stop_and_replan", "queued", "pending")
  /\ captured' = [captured EXCEPT ![t] = ActiveRuns \cup {u \in Turns : turn[u] \in LiveRun}]
  /\ cancelledRuns' = cancelledRuns \cup ActiveRuns
  /\ route' = [route EXCEPT ![t] = "stopping"]
  /\ UNCHANGED <<mission, activeRun, run, drain, starts, plan, cancelling, crashes>>

(* Mutated form: the fence cancels no tasks. *)
FenceCapturedKeepingTasks(t) ==
  /\ route[t] = "stopping" /\ Stopped(captured[t])
  /\ mission' = "cancelled" /\ activeRun' = NULL
  /\ run' = Moved(run, captured[t], LiveRun, "cancelled")
  /\ turn' = Moved(turn, captured[t], LiveRun, "cancelled")
  /\ command' = Moved(command, captured[t], LiveCommand, "cancelled")
  /\ route' = [route EXCEPT ![t] = IF starts = {} THEN "restopping" ELSE "settling"]
  /\ UNCHANGED <<kind, drain, starts, plan, captured, cancelledRuns, cancelling, crashes>>

(* stopMission returned: the mission is fenced, its tasks are cancelled,   *)
(* and what the snapshot holds is cancelled where it is still active.      *)
FenceCaptured(t) ==
  /\ route[t] = "stopping" /\ Stopped(captured[t])
  /\ mission' = "cancelled" /\ activeRun' = NULL
  /\ run' = Moved(run, captured[t], LiveRun, "cancelled")
  /\ turn' = Moved(turn, captured[t], LiveRun, "cancelled")
  /\ command' = Moved(command, captured[t], LiveCommand, "cancelled")
  /\ plan' = TasksCancelled
  /\ route' = [route EXCEPT ![t] = IF starts = {} THEN "restopping" ELSE "settling"]
  /\ UNCHANGED <<kind, drain, starts, captured, cancelledRuns, cancelling, crashes>>

(* waitForMissionTurns returned (at once when no start is in flight); the  *)
(* sessions are stopped once more.                                         *)
AwaitStarts(t) ==
  /\ route[t] = "settling" /\ starts = {}
  /\ route' = [route EXCEPT ![t] = "restopping"]
  /\ UNCHANGED <<tables, drain, starts, plan, captured, cancelledRuns, cancelling, crashes>>

(* The mission is opened for the replacement and the queue is drained. *)
ReopenMission(t) ==
  /\ route[t] = "restopping" /\ Stopped(Turns)
  /\ mission' = "ready"
  /\ plan' = TasksCancelled
  /\ drain' = Poked
  /\ route' = [route EXCEPT ![t] = "served"]
  /\ UNCHANGED <<activeRun, kind, turn, command, run, starts, captured, cancelledRuns,
                 cancelling, crashes>>

(* The first stop failed: the new turn fails, whatever became of it. *)
ReplanStopFails(t) ==
  /\ StopMayFail /\ route[t] = "stopping"
  /\ command' = [command EXCEPT ![t] = "failed"]
  /\ turn' = [turn EXCEPT ![t] = "failed"]
  /\ route' = [route EXCEPT ![t] = "refused"]
  /\ UNCHANGED <<mission, activeRun, kind, run, drain, starts, plan, captured, cancelledRuns,
                 cancelling, crashes>>

(* The second stop failed: the route answers 500, the mission stays fenced. *)
ReplanRestopFails(t) ==
  /\ StopMayFail /\ route[t] = "restopping"
  /\ route' = [route EXCEPT ![t] = "none"]
  /\ UNCHANGED <<tables, drain, starts, plan, captured, cancelledRuns, cancelling, crashes>>

(* POST /api/missions/:id/start: a turn without a command, started by its  *)
(* own request, refused while a run is active.                             *)
StartTurn(t) ==
  /\ IsNew(t) /\ "start" \in Deliveries /\ ActiveRuns = {}
  /\ Insert(t, "start", "starting", "absent")
  /\ OpenRun(t)
  /\ UNCHANGED <<drain, plan, route, captured, cancelledRuns, cancelling, crashes>>

-----------------------------------------------------------------------------
(* POST /api/missions/:id/cancel.                                          *)

RequestCancel ==
  /\ MayCancel /\ ~cancelling
  /\ cancelling' = TRUE
  /\ UNCHANGED <<tables, drain, starts, plan, route, captured, cancelledRuns, crashes>>

(* Mutated form: the cancellation leaves the tasks to themselves. *)
CancelMissionKeepingTasks ==
  /\ cancelling /\ Stopped(Turns)
  /\ command' = Moved(command, Turns, LiveCommand, "cancelled")
  /\ run' = Moved(run, Turns, LiveRun, "cancelled")
  /\ turn' = Moved(turn, Turns, Unstarted \cup LiveRun, "cancelled")
  /\ mission' = "cancelled" /\ activeRun' = NULL
  /\ cancelling' = FALSE
  /\ UNCHANGED <<kind, drain, starts, plan, route, captured, cancelledRuns, crashes>>

(* Mutated form: the cancellation rewrites every turn of the mission. *)
CancelMissionAllTurns ==
  /\ cancelling /\ Stopped(Turns)
  /\ command' = Moved(command, Turns, LiveCommand, "cancelled")
  /\ run' = Moved(run, Turns, LiveRun, "cancelled")
  /\ turn' = [t \in Turns |-> IF turn[t] = "absent" THEN "absent" ELSE "cancelled"]
  /\ mission' = "cancelled" /\ activeRun' = NULL
  /\ plan' = TasksCancelled
  /\ cancelling' = FALSE
  /\ UNCHANGED <<kind, drain, starts, route, captured, cancelledRuns, crashes>>

CancelMission ==
  /\ cancelling /\ Stopped(Turns)
  /\ command' = Moved(command, Turns, LiveCommand, "cancelled")
  /\ run' = Moved(run, Turns, LiveRun, "cancelled")
  /\ turn' = Moved(turn, Turns, Unstarted \cup LiveRun, "cancelled")
  /\ mission' = "cancelled" /\ activeRun' = NULL
  /\ plan' = TasksCancelled
  /\ cancelling' = FALSE
  /\ UNCHANGED <<kind, drain, starts, route, captured, cancelledRuns, crashes>>

CancelStopFails ==
  /\ StopMayFail /\ cancelling
  /\ cancelling' = FALSE
  /\ UNCHANGED <<tables, drain, starts, plan, route, captured, cancelledRuns, crashes>>

-----------------------------------------------------------------------------
(* drainMissionCommands and startDurableTurn.                              *)

MayClaim == mission \in Drainable /\ ActiveRuns = {}

(* One iteration: the claim and the opening of the run, with no await that *)
(* leaves the process between them.                                        *)
ClaimNext(t) ==
  /\ drain = "due" /\ MayClaim /\ IsNext(t) /\ turn[t] \in Unstarted
  /\ command' = [command EXCEPT ![t] = "processing"]
  /\ turn' = [turn EXCEPT ![t] = "starting"]
  /\ OpenRun(t)
  /\ drain' = "starting"
  /\ UNCHANGED <<kind, plan, route, captured, cancelledRuns, cancelling, crashes>>

DrainStops ==
  /\ drain = "due"
  /\ ~MayClaim \/ \A t \in Turns : command[t] # "pending"
  /\ drain' = "idle"
  /\ UNCHANGED <<tables, starts, plan, route, captured, cancelledRuns, cancelling, crashes>>

(* The supervisor decided for a run that is cancelled or stale by now.     *)
StartRejected(t) ==
  /\ t \in starts /\ kind[t] # "retry" /\ Stale(t)
  /\ FailStart(t)
  /\ starts' = starts \ {t}
  /\ drain' = DrainAfterThrow(t)
  /\ UNCHANGED <<kind, plan, route, captured, cancelledRuns, cancelling, crashes>>

(* The decision itself failed, for instance because stopMission cancelled  *)
(* the supervisor's turn: transitionMissionDiagnostic fails the mission    *)
(* and publishes mission_failed, unless the mission is terminal already.   *)
DecisionFails(t) ==
  /\ t \in starts /\ kind[t] # "retry" /\ (StartMayFail \/ Interrupted(t))
  /\ IF mission \in Terminal
     THEN /\ FailStart(t)
          /\ drain' = DrainAfterThrow(t)
     ELSE /\ mission' = "failed"
          /\ CloseRun(t, "failed")
          /\ drain' = IF run[t] \in LiveRun /\ DrainAfterThrow(t) = "idle"
                      THEN "due" ELSE DrainAfterThrow(t)
  /\ starts' = starts \ {t}
  /\ UNCHANGED <<kind, plan, route, captured, cancelledRuns, cancelling, crashes>>

(* The turn is answered without a plan: its completion is published before *)
(* startMission returns, so nothing is left for the final transaction.     *)
Respond(t) ==
  /\ t \in starts /\ kind[t] # "retry" /\ ~Stale(t)
  /\ mission' = "completed"
  /\ CloseRun(t, "completed")
  /\ starts' = starts \ {t}
  /\ drain' = IF run[t] \in LiveRun /\ drain = "idle" THEN "due" ELSE DrainAfterReturn(t)
  /\ UNCHANGED <<kind, plan, route, captured, cancelledRuns, cancelling, crashes>>

(* A plan is dispatched, or waits for its approval; the final transaction  *)
(* applies only while the run still belongs to the mission.                *)
DispatchPlan(t) ==
  /\ t \in starts /\ kind[t] # "retry" /\ ~Stale(t)
  /\ mission' \in {"running", "waiting"}
  /\ plan' = [plan EXCEPT ![t] = "executing"]
  /\ IF run[t] = "starting" /\ activeRun = t
     THEN /\ command' = Moved(command, {t}, {"processing"}, "completed")
          /\ turn' = Moved(turn, {t}, {"starting"}, "running")
          /\ run' = [run EXCEPT ![t] = "running"]
     ELSE UNCHANGED <<command, turn, run>>
  /\ starts' = starts \ {t}
  /\ drain' = DrainAfterReturn(t)
  /\ UNCHANGED <<activeRun, kind, route, captured, cancelledRuns, cancelling, crashes>>

-----------------------------------------------------------------------------
(* POST /api/missions/:id/retry and /api/tasks/:id/retry.                  *)

(* The failed tasks are those of the mission's current plan: the plan of   *)
(* the last run that got one.  Turns that may have left another plan, or   *)
(* none, bar the retry here, and so does a blocked mission.                *)
MayRetry ==
  /\ mission = "failed" /\ activeRun = NULL /\ ActiveRuns = {}
  /\ \A t \in Turns : command[t] \notin LiveCommand
  /\ \E u \in Turns :
       /\ run[u] = "failed" /\ command[u] = "completed"
       /\ \A v \in Turns \ {u} : run[v] = "absent" \/ kind[v] = "retry" \/ command[v] = "failed"

(* createDurableMissionRetry: turn, claimed command and run in one         *)
(* transaction, then the failed tasks are dispatched one by one, each      *)
(* after its preflight.                                                    *)
RetryTasks(t) ==
  /\ IsNew(t) /\ "retry" \in Deliveries /\ MayRetry
  /\ Insert(t, "retry", "starting", "processing")
  /\ run' = [run EXCEPT ![t] = "starting"]
  /\ activeRun' = t /\ mission' = "running"
  /\ starts' = starts \cup {t}
  /\ plan' = [plan EXCEPT ![t] = "executing"]
  /\ UNCHANGED <<drain, route, captured, cancelledRuns, cancelling, crashes>>

(* Every task is dispatched; the rows are written where nothing else has   *)
(* settled them meanwhile.                                                 *)
RetryDispatched(t) ==
  /\ t \in starts /\ kind[t] = "retry" /\ route[t] # "undoing"
  /\ command' = Moved(command, {t}, {"processing"}, "completed")
  /\ turn' = Moved(turn, {t}, {"starting"}, "running")
  /\ run' = Moved(run, {t}, {"starting"}, "running")
  /\ starts' = starts \ {t}
  /\ UNCHANGED <<mission, activeRun, kind, drain, plan, route, captured, cancelledRuns,
                 cancelling, crashes>>

(* A dispatch throws: its preflight failed, no capacity is left, or the    *)
(* run is not current any more.  The run is fenced and its sessions are    *)
(* stopped.                                                                *)
RetryFails(t) ==
  /\ t \in starts /\ kind[t] = "retry" /\ route[t] # "undoing"
  /\ StartMayFail \/ Stale(t) \/ mission = "failed"
  /\ cancelledRuns' = cancelledRuns \cup {t}
  /\ route' = [route EXCEPT ![t] = "undoing"]
  /\ UNCHANGED <<tables, drain, starts, plan, captured, cancelling, crashes>>

(* The catch of retryMissionTasksWithDurability.  Its mission_failed finds *)
(* no active run, so it drains nothing.                                    *)
RetryUndone(t) ==
  /\ route[t] = "undoing"
  /\ FailStart(t)
  /\ starts' = starts \ {t}
  /\ plan' = [plan EXCEPT ![t] = "none"]
  /\ route' = [route EXCEPT ![t] = "none"]
  /\ UNCHANGED <<kind, drain, captured, cancelledRuns, cancelling, crashes>>

-----------------------------------------------------------------------------
(* What the orchestrator reports of a plan in execution.                   *)

(* The last task is done: the mission is completed in the database, then   *)
(* the supervisor is asked for a synthesis.                                *)
PlanSucceeds(t) ==
  /\ plan[t] = "executing" /\ t \notin starts \cup cancelledRuns /\ mission \notin Terminal
  /\ mission' = "completed"
  /\ plan' = [plan EXCEPT ![t] = "synthesizing"]
  /\ UNCHANGED <<activeRun, kind, turn, command, run, drain, starts, route, captured,
                 cancelledRuns, cancelling, crashes>>

(* Mutated form: the listener does not drain after the terminal event. *)
SynthesisEndsSilently(t) ==
  /\ plan[t] = "synthesizing"
  /\ plan' = [plan EXCEPT ![t] = "none"]
  /\ IF mission \in {"failed", "cancelled"}
     THEN UNCHANGED <<command, run, turn, activeRun>>
     ELSE CloseRun(t, "completed")
  /\ UNCHANGED <<mission, kind, drain, starts, route, captured, cancelledRuns, cancelling, crashes>>

(* mission_completed, unless the mission failed or was cancelled meanwhile *)
(* (canPublishCompletion).                                                 *)
SynthesisEnds(t) ==
  /\ plan[t] = "synthesizing"
  /\ plan' = [plan EXCEPT ![t] = "none"]
  /\ IF mission \in {"failed", "cancelled"}
     THEN UNCHANGED <<command, run, turn, activeRun, drain>>
     ELSE /\ CloseRun(t, "completed")
          /\ drain' = IF run[t] \in LiveRun THEN Poked ELSE drain
  /\ UNCHANGED <<mission, kind, starts, route, captured, cancelledRuns, cancelling, crashes>>

(* A task is rejected and takes the mission with it: mission_failed. *)
PlanFails(t) ==
  /\ plan[t] = "executing" /\ mission \notin Terminal
  /\ StartMayFail \/ Interrupted(t)
  /\ mission' = "failed"
  /\ plan' = [plan EXCEPT ![t] = "none"]
  /\ CloseRun(t, "failed")
  /\ drain' = IF run[t] \in LiveRun THEN Poked ELSE drain
  /\ UNCHANGED <<kind, starts, route, captured, cancelledRuns, cancelling, crashes>>

(* The plan of an interrupted run, taken up again after a restart, ends.   *)
(* Its correlation was lost with the process: the event names no run.      *)
OrphanPlanEnds ==
  /\ crashes > 0 /\ mission \in {"running", "waiting"} /\ activeRun = NULL
  /\ ActiveRuns = {} /\ (\A t \in Turns : plan[t] = "none")
  /\ mission' \in {"completed", "failed"}
  /\ UNCHANGED <<activeRun, kind, turn, command, run, drain, starts, plan, route, captured,
                 cancelledRuns, cancelling, crashes>>

-----------------------------------------------------------------------------
(* The gateway dies and recoverGatewayStartup runs: what was starting or   *)
(* running fails, an interrupted mission is ready again, its plan is       *)
(* reconciled (its expired tasks fail it, or its remaining tasks run), and *)
(* the pending commands are drained.  `lost` is the command the drain had  *)
(* claimed without opening its run, if any.                                *)
RestartFrom(lost) ==
  /\ crashes < MaxCrashes
  /\ crashes' = crashes + 1
  /\ command' = Moved(Moved(command, Turns, {"processing"}, "failed"), {lost}, {"pending"}, "failed")
  /\ turn' = Moved(turn, Turns, LiveRun, "failed")
  /\ run' = Moved(run, Turns, LiveRun, "failed")
  /\ activeRun' = NULL
  /\ LET interrupted == activeRun # NULL /\ mission \in {"planning", "running"}
         recovered   == IF interrupted THEN "ready" ELSE mission
     IN  \/ mission' = recovered
         \/ /\ recovered = "ready" /\ \E t \in Turns : plan[t] = "executing"
            /\ mission' \in {"running", "failed"}
  /\ drain' = IF \E t \in Turns : command[t] = "pending" /\ t # lost THEN "due" ELSE "idle"
  /\ starts' = {} /\ plan' = [t \in Turns |-> "none"] /\ cancelledRuns' = {} /\ cancelling' = FALSE
  /\ route' = [t \in Turns |-> "none"]
  /\ captured' = [t \in Turns |-> {}]
  /\ UNCHANGED kind

Restart ==
  \/ RestartFrom(NULL)
  \/ /\ drain = "due" /\ MayClaim
     /\ \E t \in Turns : IsNext(t) /\ RestartFrom(t)

-----------------------------------------------------------------------------
UserNext ==
  \/ \E t \in Turns : QueueMessage(t) \/ SteerMessage(t) \/ ReplanMessage(t) \/ StartTurn(t) \/ RetryTasks(t)
  \/ RequestCancel

ReplanNext(t) == FenceCaptured(t) \/ AwaitStarts(t) \/ ReopenMission(t)

StartNext(t) ==
  \/ StartRejected(t) \/ DecisionFails(t) \/ Respond(t) \/ DispatchPlan(t)
  \/ RetryDispatched(t) \/ RetryFails(t) \/ RetryUndone(t)

PlanNext(t) == PlanSucceeds(t) \/ SynthesisEnds(t) \/ PlanFails(t)

FailureNext ==
  \/ \E t \in Turns : ReplanStopFails(t) \/ ReplanRestopFails(t)
  \/ CancelStopFails
  \/ Restart

DrainNext == DrainStops \/ \E t \in Turns : ClaimNext(t)

Next ==
  \/ UserNext \/ FailureNext
  \/ DrainNext \/ CancelMission \/ OrphanPlanEnds
  \/ \E t \in Turns : SteerReturns(t) \/ ReplanNext(t) \/ StartNext(t) \/ PlanNext(t)

Spec == Init /\ [][Next]_vars

(* A scheduled drain runs (setImmediate, or the loop itself); an awaited   *)
(* decision, steer, synthesis or stop returns; the agents of a plan end,   *)
(* one way or the other, as the runtime's watchdog forces them to.         *)
Fairness ==
  /\ WF_vars(DrainNext) /\ WF_vars(CancelMission)
  /\ \A t \in Turns : /\ WF_vars(SteerReturns(t)) /\ WF_vars(ReplanNext(t))
                      /\ WF_vars(StartNext(t)) /\ WF_vars(PlanNext(t))

FairSpec == Spec /\ Fairness

-----------------------------------------------------------------------------
(* The three tables agree on every turn: a turn is being started or runs   *)
(* exactly while its run is active, a pending command has a turn that can  *)
(* still be claimed, and a starting run has its command claimed.           *)
(* (startDurableTurn, the terminal listener, the cancel and replan routes  *)
(* and the restart each write all of them.)  The turn of a                 *)
(* stop_and_replan whose first stop failed is excepted: it is failed by id *)
(* while the drain may already run it.                                     *)
RowsAgree == \A t \in Turns : route[t] # "refused" =>
  /\ turn[t] \in LiveRun <=> run[t] \in LiveRun
  /\ command[t] = "pending" => turn[t] \in Unstarted
  /\ run[t] = "starting" => command[t] = "processing" \/ kind[t] = "start"

(* The active run of the mission is the one run that is active: nothing    *)
(* runs that the mission does not own, so nothing can block its queue for  *)
(* ever (drainMissionCommands claims nothing while any run is active).     *)
RunIsOwned == ActiveRuns = IF activeRun = NULL THEN {} ELSE {activeRun}

(* A mission the user cancelled executes nothing, whatever was being       *)
(* decided when the cancellation landed (ensureRunIsCurrent).              *)
CancelledIsQuiet == mission = "cancelled" => \A t \in Turns : plan[t] # "executing"

(* The variables have their types, the tables agree on every turn, the     *)
(* mission owns what runs, and a cancelled one runs nothing.               *)
QueueInv == TypeOK /\ RowsAgree /\ RunIsOwned /\ CancelledIsQuiet

(* At most one run of a mission is active at any time, even while a        *)
(* stop_and_replan has detached the mission from its run.                  *)
OneActiveRun == Cardinality(ActiveRuns) <= 1

(* Once a stop_and_replan has fenced the runs it captured, they are        *)
(* settled and execute nothing, up to the moment the mission reopens.      *)
FencedRunsAreQuiet == \A t \in Turns :
  route[t] \in {"settling", "restopping"} =>
    \A u \in captured[t] : run[u] \notin LiveRun /\ turn[u] \notin LiveRun /\ plan[u] = "none"

(* Through the steps of a stop_and_replan one run is active at most, the   *)
(* tables agree, and nothing it has fenced goes on.                        *)
ReplanSafety == OneActiveRun /\ FencedRunsAreQuiet /\ RowsAgree

(* The inductive strengthening of the invariants above.  A turn that does   *)
(* not exist has no rows, a run that was opened has its command claimed, a *)
(* steer is never run, only a stop_and_replan stops and reopens, one that  *)
(* was refused is not claimed again, and what one captured has been opened *)
(* and is fenced.                                                          *)
AbsentHasNoRows == \A t \in Turns : turn[t] = "absent" =>
  command[t] = "absent" /\ run[t] = "absent" /\ route[t] = "none" /\ t \notin starts

OpenedIsClaimed == \A t \in Turns : run[t] # "absent" => command[t] # "pending"

SteersDoNotRun == \A t \in Turns : route[t] = "steering" =>
  kind[t] = "steer" /\ run[t] = "absent" /\ command[t] # "pending"

ReplansAreReplans == \A t \in Turns :
  route[t] \in {"stopping", "settling", "restopping", "served", "refused"} => kind[t] = "stop_and_replan"

RefusedIsClosed == \A t \in Turns : route[t] = "refused" =>
  turn[t] \notin LiveRun /\ command[t] # "pending"

CapturedIsFenced == \A t \in Turns : \A u \in captured[t] :
  u \in cancelledRuns /\ run[u] # "absent"

OnlyOneRuns == \A t, u \in ActiveRuns : t = u

TurnInv ==
  /\ TypeOK
  /\ RowsAgree /\ AbsentHasNoRows /\ OpenedIsClaimed
  /\ SteersDoNotRun /\ ReplansAreReplans /\ RefusedIsClosed
  /\ CapturedIsFenced /\ FencedRunsAreQuiet
  /\ OnlyOneRuns /\ CancelledIsQuiet

(* What a turn, its command and its run settled as is final: no late       *)
(* completion, failed start, cancellation or restart rewrites it.  Steers  *)
(* and a stop_and_replan that cannot stop are excepted: their results are  *)
(* written by id, whatever the rows say.                                   *)
SettledIsFinal == [][\A t \in Turns : kind[t] # "steer" /\ route'[t] # "refused" =>
  /\ turn[t] \in Terminal => turn'[t] = turn[t]
  /\ command[t] \in Terminal => command'[t] = command[t]
  /\ run[t] \in Terminal => run'[t] = run[t]]_vars

(* A cancelled mission stays cancelled until a stop_and_replan reopens it: *)
(* no start, completion, failure or restart revives it.                    *)
CancelledStays ==
  [][mission = "cancelled" /\ mission' # "cancelled" =>
       \E t \in Turns : route[t] = "restopping" /\ route'[t] = "served"]_vars

(* Neither a settled turn nor a cancelled mission is revived.              *)
VerdictsStand == SettledIsFinal /\ CancelledStays

(* A claimed command is settled in the end, through failing starts,        *)
(* cancellations and restarts alike: none is claimed for ever.             *)
ClaimsSettle == \A t \in Turns : []<>(command[t] # "processing")

(* As long as nothing fails, nothing is steered and nobody cancels, every  *)
(* turn the user creates is completed: the terminal event of one turn      *)
(* starts the next.                                                        *)
Undisturbed == /\ mission # "cancelled" /\ ~cancelling /\ crashes = 0
               /\ \A t \in Turns : turn[t] # "failed" /\ kind[t] # "steer"
EveryTurnCompletes ==
  []Undisturbed => \A t \in Turns : []<>(turn[t] \in {"absent", "completed"})

(* Every claim ends, and every turn too while nothing goes wrong.          *)
TurnsSettle == ClaimsSettle /\ EveryTurnCompletes

(* services/api-gateway/src/api-gateway.test.ts:1105, "stop_and_replan     *)
(* must fence the old run without cancelling the newly queued command":    *)
(* with nothing else failing and no user cancelling, a stop_and_replan     *)
(* that found a run to fence does not take its own turn down with it.      *)
ReplacementSurvives == \A t \in Turns :
  kind[t] = "stop_and_replan" /\ captured[t] # {} => turn[t] \notin {"failed", "cancelled"}
=============================================================================
