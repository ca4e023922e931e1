--------------------------- MODULE MissionScheduler ---------------------------
(***************************************************************************)
(* How the tasks of one plan are dispatched to agents, retried, judged and *)
(* handed to the apply stage (services/orchestration-core/src: worker-     *)
(* pool.ts, orchestrator.ts, orchestrator-v2.ts), with the agents the      *)
(* runtime host runs for them and the routes of the gateway that dispatch  *)
(* tasks themselves.                                                       *)
(*                                                                         *)
(* Two flows of control dispatch.  "queue" is the mission's promise queue, *)
(* which takes one terminal event at a time; "route" is the request (or    *)
(* the start of the plan) that runs beside it.  Database awaits do not     *)
(* leave the process; the slow await of a dispatch is the preflight of a   *)
(* Builder's target, and only there does a flow let anything else run      *)
(* (Yielded).                                                              *)
(*                                                                         *)
(* The k-th agent of task t is <<t, k>>: task_attempts.attempt_number.     *)
(***************************************************************************)
EXTENDS Integers, Sequences, FiniteSets

CONSTANTS
  Plans,           \* the plans a mission may have: [kind, role, deps]
  MaxParallel,     \* WorkerPoolTemplatePolicy.maxParallelAgents
  RoleLimit,       \* the pool limit of each role
  MaxTaskRetries,  \* OrchestratorConfig.maxTaskRetries
  MaxAgents,       \* bound: how many agents a task gets
  Scenarios,       \* bound: which disturbances happen together, and how often
  MayFail          \* whether launches, preflights and work may fail

ASSUME BoundsAssumption ==
  {MaxParallel, MaxTaskRetries, MaxAgents} \subseteq Nat /\ RoleLimit \in [DOMAIN RoleLimit -> Nat]

(* The pool limits every role, and dependsOnIndices becomes ids of tasks   *)
(* of the same plan.                                                       *)
ASSUME PlansAssumption ==
  \A p \in Plans : /\ p.role \in Seq(DOMAIN RoleLimit)
                   /\ p.deps \in [1 .. Len(p.role) -> SUBSET (1 .. Len(p.role))]

VARIABLES
  plan,        \* the rows of tasks that never change: role, depends_on
  mission,     \* missions.status
  asked,       \* the approvals that wait for the user
  task,        \* tasks.status
  agent,       \* tasks.assigned_agent_id: the number of the agent, 0 for NULL
  attempts,    \* task_attempts.status of every agent of every task
  retries,     \* taskRetries, in memory
  handled,     \* handledRuntimeTerminalSessions, in memory
  inbox,       \* terminal events the mission's queue has not handled yet
  job,         \* what each flow of control is dispatching
  cancelling,  \* whether POST /cancel awaits its stop
  recovering,  \* whether the start-up has still to reconcile the plan
  passed,      \* history: gate tasks whose last verdict was a pass
  lost,        \* history: a launch failed, or a crash lost a launch, an end or a stop
  spent        \* how often each disturbance has happened

rows == <<plan, mission, asked, task, agent, attempts>>
memory == <<retries, handled, inbox, job, cancelling, recovering>>
history == <<passed, lost, spent>>
vars == <<rows, memory, history>>

Tasks  == 1 .. Len(plan.role)
Agents(t) == 1 .. Len(attempts[t])

(* "active" stands for ready, running, revising, reviewing and verifying,  *)
(* which no guard of the scheduler tells apart; "waiting" is               *)
(* waiting_for_approval.                                                   *)
MissionStatus == {"active", "waiting", "blocked", "applying", "completed", "failed", "cancelled"}
TaskStatus == {"planned", "ready", "running", "done", "rejected", "superseded", "cancelled", "blocked"}

(* An attempt has no row while its agent is launching, and never gets one  *)
(* when it is lost.  "overdue" is expired before its launch came back.     *)
AttemptStatus == {"launching", "claimed", "overdue", "live", "completed", "failed", "expired", "cancelled", "lost"}

TerminalMission == {"completed", "failed", "cancelled"}
TerminalTask    == {"done", "superseded"}
FencedTask      == {"cancelled", "rejected", "superseded", "done"}
Pending         == {"planned", "ready", "blocked"}

Events == [type : {"completed", "failed"}, t : Tasks, k : Nat, pass : BOOLEAN]

JobKind == {"idle", "start", "approve", "select", "retry", "legacy", "reconcile", "single", "due"}
Jobs == [kind : JobKind, todo : SUBSET Tasks, at : Tasks \cup {0}, picked : SUBSET Tasks]
Idle == [kind |-> "idle", todo |-> {}, at |-> 0, picked |-> {}]
Job(kind, todo) == [kind |-> kind, todo |-> todo, at |-> 0, picked |-> todo]

(* What the environment does beyond the plain course of a mission.         *)
Kinds == {"repeat", "expiry", "userRetry", "crash", "cancel"}

TypeOK ==
  /\ plan \in Plans
  /\ mission \in MissionStatus
  /\ asked \subseteq {"plan", "candidate_selection", "apply"}
  /\ task \in [Tasks -> TaskStatus]
  /\ attempts \in [Tasks -> Seq(AttemptStatus)]
  /\ agent \in [Tasks -> Nat]
  /\ \A t \in Tasks : agent[t] <= Len(attempts[t]) /\ Len(attempts[t]) <= MaxAgents
  /\ retries \in [Tasks -> Nat]
  /\ handled \subseteq Tasks \X Nat
  /\ inbox \in Seq(Events)
  /\ \A i \in 1 .. Len(inbox) : inbox[i].k \in Agents(inbox[i].t)
  /\ job \in [{"queue", "route"} -> Jobs]
  /\ cancelling \in BOOLEAN /\ recovering \in BOOLEAN
  /\ spent \in [Kinds -> Nat]
  /\ passed \subseteq Tasks /\ lost \in BOOLEAN

-----------------------------------------------------------------------------
(* Readiness and capacity.                                                 *)

Running == {t \in Tasks : task[t] = "running"}
ReadyIn(rowsNow) == {t \in Tasks : /\ rowsNow[t] \in {"planned", "ready"}
                                   /\ \A d \in plan.deps[t] : rowsNow[d] \in TerminalTask}
Ready == ReadyIn(task)
WithRole(S, r) == {t \in S : plan.role[t] = r}

Fits(t, taken) == /\ Cardinality(taken) < MaxParallel
                  /\ Cardinality(WithRole(taken, plan.role[t])) < RoleLimit[plan.role[t]]

(* Mutated form: what is running is not counted.                           *)
AllocatedUncounted(rowsNow, candidates) == {t \in candidates : Fits(t, {})}

(* allocateWorkerBatch: candidates are taken in plan order while they fit  *)
(* beside the running workers and the ones taken before them.              *)
AllocatedIn(rowsNow, candidates) ==
  LET busy == {t \in Tasks : rowsNow[t] = "running"} \ candidates IN
  CHOOSE batch \in SUBSET candidates :
    \A t \in candidates : t \in batch <=> Fits(t, busy \cup {u \in batch : u < t})
Allocated(candidates) == AllocatedIn(task, candidates)

HasBuilder == \E t \in Tasks : plan.role[t] = "builder"
ReadOnly == plan.kind = "delegate" \/ ~HasBuilder
Builders == {t \in Tasks : plan.role[t] = "builder"}

(* Candidate mode: one Builder has to be selected before QA.               *)
SelectionPending == /\ plan.kind = "candidate" /\ Cardinality(Builders) > 1
                    /\ \A t \in Builders : task[t] # "superseded"
AskSelection(batch) == SelectionPending /\ \E t \in batch : plan.role[t] = "qa"

-----------------------------------------------------------------------------
(* Agents: what the runtime host reports.                                  *)

(* A flow that is not waiting for a preflight holds the process.           *)
Yielded(flows) == \A d \in flows : job[d] = Idle \/ job[d].at # 0
Other(d) == IF d = "queue" THEN "route" ELSE "queue"

Event(type, t, k, pass) == [type |-> type, t |-> t, k |-> k, pass |-> pass]
Disturb(kind) == /\ spent' = [spent EXCEPT ![kind] = @ + 1]
                 /\ \E allowed \in Scenarios : \A k \in Kinds : spent'[k] <= allowed[k]
SetAttempt(t, k, s) == attempts' = [attempts EXCEPT ![t][k] = s]

(* The host claims a row for the attempt, then starts the process.  Timing *)
(* assumption: agents of one task reach this point in their order.         *)
ClaimAttempt(t, k) ==
  /\ attempts[t][k] = "launching" /\ (\A n \in 1 .. k - 1 : attempts[t][n] # "launching") /\ SetAttempt(t, k, "claimed")
  /\ UNCHANGED <<plan, mission, asked, task, agent, memory, history>>

StartAgent(t, k) ==
  /\ attempts[t][k] = "claimed" /\ SetAttempt(t, k, "live")
  /\ UNCHANGED <<plan, mission, asked, task, agent, memory, history>>

(* A launch that throws rejects the task whatever its row says by then,    *)
(* and reports a failure that names no run.                                *)
LaunchFails(t, k) ==
  /\ attempts[t][k] = "overdue" \/ (MayFail /\ attempts[t][k] \in {"launching", "claimed"})
  /\ SetAttempt(t, k, CASE attempts[t][k] = "launching" -> "lost"
                        [] attempts[t][k] = "claimed"   -> "failed"
                        [] OTHER                        -> "expired")
  /\ task' = [task EXCEPT ![t] = "rejected"]
  /\ inbox' = Append(inbox, Event("failed", t, k, FALSE))
  /\ lost' = TRUE
  /\ UNCHANGED <<plan, mission, asked, agent, retries, handled, job, cancelling, recovering, passed, spent>>

(* A worker takes minutes and a preflight lists a directory: no worker     *)
(* reports before the request that started it is through its batch.        *)
Report(t, k) ==
  /\ attempts[t][k] = "live" /\ job["route"] = Idle
  /\ \E type \in {"completed"} \cup (IF MayFail THEN {"failed"} ELSE {}),
        pass \in IF plan.role[t] \in {"reviewer", "qa"} /\ MayFail THEN BOOLEAN ELSE {TRUE} :
       /\ SetAttempt(t, k, type)
       /\ inbox' = Append(inbox, Event(type, t, k, pass))
  /\ UNCHANGED <<plan, mission, asked, task, agent, retries, handled, job, cancelling, recovering, history>>

(* A turn that failed and a process that exited are reported separately.   *)
ReportAgain(t, k) ==
  /\ attempts[t][k] \in {"completed", "failed"} /\ Disturb("repeat")
  /\ \E type \in {"completed", "failed"} : inbox' = Append(inbox, Event(type, t, k, TRUE))
  /\ UNCHANGED <<rows, retries, handled, job, cancelling, recovering, passed, lost>>

(* The watchdog, or the lease of a launch that took too long.              *)
ExpireAttempt(t, k) ==
  /\ attempts[t][k] \in {"claimed", "live"} /\ Disturb("expiry")
  /\ SetAttempt(t, k, IF attempts[t][k] = "live" THEN "expired" ELSE "overdue")
  /\ inbox' = Append(inbox, Event("failed", t, k, FALSE))
  /\ UNCHANGED <<plan, mission, asked, task, agent, retries, handled, job, cancelling, recovering, passed, lost>>

-----------------------------------------------------------------------------
(* Dispatching.                                                            *)

SetJob(d, j) == job' = [job EXCEPT ![d] = j]

(* Orchestrator.assignTask after the preflight: the row is written without *)
(* reading it again.  A Reviewer or QA also sets the mission's status.     *)
Assign(t, taskNow) ==
  /\ Len(attempts[t]) < MaxAgents
  /\ attempts' = [attempts EXCEPT ![t] = Append(@, "launching")]
  /\ task' = [taskNow EXCEPT ![t] = "running"]
  /\ agent' = [agent EXCEPT ![t] = Len(attempts[t]) + 1]
  /\ mission' = IF plan.role[t] \in {"reviewer", "qa"} THEN "active" ELSE mission

(* Reconciliation reads the row again, a retry checks mission and capacity *)
StillDispatchable(d, t) ==
  CASE job[d].kind = "reconcile" -> task[t] \in {"planned", "ready"}
    [] job[d].kind = "retry"     -> /\ mission \notin {"cancelled", "failed", "blocked"}
                                    /\ Allocated({t}) = {t}
    [] OTHER -> TRUE

NextTask(d) == CHOOSE t \in job[d].todo : \A u \in job[d].todo : t <= u
Rest(d, t) == [job[d] EXCEPT !.todo = @ \ {t}]

Dispatch(d) ==
  /\ Yielded({Other(d)})
  /\ job[d].todo # {} /\ job[d].at = 0
  /\ LET t == NextTask(d)
         taskNow == IF job[d].kind \in {"legacy", "reconcile"} THEN [task EXCEPT ![t] = "ready"] ELSE task IN
       /\ StillDispatchable(d, t)
       /\ IF plan.role[t] = "builder"
          THEN /\ task' = taskNow /\ SetJob(d, [Rest(d, t) EXCEPT !.at = t])
               /\ UNCHANGED <<mission, agent, attempts>>
          ELSE Assign(t, taskNow) /\ SetJob(d, Rest(d, t))
  /\ UNCHANGED <<plan, asked, retries, handled, inbox, cancelling, recovering, history>>

SkipTask(d) ==
  /\ Yielded({Other(d)})
  /\ job[d].todo # {} /\ job[d].at = 0 /\ job[d].kind = "reconcile"
  /\ ~StillDispatchable(d, NextTask(d)) /\ SetJob(d, Rest(d, NextTask(d)))
  /\ UNCHANGED <<rows, retries, handled, inbox, cancelling, recovering, history>>

PreflightPasses(d) ==
  /\ Yielded({Other(d)})
  /\ job[d].at # 0 /\ Assign(job[d].at, task) /\ SetJob(d, [job[d] EXCEPT !.at = 0])
  /\ UNCHANGED <<plan, asked, retries, handled, inbox, cancelling, recovering, history>>

(* What a retry that cannot go on leaves: the gateway stops the sessions   *)
(* of its run, rejects the tasks it had started and fails the mission.     *)
AbortRetry(d, taskNow) ==
  /\ attempts' = [t \in Tasks |-> [k \in Agents(t) |->
       IF t \in job[d].picked /\ k = agent[t] /\ attempts[t][k] = "live" THEN "cancelled" ELSE attempts[t][k]]]
  /\ task' = IF mission \in {"completed", "cancelled"} THEN taskNow
             ELSE [t \in Tasks |-> IF t \in job[d].picked /\ taskNow[t] = "running" THEN "rejected" ELSE taskNow[t]]
  /\ mission' = IF mission \in {"completed", "cancelled"} THEN mission ELSE "failed"

(* transitionMissionDiagnostic, then whatever had called assignTask ends.  *)
PreflightFails(d) ==
  /\ Yielded({Other(d)})
  /\ MayFail /\ job[d].at # 0 /\ SetJob(d, Idle)
  /\ LET t == job[d].at
         settled == mission \in TerminalMission
         taskNow == IF settled \/ task[t] \in FencedTask THEN task ELSE [task EXCEPT ![t] = "blocked"] IN
       IF job[d].kind = "retry" THEN AbortRetry(d, taskNow)
       ELSE /\ task' = taskNow /\ mission' = IF settled THEN mission ELSE "failed"
            /\ UNCHANGED attempts
  /\ UNCHANGED <<plan, asked, agent, retries, handled, inbox, cancelling, recovering, history>>

RetryRefused(d) ==
  /\ Yielded({Other(d)})
  /\ job[d].todo # {} /\ job[d].at = 0 /\ job[d].kind = "retry"
  /\ ~StillDispatchable(d, NextTask(d)) /\ SetJob(d, Idle) /\ AbortRetry(d, task)
  /\ UNCHANGED <<plan, asked, agent, retries, handled, inbox, cancelling, recovering, history>>

(* A batch is through; a completion goes on to reconcile the plan.         *)
EndBatch(d) ==
  /\ Yielded({Other(d)})
  /\ job[d].todo = {} /\ job[d].at = 0 /\ job[d] # Idle
  /\ SetJob(d, IF job[d].kind = "legacy" /\ mission \notin {"failed", "cancelled", "blocked"}
               THEN Job("due", {}) ELSE Idle)
  /\ job[d].kind # "due"
  /\ UNCHANGED <<rows, retries, handled, inbox, cancelling, recovering, history>>

(* reconcileMissionPlanCore and recoverNonProgressingPlan.                 *)
Reconcile ==
  /\ job["queue"].kind = "due"
  /\ LET active == mission = "active" IN
     CASE ~active -> SetJob("queue", Idle) /\ UNCHANGED <<mission, asked>>
       [] active /\ Ready # {} /\ AskSelection(Ready) ->
            /\ mission' = "waiting" /\ asked' = asked \cup {"candidate_selection"} /\ SetJob("queue", Idle)
       [] active /\ Ready # {} /\ ~AskSelection(Ready) ->
            SetJob("queue", Job("reconcile", Allocated(Ready))) /\ UNCHANGED <<mission, asked>>
       [] OTHER ->
            /\ SetJob("queue", Idle) /\ UNCHANGED asked
            /\ mission' = CASE Running # {} -> mission
                            [] Running = {} /\ (\E t \in Tasks : task[t] = "rejected") -> "failed"
                            [] Running = {} /\ (\A t \in Tasks : task[t] \in TerminalTask) ->
                                 IF ReadOnly THEN "completed" ELSE "failed"
                            [] OTHER -> IF \E t \in Tasks : task[t] \in Pending THEN "failed" ELSE mission
  /\ UNCHANGED <<plan, task, agent, attempts, retries, handled, inbox, cancelling, recovering, history>>

-----------------------------------------------------------------------------
(* Terminal events, one at a time.                                         *)

Taken == inbox' = Tail(inbox)
HasEvent == inbox # <<>> /\ job["queue"] = Idle /\ Yielded({"route"})

Claims(t) == {k \in Agents(t) : attempts[t][k] \notin {"launching", "lost"}}
LatestAttempt(t) == CHOOSE k \in Claims(t) : \A n \in Claims(t) : n <= k

(* Mutated form: an event is not correlated with what is durable.          *)
CorrelatedLoosely(e) == TRUE

(* correlateRunlessTerminalEvent: no adapter names a run, so the durable   *)
(* latest attempt, or the assignment when there is none, identifies it.    *)
Correlated(e) ==
  /\ mission \notin TerminalMission \cup {"blocked"}
  /\ task[e.t] = "running"
  /\ IF Claims(e.t) = {} THEN agent[e.t] = e.k
     ELSE /\ e.k = LatestAttempt(e.t)
          /\ attempts[e.t][e.k] \in {"claimed", "live"} \cup
               (IF e.type = "completed" THEN {"completed"} ELSE {"failed", "expired", "overdue"})

(* Completions by another agent than the assigned one are dropped before,  *)
(* failures in shouldIgnoreRuntimeTerminalEvent.                           *)
Accepted(e) == /\ Correlated(e) /\ e.k = agent[e.t]
               /\ e.type = "failed" => <<e.t, e.k>> \notin handled

DropEvent ==
  /\ HasEvent /\ ~Accepted(Head(inbox)) /\ Taken
  /\ UNCHANGED <<rows, retries, handled, job, cancelling, recovering, history>>

IsGate(t) == plan.role[t] \in {"reviewer", "qa"}

(* A failed verdict rejects the gate, cancels what has not ended and fails *)
(* the mission (stopAfterQualityFailure).                                  *)
GateFails ==
  /\ HasEvent
  /\ LET e == Head(inbox) IN
       /\ Accepted(e) /\ e.type = "completed" /\ IsGate(e.t) /\ ~e.pass
       /\ task' = [t \in Tasks |-> IF t = e.t THEN "rejected"
                                   ELSE IF task[t] \in FencedTask THEN task[t] ELSE "cancelled"]
       /\ passed' = passed \ {e.t}
  /\ mission' = "failed" /\ Taken
  /\ UNCHANGED <<plan, asked, agent, attempts, retries, handled, job, cancelling, recovering, lost, spent>>

(* Mutated form: the verdict of a gate is not looked at.                   *)
GoodVerdictUnread(e) == TRUE

GoodVerdict(e) == IsGate(e.t) => e.pass

(* What applyApprovedChanges asks of the tasks before it applies.          *)
AllDone(rowsNow) == \A t \in Tasks : rowsNow[t] = "done"

(* A completion marks the row done, then either everything is finished and *)
(* the plan goes to the apply stage, or the next tasks are dispatched.     *)
Complete(e, done, after, wait, j) ==
  /\ HasEvent /\ e = Head(inbox) /\ Accepted(e) /\ e.type = "completed" /\ GoodVerdict(e) /\ Taken
  /\ task' = done /\ mission' = after /\ asked' = asked \cup wait /\ SetJob("queue", j)
  /\ passed' = IF IsGate(e.t) /\ e.pass THEN passed \cup {e.t} ELSE passed
  /\ handled' = IF ReadOnly THEN handled ELSE handled \cup {<<e.t, e.k>>}
  /\ UNCHANGED <<plan, agent, attempts, retries, cancelling, recovering, lost, spent>>

TaskCompleted ==
  LET e == Head(inbox)
      done == [task EXCEPT ![e.t] = "done"]
      finished == \A t \in Tasks : done[t] \in TerminalTask
      onMission == IF IsGate(e.t) THEN "active" ELSE mission
      next == ReadyIn(done)
      stuck == /\ next = {} /\ \A t \in Tasks : done[t] # "running"
               /\ \E t \in Tasks : done[t] \in Pending
      gates == /\ \E t \in Tasks : plan.role[t] = "reviewer" /\ done[t] = "done"
               /\ \A t \in Tasks : plan.role[t] = "qa" => done[t] = "done"
      due == Job("due", {})
  IN  /\ HasEvent
      /\ \/ ReadOnly /\ finished /\ Complete(e, done, "completed", {}, Idle)
         \/ ReadOnly /\ ~finished /\ Complete(e, done, onMission, {}, due)
         \/ ~ReadOnly /\ finished /\ ~gates /\ Complete(e, done, "blocked", {}, Idle)
         \/ /\ ~ReadOnly /\ finished /\ gates
            /\ \/ Complete(e, done, "blocked", {}, Idle)                    \* the policy denies
               \/ Complete(e, done, "waiting", {"apply"}, Idle)             \* it asks the user
               \/ Complete(e, done, IF AllDone(done) THEN "applying" ELSE "blocked", {}, Idle)
         \/ ~ReadOnly /\ ~finished /\ stuck /\ Complete(e, done, "failed", {}, Idle)
         \/ /\ ~ReadOnly /\ ~finished /\ ~stuck
            /\ IF AskSelection(next) THEN Complete(e, done, "waiting", {"candidate_selection"}, Idle)
               ELSE Complete(e, done, onMission, {}, Job("legacy", AllocatedIn(done, next)))

MayRetry(t) == retries[t] < MaxTaskRetries

(* handleTaskFailed: a retry while the budget lasts, if there is capacity. *)
TaskFailedRetries ==
  /\ HasEvent
  /\ LET e == Head(inbox) IN
       /\ Accepted(e) /\ e.type = "failed" /\ MayRetry(e.t)
       /\ retries' = [retries EXCEPT ![e.t] = @ + 1]
       /\ handled' = handled \cup {<<e.t, e.k>>}
       /\ task' = [task EXCEPT ![e.t] = "ready"] /\ agent' = [agent EXCEPT ![e.t] = 0]
       /\ SetJob("queue", IF Allocated({e.t}) = {} THEN Idle ELSE Job("single", {e.t}))
  /\ Taken
  /\ UNCHANGED <<plan, mission, asked, attempts, cancelling, recovering, history>>

TaskFailedExhausted ==
  /\ HasEvent
  /\ LET e == Head(inbox) IN
       /\ Accepted(e) /\ e.type = "failed" /\ ~MayRetry(e.t)
       /\ handled' = handled \cup {<<e.t, e.k>>}
       /\ task' = [task EXCEPT ![e.t] = "rejected"]
  /\ mission' = "failed" /\ Taken
  /\ UNCHANGED <<plan, asked, agent, attempts, retries, job, cancelling, recovering, history>>

-----------------------------------------------------------------------------
(* The routes of the gateway, one at a time and never during start-up.     *)

Serving == job["route"] = Idle /\ Yielded({"queue"}) /\ ~recovering
RouteOnly == UNCHANGED <<plan, retries, handled, inbox, cancelling, recovering, history>>

Roots == {t \in Tasks : task[t] \in {"planned", "ready"} /\ plan.deps[t] = {}}

DecidePlan(approved) ==
  /\ Serving /\ "plan" \in asked /\ mission \notin TerminalMission /\ asked' = asked \ {"plan"}
  /\ IF ~approved THEN mission' = "blocked" /\ UNCHANGED job
     ELSE mission' = "active" /\ SetJob("route", Job("approve", Allocated(Roots)))
  /\ UNCHANGED <<task, agent, attempts>> /\ RouteOnly

SelectCandidate(c) ==
  LET chosen == [t \in Tasks |-> IF plan.role[t] = "builder" /\ t # c THEN "superseded" ELSE task[t]] IN
  /\ Serving /\ mission \notin TerminalMission /\ plan.kind = "candidate"
  /\ plan.role[c] = "builder" /\ \A t \in Builders : task[t] = "done"
  /\ asked' = asked \ {"candidate_selection"} /\ mission' = "active"
  /\ task' = chosen /\ SetJob("route", Job("select", AllocatedIn(chosen, ReadyIn(chosen))))
  /\ UNCHANGED <<agent, attempts>> /\ RouteOnly

DecideApply(approved) ==
  /\ Serving /\ "apply" \in asked /\ mission \notin TerminalMission /\ asked' = asked \ {"apply"}
  /\ mission' = IF ~approved THEN "blocked"
                ELSE IF AllDone(task) THEN "applying" ELSE mission
  /\ UNCHANGED <<task, agent, attempts, job>> /\ RouteOnly

Retryable == {t \in Tasks : task[t] \in {"rejected", "blocked"}}

(* Cancelled gates downstream of a retried task are planned again.         *)
Resumable(chosen) ==
  LET Grow(S) == S \cup {t \in Tasks :
        /\ task[t] = "cancelled" /\ IsGate(t) /\ plan.deps[t] \cap S # {}
        /\ \A d \in plan.deps[t] : d \in S \/ task[d] \in TerminalTask}
      grown[n \in 0 .. Len(plan.role)] == IF n = 0 THEN chosen ELSE Grow(grown[n - 1])
  IN  grown[Len(plan.role)]

(* createDurableMissionRetry's conditions.                                 *)
RetryPossible ==
  /\ Serving /\ mission \in {"failed", "blocked"} /\ Running = {}
  /\ \A t \in Tasks : \A k \in Agents(t) : attempts[t][k] \notin {"claimed", "live"}

RetryMission(chosen) ==
  LET ready == {t \in chosen : \A d \in plan.deps[t] : task[d] \in TerminalTask}
      again == Resumable(chosen) \ ready IN
  /\ RetryPossible /\ chosen # {} /\ chosen \subseteq Retryable /\ Disturb("userRetry")
  /\ IF ready = {} THEN mission' = "failed" /\ UNCHANGED <<task, agent, retries, job>>
     ELSE /\ mission' = "active"
          /\ task' = [t \in Tasks |-> IF t \in again THEN "planned" ELSE task[t]]
          /\ agent' = [t \in Tasks |-> IF t \in again THEN 0 ELSE agent[t]]
          /\ retries' = [t \in Tasks |-> IF t \in ready THEN 0 ELSE retries[t]]
          /\ SetJob("route", Job("retry", ready))
  /\ UNCHANGED <<plan, asked, attempts, handled, inbox, cancelling, recovering, passed, lost>>

(* POST /cancel: the sessions known now are stopped, then the rows follow. *)
BeginCancel ==
  /\ Disturb("cancel") /\ ~cancelling /\ ~recovering /\ Yielded({"queue", "route"}) /\ mission # "cancelled" /\ cancelling' = TRUE
  /\ attempts' = [t \in Tasks |-> [k \in Agents(t) |->
                    IF attempts[t][k] = "live" THEN "cancelled" ELSE attempts[t][k]]]
  /\ UNCHANGED <<plan, mission, asked, task, agent, retries, handled, inbox, job, recovering, passed, lost>>

CommitCancel ==
  /\ cancelling /\ Yielded({"queue", "route"}) /\ cancelling' = FALSE /\ mission' = "cancelled"
  /\ task' = [t \in Tasks |-> IF task[t] \in Pending \cup {"running"} THEN "cancelled" ELSE task[t]]
  /\ UNCHANGED <<plan, asked, agent, attempts, retries, handled, inbox, job, recovering, history>>

-----------------------------------------------------------------------------
(* A crash and the start-up of the gateway.                                *)

(* The attempts of the orphaned agents, in an order they may be reported.  *)
Orphans == {x \in Tasks \X (1 .. MaxAgents) : x[2] \in Agents(x[1]) /\ attempts[x[1]][x[2]] \in {"claimed", "live"}}
OrphanOrders == {s \in [1 .. Cardinality(Orphans) -> Orphans] :
                   \A i, j \in DOMAIN s : i < j => s[i] # s[j] /\ s[i][1] <= s[j][1]}

Restart ==
  /\ Disturb("crash")
  /\ attempts' = [t \in Tasks |-> [k \in Agents(t) |->
       CASE attempts[t][k] \in {"claimed", "live", "overdue"} -> "expired"
         [] attempts[t][k] = "launching" -> "lost"
         [] OTHER -> attempts[t][k]]]
  /\ lost' = \/ lost \/ cancelling \/ \E t \in Tasks : \E k \in Agents(t) : attempts[t][k] \in {"launching", "overdue"}
             \/ \E i \in DOMAIN inbox : attempts[inbox[i].t][inbox[i].k] \in {"completed", "failed"}
  /\ \E s \in OrphanOrders : inbox' = [i \in DOMAIN s |-> Event("failed", s[i][1], s[i][2], FALSE)]
  /\ retries' = [t \in Tasks |-> 0] /\ handled' = {}
  /\ job' = [d \in {"queue", "route"} |-> Idle] /\ cancelling' = FALSE /\ recovering' = TRUE
  /\ UNCHANGED <<plan, mission, asked, task, agent, passed>>

(* recoverExpiredTaskAttempts: an expiry whose event died with the gateway *)
(* is reported again, with the budget its attempt number stands for.       *)
Unreported == {t \in Running : /\ Claims(t) # {} /\ LatestAttempt(t) = agent[t]
                               /\ attempts[t][agent[t]] = "expired"}

RecoverExpired(t) ==
  /\ recovering /\ inbox = <<>> /\ job["queue"] = Idle /\ mission \notin TerminalMission \cup {"blocked"}
  /\ t \in Unreported
  /\ retries' = [retries EXCEPT ![t] = IF agent[t] - 1 > @ THEN agent[t] - 1 ELSE @]
  /\ inbox' = <<Event("failed", t, agent[t], FALSE)>>
  /\ UNCHANGED <<rows, handled, job, cancelling, recovering, history>>

(* Mutated form: the plan is not reconciled after the start-up.            *)
FinishRecoverySilently ==
  /\ recovering /\ inbox = <<>> /\ job["queue"] = Idle /\ recovering' = FALSE
  /\ UNCHANGED <<rows, retries, handled, inbox, job, cancelling, history>>

FinishRecovery ==
  /\ recovering /\ inbox = <<>> /\ job["queue"] = Idle /\ recovering' = FALSE
  /\ mission \in TerminalMission \cup {"blocked"} \/ Unreported = {}
  /\ SetJob("queue", IF mission = "active" THEN Job("due", {}) ELSE Idle)
  /\ UNCHANGED <<rows, retries, handled, inbox, cancelling, history>>

-----------------------------------------------------------------------------
Init ==
  /\ plan \in Plans
  /\ task = [t \in Tasks |-> "planned"] /\ agent = [t \in Tasks |-> 0] /\ attempts = [t \in Tasks |-> <<>>]
  /\ \/ mission = "waiting" /\ asked = {"plan"} /\ job = [d \in {"queue", "route"} |-> Idle]
     \/ /\ mission = "active" /\ asked = {}
        /\ job = [d \in {"queue", "route"} |-> IF d = "route" THEN Job("start", Allocated(Roots)) ELSE Idle]
  /\ retries = [t \in Tasks |-> 0] /\ handled = {} /\ inbox = <<>>
  /\ cancelling = FALSE /\ recovering = FALSE /\ passed = {} /\ lost = FALSE
  /\ spent = [kind \in Kinds |-> 0]

AgentStep ==
  /\ Yielded({"queue", "route"})
  /\ \E t \in Tasks : \E k \in Agents(t) :
    \/ ClaimAttempt(t, k) \/ StartAgent(t, k) \/ LaunchFails(t, k)
    \/ Report(t, k) \/ ReportAgain(t, k) \/ ExpireAttempt(t, k)

DispatchStep(d) == Dispatch(d) \/ SkipTask(d) \/ PreflightPasses(d) \/ PreflightFails(d) \/ RetryRefused(d) \/ EndBatch(d)

QueueStep == \/ DispatchStep("queue") \/ Reconcile
             \/ DropEvent \/ GateFails \/ TaskCompleted \/ TaskFailedRetries \/ TaskFailedExhausted

UserStep == \/ \E approved \in BOOLEAN : DecidePlan(approved) \/ DecideApply(approved)
            \/ \E c \in Tasks : SelectCandidate(c)
            \/ \E chosen \in SUBSET Tasks : RetryMission(chosen)
            \/ BeginCancel

RecoveryStep == FinishRecovery \/ \E t \in Tasks : RecoverExpired(t)

Next == AgentStep \/ QueueStep \/ DispatchStep("route") \/ UserStep \/ CommitCancel \/ Restart \/ RecoveryStep

Spec == Init /\ [][Next]_vars

(* The process keeps running its own steps; a worker that runs ends, by    *)
(* itself or by the watchdog; nothing is assumed of users.                 *)
Fairness ==
  /\ WF_vars(QueueStep) /\ WF_vars(DispatchStep("route")) /\ WF_vars(CommitCancel) /\ WF_vars(RecoveryStep)
  /\ WF_vars(\E t \in Tasks : \E k \in Agents(t) :
                Yielded({"queue", "route"}) /\ (ClaimAttempt(t, k) \/ StartAgent(t, k) \/ LaunchFails(t, k) \/ Report(t, k)))
FairSpec == Spec /\ Fairness

-----------------------------------------------------------------------------
(* Properties.                                                             *)

(* A task gets an agent only when somebody has completed every task it     *)
(* depends on, or the candidate it depends on was not selected.            *)
DependenciesFirst ==
  [][\A t \in Tasks : Len(attempts'[t]) > Len(attempts[t]) =>
        \A d \in plan.deps[t] : task[d] = "superseded" \/ \E k \in Agents(d) : attempts[d][k] = "completed"]_vars

(* Whatever dispatches, batches, retries and reconciliations together keep *)
(* to the global limit and to the limit of each role.                      *)
CapacityRespected ==
  /\ Cardinality(Running) <= MaxParallel
  /\ \A r \in DOMAIN RoleLimit : Cardinality(WithRole(Running, r)) <= RoleLimit[r]

(* Changes are applied only when every task is done and the last verdict   *)
(* of every Reviewer and QA is a pass.                                     *)
GatesBeforeApply ==
  [][mission # "applying" /\ mission' = "applying" =>
        \A t \in Tasks : task'[t] = "done" /\ (IsGate(t) => t \in passed')]_vars

(* A task is done by the completion of the agent it is assigned to: late,  *)
(* repeated and foreign reports never finish a task.                       *)
OnlyItsAgentCompletes ==
  [][\A t \in Tasks : task[t] # "done" /\ task'[t] = "done" =>
        /\ task[t] = "running" /\ inbox # <<>> /\ Head(inbox).t = t /\ Head(inbox).k = agent[t]
        /\ attempts[t][agent[t]] = "completed"]_vars

(* A task gets no more agents than its retry budget, counted anew for each *)
(* retry of the user and, because the counter is in memory, each restart.  *)
RetryBudget ==
  \A t \in Tasks : Len(attempts[t]) <= (MaxTaskRetries + 1) * (1 + spent["userRetry"] + spent["crash"])

(* The variables have their types, and neither capacity nor the retry      *)
(* budget is exceeded.                                                     *)
SchedulerInv == TypeOK /\ CapacityRespected /\ RetryBudget

(* The first QA of a plan with several candidates starts after a Builder   *)
(* was selected among them.                                                *)
SelectedBeforeQA ==
  [][\A t \in Tasks :
        plan.kind = "candidate" /\ Cardinality(Builders) > 1 /\ plan.role[t] = "qa"
        /\ attempts[t] = <<>> /\ attempts'[t] # <<>> => \E c \in Builders : task[c] # "done"]_vars

(* Work proceeds in the order of the plan: dependencies, the selection and *)
(* the gates come before what waits for them.                              *)
PlanOrder == DependenciesFirst /\ SelectedBeforeQA /\ GatesBeforeApply

(* Once nothing is being dispatched any more, a cancelled mission stays    *)
(* cancelled and gets no agents, whatever its old ones report.             *)
CancelledIsQuiet ==
  [][mission = "cancelled" /\ job["queue"] = Idle /\ job["route"] = Idle =>
        mission' = "cancelled" /\ \A t \in Tasks : Len(attempts'[t]) = Len(attempts[t])]_vars

(* A report counts only for the task and the agent it names, and only      *)
(* while the mission goes on.                                              *)
ReportsCount == OnlyItsAgentCompletes /\ CancelledIsQuiet

(* A mission at work comes to an end or to a question for the user, as     *)
(* long as no launch has failed and no crash has lost track of an agent.   *)
MissionSettles == []<>(mission # "active" \/ lost)

(* What a test says of a host that cannot launch a task, "Rejected         *)
(* RuntimeHost task fails a nonterminal mission".  The code drops the      *)
(* report, because no attempt of the task is active by then.               *)
RejectedTaskFailsMission ==
  (\E t \in Tasks : task[t] = "rejected") ~> mission # "active"

(* What the change log says of Candidate mode: it "applies only the        *)
(* manually selected Builder result".  The code never applies it, because  *)
(* the other candidate is superseded and so not done.                      *)
SelectedCandidateIsApplied ==
  [][plan.kind = "candidate" /\ "apply" \in asked /\ "apply" \notin asked' /\ (\A t \in Tasks : task[t] \in TerminalTask)
     => mission' \in {"applying", "blocked"}]_vars
=============================================================================
