# Formal models of AtrisAgent

AtrisAgent is a local program that runs teams of coding agents. A desktop or web client talks to one
gateway process (Node.js, one SQLite file); the gateway asks a supervisor model what to do with each
user message, turns the answer into a plan of tasks, runs the tasks as external agent processes in
git worktrees, and applies the reviewed changes to the user's workspace.

This directory holds TLA+ modules of the parts of that program whose difficulty is in the order of
things, the TLC configurations that check them, and TLAPS proofs. All paths below are relative to the
repository root; `GI` is `services/api-gateway/src/index.ts`, `OV` is
`services/orchestration-core/src/orchestrator-v2.ts`.

Run a check with `tlc -config MCGateway.cfg MCGateway.tla` (the module and configuration of each run
are in the table of runs, and in `PROJECT.json`), a proof with `tlapm ApplyVerification_proofs.tla`.

## 1. The system and where it is hard

### How the parts interact

- Everything durable is in SQLite. `better-sqlite3` is synchronous and Node runs one handler at a time
  up to its next `await`, so a transaction, and more generally the code between two awaits that leave
  the process, is atomic with respect to other handlers. It is *not* atomic with respect to a crash:
  two transactions in a row can be separated by the death of the process.
- Components call each other directly (the gateway calls the orchestrator, the orchestrator the runtime
  host and the workspace manager) and report back through `LocalEventBus`, which calls its listeners
  synchronously inside `emit`. The gateway's listener on `*` is where runs are settled and approvals
  are recorded.
- In-memory state (`cancelledRunIds`, `lifecycleByMission`, the per-mission promise queues, the running
  drain of a mission) is lost in a crash; `recoverGatewayStartup` (GI 3534-3593) reconstructs what it
  can from the tables before the server listens.

### Inventory

| Component (source) | State | Operations | What makes it hard, and what makes it correct |
|---|---|---|---|
| Approval outbox (`api-gateway/src/approval-outbox.ts`; routes GI 3196-3376) | `approvals`, `approval_operations` | claim, finalize, fail, reconcile, recoverInterrupted | The side effect of a decision is outside any transaction. Two requests race; a crash leaves a decision nobody can vouch for. Correct: an effect is in force at most once, the tables agree, a verdict is final. |
| Conversation turn queue (GI 1120-1447, 1566-1585, 1800-2010, 2929-2956) | `conversation_turns`, `mission_commands`, `mission_runs`, `missions.status`, `active_run_id`; in memory the drain and the started turns | messages (queue, steer, stop_and_replan), start, retry, cancel, drain, terminal events, restart | Four tables written by eight handlers with minutes-long awaits between reads and writes. Correct: one run at a time, owned by the mission; settled rows stay settled; a cancelled mission is quiet; turns are taken up one after another. |
| Apply and verification (`api-gateway/src/apply-verification-operation.ts`; OV 606-806, 2049-2254) | `apply_verification_operations`, `mission_completions`, `missions.status`, the per-mission job queue | apply, retry verification, complete, approve, reject, reconcile, cancel, recovery | Three stores and a Git workspace cannot be written together. Correct: a change is applied at most once; a completion is earned; cancellation is final. |
| Deletion operation (`api-gateway/src/deletion-operation.ts`; GI 1800-1832, 3085-3109) | `deletion_operations` (cursor, lease) | begin, claim, renew, advance, fail, markRetryable, recoverInterrupted | Runners from requests and from start-up hold stale snapshots, leases expire under a working runner. Correct: phases are done in order and once earned never undone; every deletion completes. |
| Mission orchestrator and worker pool (`orchestrator.ts`, `orchestrator-v2.ts`, `worker-pool.ts`) | `missions`, `tasks`, plans, approvals; retries and handled sessions in memory | plan, dispatch, complete, fail, judge, select a candidate, retry, reconcile, recover | Late reports, retries, gates and several dispatchers of one plan. Correct: order of the plan, capacity, retry budget; a report counts only for the attempt it names; the mission settles. |
| Runtime host and adapters (`runtime-host*.ts`, `adapters/`) | `task_attempts` with leases; sessions, probes in memory; processes | launch, report, stop, watchdog, lease | The process, the user, the watchdog and the lease end a session at the same time. Correct: one verdict per attempt, with a reason; no stray process; nothing hangs. |
| Questions to the user (`orchestrator-interactions.ts`, the OpenCode adapter) | the question's row, its replies; the provider's own state | ask, answer, dismiss, resolve, poll | An answer's POST may be lost or late, and the provider answers by a stream. Correct: the row says what the provider did. |
| Agent registry (`coordination.ts`, the reservation in `workspace-manager.ts`, `control-plane-router.ts`) | `agent_instances`, a map in memory | dispatch, spawn, report, stop, restart | Agents spawn agents while others end; rows follow events. Correct: limits on capacity, depth and children; capacity is released. |
| Resource leases (`resource-lease-manager.ts`) | `resource_leases` | acquire, heartbeat, release, clean up | Several processes share a table, and a lease meets its exact expiry. Correct: one holder believes it holds. |
| Worktrees and new sibling projects (`worktree-manager.ts`, `merge-coordinator.ts`) | directories, markers, the user's Git repository, `worktrees` | applyNewSibling, merge | The file system and Git have no transactions, and the user works there too. Correct: nobody's directory is written into; what is reported as merged is there; no half merge is left. |
| Project memory (`project-memory.ts`, `project-memory-v2.ts`) | `projects`, links, evidence, nodes; queue, backfills and attachments in memory | ingest, backfill, attach, detach, archive, delete | A live queue and a backfill write the same events, and chains of promises wait for each other. Correct: knowledge has evidence; nothing said is lost unnoticed; no chain waits for itself. |
| Event streams (`event-cursor.ts`, `bounded-event-queue.ts`, the desktop's `event-listener.ts`, `mission-store.ts`) | stored events, a queue per client, the timeline | publish, overflow, replay, hydrate | A slow client loses the oldest events; snapshots overlap the stream. Correct: shown once, in order, and in the end. |
| Manual terminals (`src-tauri/src/manual_terminal.rs`) | a map of slots, processes | start, close, write, shut down | Commands on threads under three locks. Correct: one process per agent, none left behind, messages whole. |
| Gateway as a child process (`src-tauri/src/runtime.rs`, `lib.rs`, `app_updater.rs`) | the child, its locks | start, restart, shut down, watch the parent | Two threads shut down while one starts. Correct: never two gateways, none left behind. |
| Turns of the orchestrator's own agent (`runtime-host-v2.ts`) | the session of a conversation, the active turns, shutdowns to repeat; processes | run a turn, probe, discard, evict, stop | Stops, evictions and new turns meet a turn that spawns, probes or talks, and shutdowns fail. Correct: a busy session is set free; no process drops out of every book; turns end. |
| Routing, policy engine, checkpoints, authentication, bridges to providers, release proxy, landing page | various | various | See section 6. |

`PROJECT.json` lists every component with its status and reason, and under `hazards` each hard
behaviour at its line with the properties that cover it.

## 2. Modules

| Module | Models | Code it stands for |
|---|---|---|
| `ApprovalOutbox` | the outbox, the decide and reconcile routes, crash and restart | approval-outbox.ts, GI 413-437, 3196-3376 |
| `ApprovalContract` | what the outbox promises, without tables, requests or restarts | (abstract specification) |
| `DeletionOperation` | one durable deletion and its runners | deletion-operation.ts, GI 1817-1832, 3092-3109 |
| `ApplyVerification` | the last stage of one plan: apply, verify, complete | apply-verification-operation.ts, OV 351-363, 606-806, 2049-2254 |
| `TurnQueue` | the conversation queue of one mission with the orchestrator calls it awaits | GI 848-863, 1136-1447, 1566-1585, 1917-2003, 2929-2956; OV 342-349, 482-527, 700-719, 1267-1299 |
| `MissionScheduler` | one plan: dispatch, retries, gates, candidates, recovery | orchestrator.ts 594-1853, OV 377-584, 1444-2511, worker-pool.ts |
| `RuntimeSessions` | sessions, attempts, watchdog and leases | runtime-host.ts, the adapters, workspace-manager.ts |
| `SupervisorTurns` | the session of the orchestrator's own agent and the turns that share it | runtime-host-v2.ts 179-200, 231-256, 363-662 |
| `AgentRegistry` | who may spawn whom, and what capacity is counted | coordination.ts, workspace-manager.ts 860-884, control-plane-router.ts |
| `Questions` | one question of an agent and the answers to it | orchestrator-interactions.ts, runtime-host.ts, opencode-adapter.ts |
| `ResourceLeases` | the leases of one resource, with time | resource-lease-manager.ts |
| `NewSibling` | publishing a new project: directory and marker | worktree-manager.ts (applyNewSibling), merge-coordinator.ts |
| `WorkspaceMerge` | merging a Builder's branch into the user's repository | worktree-manager.ts (merge), merge-coordinator.ts |
| `ProjectMemory` | the memory of one repository: queue, backfill, attachment, deletion | project-memory.ts, project-memory-v2.ts, GI 3080-3083 |
| `EventStream` | events on their way to the screen | GI (stream routes), event-cursor.ts, bounded-event-queue.ts, event-listener.ts, mission-store.ts |
| `ManualTerminals` | terminals of agents run by hand | manual_terminal.rs |
| `Sidecar` | the gateway as a child of the desktop application | runtime.rs, lib.rs, app_updater.rs, entry.ts |
| `MCDurable`, `MCGateway`, `MCRuntime`, `MCDesktop`, `MCMissionScheduler` | instances for TLC | |
| `ApprovalOutbox_proofs`, `ApplyVerification_proofs`, `TurnQueue_proofs`, `ProjectMemory_proofs`, `MissionScheduler_proofs` | theorems on the module each is named after | |
| `Runtime_proofs` | theorems on `RuntimeSessions` and `SupervisorTurns`, as `MCRuntime` composes them | |
| `Desktop_proofs` | theorems on `EventStream`, `ManualTerminals` and `Sidecar` | |
| `Durable_proofs` | theorems on `DeletionOperation`, `ResourceLeases`, `WorkspaceMerge`, `Questions`, `AgentRegistry` and `NewSibling`, and on all components as `MCDurable` composes them | |

`PROJECT.json` maps each definition to the lines it translates. Definitions whose comment begins with
"Mutated form" are not part of the model: each is a plausible bug in the definition that follows it,
used to confirm that a property can fail.

A property that a run checks is a conjunction of named parts, each stated and commented on its own in
the module (`OutboxSafety`, for one, is three invariants). The parts are what a reader should argue about.

Calls of the database never leave the process (`better-sqlite3` is synchronous, and an `await` of its
result is a microtask), so code is cut into actions at the awaits that do leave it: a model, a process,
Git, the file system, the network, a timer. A crash may come between any two transactions.

### ApprovalOutbox

One variable per table; every method of the class is one transaction and so one atomic change of both.
A request is a process with the program counter `idle -> validated -> executing -> executed`: it reads
the row, claims it, runs the side effect, finalizes; any two requests interleave between these. `Crash`
empties the requests and keeps the tables, `Restart` is `recoverInterrupted`. `effects` and `disowned`
are history: which attempts ran their side effect, and which a human reconciled as not applied. A side
effect may land even when it throws. Candidate selection uses the same class the same way and is not a
separate action.

`ApprovalContract` states the promise: at most one execution in force, one verdict for ever. The
refinement maps the executions in force to `effects \ disowned` and the verdict to the settled status.

### TurnQueue

One mission. A command is executed at most once (every retry creates new rows), so a turn, its command
and its run share a number in order of creation. Actions are the code between two awaits:

- `QueueMessage`, `SteerMessage`/`SteerReturns`, `ReplanMessage`, `StartTurn`: POST `/messages` and
  `/start`. A stop_and_replan is four steps: insert and fence the active runs in memory
  (`ReplanMessage`), the first `stopMission` returns and the captured rows are cancelled
  (`FenceCaptured`), the starts in flight have returned (`AwaitStarts`), the second `stopMission`
  returns and the mission reopens (`ReopenMission`). Either stop may fail.
- `RetryTasks`, `RetryDispatched`, `RetryFails`, `RetryUndone`: the retry of a failed mission opens a run
  and dispatches its tasks one after another, each after an await; the catch settles what was claimed.
- `ClaimNext`, `DrainStops`: one iteration of `drainMissionCommands`; `DrainAfterThrow` and
  `DrainAfterReturn` say how the loop goes on.
- `StartRejected`, `DecisionFails`, `Respond`, `DispatchPlan`: the four ways the awaited
  `orchestrator.startMission` comes back, each with the transaction or catch that follows.
- `PlanSucceeds`, `SynthesisEnds`, `PlanFails`, `OrphanPlanEnds`: what a plan reports. `CloseRun` is the
  gateway's listener, run inside `emit`.
- `RequestCancel`, `CancelMission`, `CancelStopFails`: POST `/cancel`.
- `Restart`: a crash and `recoverGatewayStartup`, as one step, because nothing is served in between.

Statuses that no guard in these handlers tells apart are one value: `"running"` is running, reviewing
and revising; `"waiting"` is waiting_for_approval, applying and verifying; `"draft"` is draft and
blocked.

### ApplyVerification

The four records that must stay consistent are four variables (`mission`, `apply`/`verification`,
`completion`, `approval`), and the workspace itself is the history variable `applied`: how often the
changes of each Builder reached it. A job (`job`) is the chain of steps of `applyApprovedChanges` or
`retryPostApplyVerification` down to `completeDurably`; its stages are the points between two writes.
Requests are served only at the real awaits (`Serving`: idle, applying, verifying, synthesizing); a
crash may follow any step. An apply that fails or is interrupted may or may not have landed. The
start-up of the gateway is a second chain (`recovery`): stores, completions, plans, then serving.

### DeletionOperation

The row with its lease and the calls of `execute`, each with the snapshot of the row it started from.
Time is abstract: a lease is expired or not. `LeaseLapses` expires it under a working runner,
`LeaseRunsOut` after its owner is gone, `Renew` is the heartbeat. What a phase deletes is abstract;
`handled` records which handlers have run to completion.

### MissionScheduler

One plan, given by the constant records in `Plans` (kind, roles, dependencies). The k-th agent of task t
is `<<t, k>>`, as `task_attempts.attempt_number` numbers them. Two flows of control dispatch: `"queue"`,
the mission's promise queue that handles one terminal event at a time from `inbox`, and `"route"`, a
request or the start of the plan beside it. A flow lets others run only at the preflight of a Builder's
target (`Yielded`), and a report waits in `inbox` while the route is busy. `AllocatedIn` is
`allocateWorkerBatch`; `Correlated` and `Accepted` are the two filters a report passes; `Reconcile` is
`reconcileMissionPlanCore`; `GateFails`, `SelectCandidate`, `DecidePlan` and `DecideApply` are the
decisions of gates and users. An agent is its attempt's row here; how it ends is `RuntimeSessions`'
subject. `spent` counts disturbances (expiry, crash, a repeated report, a retry or a cancellation by the
user), which a scenario bounds. `lost` is history: a launch failed or a crash lost an agent or a stop.

### RuntimeSessions

Four things end a session and race for it: what its process reports, the user's stop, the probes of the
watchdog and the lease of its attempt; each waits in its middle for the process to die. Time is counted
in intervals of the watchdog. `Guarded` sessions run on adapters that report nothing after a cancellation
(Codex, Antigravity); the others (Claude Code, OpenCode) may report their exit as a failure. `pass` is
the watchdog's loop over a snapshot of the sessions with its awaited probe.

### SupervisorTurns

`pc` is where a turn is in `runSupervisorTurn`, which awaits its route, a probe, a shutdown, the spawn and the
result; `mapped`, `active` and `pending` are the host's three maps; `up` are the adapters with a live process. An
adapter bears the name of the turn that created it. `Finally` is the finally block; `StopMission` is stopMission
without a run, in up to three parts with shutdowns between them. `GatewayDies` is the rejection of a result that
nobody awaits yet, which ends a Node process. `forgotten` is history: adapters given up with a live process.

### AgentRegistry

A row per agent in `agent_instances` (`agent`), what the process really does (`worker`) and what this
process' map knows (`registered`). `SpawnAgent` counts and reserves in one step; `SpawnBreaks` is an
error after the reservation. `Reports`, `AgentEnds` and `AgentStopped` are the events the registry
follows. `stranded` is history: agents whose end no event told.

### Questions

The row (`question`), its `replies`, the POSTs on their way (`posts`, `late`), the provider, which alone
knows whether it has an answer, and the session that waits (`lane`). A POST may arrive and its response
be lost, or arrive after its timeout. The stream of the provider is read in order (`ReadResolution`).

### ResourceLeases

Time is relative: leases and beliefs are counted from now, a request carries its age because it compares
with the time at its start. A request is a row of statements (`CleanUp`, `Select`, `Insert` or `Update`)
that interleaves with those of other processes; the unique index is where they meet.

### NewSibling and WorkspaceMerge

`NewSibling` is the file system as the code sees it: a directory, the files in it by who wrote them, and
a marker that is absent, empty (being written), open or sealed. Every step may throw and the gateway may
die between two; the caller repeats the operation with the same key; a user may create the same directory.
`WorkspaceMerge` is a row of Git commands in the user's repository (`root`: clean, with edits, or in the middle
of a merge), the Builders' worktrees with versions, and merge commits found in the log by the operation's key. Commands may fail or
be killed by their timeout.

### ProjectMemory

The tables (`project`, `link`, `evidence`, `known`) and the chains of awaited statements that write them:
the drain of the live queue and one backfill per workspace (`work`, `todo`), the attachment of a workspace
(`attach`), and a reader that waits for one of them. These are microtasks and so interleave with each other
and with emitters, but requests of the user begin only when all of them are at rest (`Calm`). `Answer` is
what a chain has to wait for when it asks for its project, the question that could make it wait for itself.
`excused` is history: events the process has openly given up (a full queue, a reported error, an archived
project) or was told to forget. The deletion of a workspace is its two phases, `Detach`/`Detached` or
`RemoveProvenance`, and `DeleteRows`.

### EventStream, ManualTerminals and Sidecar

`EventStream` joins gateway and desktop: stored events, a connection that replays and then forwards through
a bounded queue, the wire, and the timeline with its open frame of text fragments, its snapshot in flight
and its reconnect timer. `ManualTerminals` has one slot at a time in the map and one thread per command;
a slot and a process are named by the call that creates them. `Sidecar` has a main and an updater thread
with the lifecycle and child locks, and gateways that watch their parent.

### Components that share a run

`MCDurable`, `MCGateway`, `MCRuntime` and `MCDesktop` hold components that share no state, one per behaviour: a variable
`component` is chosen at the start and the others rest. Their product would multiply states without adding an
interaction. In `MCDurable`, `ComponentEnds` lets a component that really ends (an apply, a publication, the
merges, the agents) stutter, so that deadlock is still checked for the others.

## 3. Runs

Every passing run explores its whole state space. Sizes are distinct states, times those of two workers.

| Run | Configuration | States | Time | What it shows |
|---|---|---|---|---|
| `durable` | MCDurable.cfg | 176 951 | 1.5 min | Eight components of rows and files, with their failures and crashes (below). |
| `gateway` | MCGateway.cfg | 282 681 | 1.5 min | `TurnQueue`: tables agree, the active run is the mission's, a cancelled mission is quiet and stays cancelled, settled rows stay, every claim ends, and while nothing goes wrong every turn completes. `ProjectMemory`: knowledge is backed, a project's status agrees with its links, nothing said is forgotten unnoticed, all chains end. |
| `turns_replan` | MCTurnQueueReplan.cfg | 2 774 360 | 1.5 min | Any number of stop_and_replan messages among queued messages, steers, direct starts and retries: one active run, fenced runs are quiet, tables agree. |
| `mission_scheduler` | MCMissionScheduler.cfg | 595 330 | 2 min | Capacity, retry budget, order of dependencies, selection and gates; which reports count; the mission settles. |
| `runtime_sessions` | MCRuntime.cfg | 731 218 | 3 min | `RuntimeSessions`: one verdict per attempt with a reason, losses are real, no stray process, nothing hangs. `SupervisorTurns`: a busy session is set free, processes stay in the books, turns end. |
| `desktop` | MCDesktop.cfg | 725 910 | 2.5 min | `EventStream`: shown once, in order, in the end. `ManualTerminals`: one process, none left, whole messages, calls return. `Sidecar`: one gateway, none lost, all ends. |
| `turns_replan_fence` | MCTurnQueueReplanFence.cfg | violation | | Finding 1. |
| `apply_published_not_failed` | MCApplyPublishedIsNotFailed.cfg | violation | | Finding 2. |
| `launch_failure` | MCLaunchFailure.cfg | violation | | Finding 3. |
| `candidate_apply` | MCCandidateApply.cfg | violation | | Finding 4. |
| `fragment_lost` | MCEventStreamFragment.cfg | violation | | Finding 5. |
| `cancelled_capacity` | MCCancelledCapacity.cfg | violation | | Finding 6. |

What `durable` checks, by component:

| Component | Properties | In words |
|---|---|---|
| `ApprovalOutbox` | `TablesAgree`, `OutboxSafety`, `DecisionIsFinal`, `ProcessingIsResolved`, `ImplementsContract` | Both tables tell of the same attempt; no undisowned effect runs twice, a pending approval has none, claims exclude each other; verdicts are final; nothing stays in processing; the outbox implements `ApprovalContract`. |
| `DeletionOperation` | `DeletionSafety`, `DeletionSteps`, `DeletionCompletes` | The cursor is earned by handlers that ran, one worker per lease; the cursor only advances and an owner keeps its claim; every deletion completes. |
| `ApplyVerification` | `ApplySafety`, `ApplySteps`, `AppliedCompletes` | Applied once, completions earned; operation and cancellation final; recorded changes end in a completed mission. |
| `NewSibling` | `SiblingSafety`, `OpenIsFinished` | One writer per directory, a partial project is marked, a recorded one whole; a half-published one is finished. |
| `ResourceLeases` | `LeaseSafety`, `AbandonedIsFreed` | One agent believes it holds the resource and the row says so; the lease of a dead agent is freed. |
| `AgentRegistry` | `RegistrySafety` | Limits on spawned agents, depth and children; agents at work are counted; others are not, except those a stop, a crash or a broken spawn has stranded. |
| `Questions` | `QuestionSafety`, `QuestionSteps`, `QuestionEnds` | One delivery at a time, awaited as long as the row says so; what the user reads is what the provider did; a resolved question stays so and a delivered answer is not sent again; nobody is left with a question none waits for. |
| `WorkspaceMerge` | `MergeSafety` | What is reported as merged is there; no unfinished merge is left unless a command was killed. |
| all | `DurableTypeOK` | Types. |

### Bounds, and why they are enough

- *Two requests, two approvals, two attempts.* Rows of different approvals do not touch each other; two
  approvals show that a request works on the row it read. Two requests make every race over one row; the
  second attempt shows the reopening after a reconciliation. The proofs remove the bound.
- *Deletion: three phases, two failures, two lapses, a crash.* A first, a middle and a last phase; the code
  treats the seven only as these.
- *Apply: two Builders, two failures, three deaths, two queued retries.* A first and a last Builder, so that an
  apply can be interrupted between them; recovery is a chain that may itself be interrupted; one retry that is
  served and one that arrives for a mission the first has completed.
- *Turns: three.* The races are between the run that is active, the turn that replaces it and a bystander
  behind them in the queue. With two turns a stop_and_replan has nobody to overtake; with three it can also
  be captured by a second one. One crash: a restart empties all memory, and what it leaves in the tables is a
  state a second crash treats no differently. All five ways a turn arrives are in
  `turns_replan`; `gateway` checks the liveness of all but the replans.
- *Memory: two workspaces, three events, a queue of one, one fault.* Two workspaces of one repository race for
  its project; two of the events are in one workspace, so that one is at hand while another is queued and a
  third overflows; one of them is routine (evidence only), and two share a node. A fault is a crash
  or a statement that throws. One workspace may be deleted, so that the other stays as a witness.
- *Scheduler: three plans, four scenarios.* Two candidates with a gate and a QA, two Researchers before a
  Builder and its gate, and two dependent Researchers; roles have limits 2 and 1, `MaxParallel` 2, so that both
  limits bind; one retry per task, at most five agents per task, and disturbances in pairs that meet:
  expiry with crash, a repeated report, retry with cancellation, crash with cancellation.
- *Sessions: two, one per kind of adapter; timeout and grace of three intervals, two probe failures, a crash.*
  The code's ten intervals and thirty seconds of grace are cut to the smallest numbers that keep their order.
- *Orchestrator's turns: three turns and two stops, four calls altogether.* A session passes from one turn to the
  next and is evicted under a third; one stop repeats another or runs beside it.
- *Agents: one planned, three spawned, limits 2.* A child, a grandchild and a sibling; each limit can bind.
- *Questions: three answers, one of them a dismissal.* One under way, one late, one new.
- *Leases: three holders, `Ttl` 3, requests at most 2 old.* One that holds, one that dies, one that asks.
- *Siblings: two operations, two files, three cuts.* *Merges: one branch, an operation of a plan and a direct
  one, two versions, one trouble.*
- *Desktop: three events of which one is text, one a plan and one too long for a live frame, a queue of one,
  one break, one switch of the mission; three commands at one agent; three gateways and two deaths.*

### Deadlock

Checked in `durable`, `gateway` and `turns_replan`. In the other passing runs the system really ends: a mission that has settled, sessions
that are over, turns the user has used up, an application that has exited.

### Fairness, and why the code justifies it

No run assumes fairness of users, failures or crashes, except where the program has handed a question to
the user and the property is what happens when it is answered (apply, deletion).

- Turn queue: a scheduled drain runs (`setImmediate`, or the loop itself); an awaited decision, retry, steer,
  synthesis or stop returns; the agents of a plan end because the watchdog forces them to.
- Memory: the chains of statements run on.
- Approvals: a request that began runs on, and a stopped gateway is started again.
- Apply: the commands of a job end (each has a deadline), start-up runs to its end, and the user
  approves and repeats the retry that is offered; without the last two nothing obliges the program to go on.
- Deletion: runners run, a lease nobody renews expires, and the user repeats the request while the
  answer says it may be retried. Failures, lapses and crashes are finite.
- Scheduler: the process' own steps, and agents end (shown by `NothingHangs` of `RuntimeSessions`).
- Sessions: timers fire and a launch goes on; processes, users and stops owe nothing. Orchestrator's turns: routes,
  probes, shutdowns and timeouts return; providers and stops owe nothing.
- Siblings: steps end and the caller repeats an operation that has not succeeded.
- Leases: time passes, statements return, and an agent that waits for the resource asks again.
- Questions: the window polls every two seconds, a POST ends within its timeout of 15 seconds, the stream of a
  live session is read.
- Event stream: what is queued is written and read, frames and timers fire, requests return. Terminals: threads
  of starts, closes and the exit run; a writer may be held up for ever by a process that does not read. Sidecar:
  a start, a shutdown and the gateway's own watch of its parent run.

### Assumptions about timing

These are what the models take for granted about the order of things outside the code:

- A terminal report is handled after the route that dispatched its agent has gone on to its next preflight; the
  agents of one task claim their attempts in order; the user selects a candidate when the board offers it.
- A pass of the watchdog takes less than two intervals. Two intervals may therefore
  lie between two passes, and `EndingsAreJust` holds for a configuration that is `Patient`: more than one probe may
  fail, and the session timeout is more than two intervals for each that may fail before the last. The code's
  defaults (two probes, ten intervals) are; both bounds are exact (TLC refutes the property with a timeout of two
  intervals, and with one probe, where a question asked during the probe does not save its session).
- A frame of text (16 ms) ends before a reconnect (2 s) or the reopening of a mission.
- A session that has been declared lost is dead, and a result is taken for the end of its process.
- The provider's stream is read in order.

## 4. What is proved

All theorems hold for every value of the constants that satisfies the assumptions in the modules: bounds are
natural numbers, `Builders`, `Files` and the like are positive, `NULL` and the other absent values differ from the
values they must be told from (the keys of answers, for one, from the words for "no answer"), and the planned
agents are finitely many. `tlapm` checks the proofs to the last leaf. An invariant that was strengthened for a
proof was checked by TLC first, on the bounds of the run.

Each proof has the same form: an inductive invariant, a step per action of `Next`, and `PTL`. Action properties
follow from the invariant in the state before the step.

**ApprovalOutbox_proofs.** `OutboxInvariant`, `TablesAlwaysAgree`, `OutboxIsSafe` (with the theorems of its parts),
`SettledIsFinal` and `OutboxImplementsContract`, for any number of approvals and requests. The invariants are not
inductive by themselves: that only one request executes an approval is lost at the next finalize unless a request
that is executing is known to have its approval in `processing` *and* to hold the decision its operation was
claimed with (`RequestsWellFormed`); that an effect runs at most once is lost at the next claim unless only the
newest attempt is in force and a row that can be claimed has none (`OnlyNewestInForce`). The refinement maps each
step to an action of `ApprovalContract` or to a stutter. It needs that no effect has a number beyond the attempts
its row has counted (`AttemptsAreCounted`): otherwise the execution that a step adds to the set could be there
already.

**ApplyVerification_proofs.** `ApplyInvariant`, `ApplyIsSafe` (applied at most once, completions earned) and
`ApplyStepsStand` (operation and cancellation final), for any number of Builders, failures, crashes and queued
retries. The inductive invariant `ApplyInv` ties the stage of the job to the records:

- `ApplyAgrees`: a job is applying exactly while the row is `in_progress`, and then exactly the Builders
  before `job.next` are in the workspace; a job that has not claimed the row yet starts at Builder 1.
  Without the count per Builder, an increment could not be shown to start from zero.
- `VerificationAgrees`: verification has begun only for a recorded apply.
- `CompletionAgrees`: a passed verdict, and everything after it, rests on a completed verification,
  even when the start-up takes up a completion it finds.
- `StepsAreCurrent`: at the stages between which nothing is awaited, the mission is still not fenced.
  This is what `CancelledIsFinal` needs: no write to a cancelled mission can be pending there.

**TurnQueue_proofs.** `ReplanIsSafe` and `VerdictsAlwaysStand` for all ways in which a turn arrives, `QueueIsSafe` for
those without stop_and_replan, and any number of turns and restarts. `TurnInv` adds to the checked invariants what
the handlers rely on without looking: that a turn nobody wrote has no rows, a run that was opened has its command
claimed (so that it is not opened twice), a steer never runs, only a stop_and_replan stops and reopens the
mission, and the runs that one has captured are opened and fenced. `QueueInv` is not an invariant with
stop_and_replan (`RunIsOwned` fails between its two stops: finding 1), hence the hypothesis of `QueueIsSafe`.

**ProjectMemory_proofs.** `MemoryInvariant` and `MemoryIsSafe`, for any number of workspaces, events, crashes and
failing statements, and a live queue of any length. None of the three invariants is inductive. `KnownIsBacked`
needs that an event at the curation has its row, and that without a project no chain writes (`ChainsAreTrue`,
`WithoutProject`); `NothingIsForgotten` that a backfill has read, or has at hand, whatever nobody else accounts for
(`FillCovers`), which is why the order in which a backfill takes the events does not matter; `StatusIsTrue`, which
speaks of rest only, what the links may be while chains run (`LinksAreTrue`). Requests of the user share the lemma
`RequestKeeps`: they begin at rest, so only the tables are at stake. Events are numbered from 1; 0 stands for none.

**MissionScheduler_proofs.** For any set of plans (`PlansAssumption`: every role has a limit, dependencies are tasks of
the plan; nothing says that they are acyclic or point backwards), any limits and any number of disturbances:

- `TypesHold`, with what the code takes for granted of its rows: `assigned_agent_id` is one of the task's attempts, and
  so is the agent of every report in the inbox.
- `ReportsAlwaysCount`. A report of completion is in the inbox only for an attempt that has ended by itself
  (`EventsTrue`). A second report of a task that is done already finds no active attempt (`Correlated`).
- `PlanIsFollowed`. `DependenciesFirst` is not inductive: a superseded Builder counts as done work, and a batch is
  decided long before its last task is dispatched. `WorkDone` says that a done or superseded task has a completed
  attempt, and `DependenciesMet` that this holds of everything before a task that is planned in either flow or was
  dispatched once. The gates need `GatesPassed`. `SelectedBeforeQA` needs to know that a batch with a first QA in it
  was made when not every Builder was done, or with the selection itself (`SelectionMade`), and so what the route may
  be doing at the time (`RouteShape`, `PlanUntouched`, `UntriedGate`).
- `SchedulerIsSafe`: the types always; the capacity and the budget of retries until the user retries a mission.
  Capacity is checked when a batch is planned and not again when its Builders come back from their preflights, so
  the invariant counts what is planned with what is running (`HeldFits`); it is kept because the flows' plans are
  disjoint and not at work (`PendApart`), and because no two flows plan ahead at once (`FlowKinds`). `BudgetKept`
  counts an agent that a task may still get without a failure as one it has.
- `allocateWorkerBatch` is the choice of a set that satisfies the greedy condition. `GreedyExists` and `GreedyFits` say
  that there is one and that it stays within the limits beside what is busy; both argue by the least
  counterexample.

Capacity is not an invariant once the user retries a mission, and the restriction is not one of the proof: TLC finds
three Builders at work where two are allowed, in 30 steps, with `MaxParallel` 3, a limit of two Builders, three Builders
and a Researcher without dependencies, one expiry and one retry. The route of a retry looks at the capacity again
before each task. The queue's retry of an agent that has expired meanwhile has looked already, and waits in its
preflight, where nothing counts it. The run `mission_scheduler` has no plan with more Builders than slots.

**Runtime_proofs.** `RuntimeIsSafe` and `EndingsAreAlwaysJust`, for any number of sessions, passes, crashes, turns and
stops, and any `Patient` configuration. `LeaseIsAhead` is why the lease takes only the dead: what is left of the
lease of a live session is at least the timeout less two intervals for each probe that failed, and for the pass to
come; `FailuresAreCounted` says that fewer than the allowed number have failed, and that a question asked during a
probe has cleared them. `LaunchesAreTrue` (an attempt is open only while its launch goes on or its session is
known), `PassIsTrue` and `CancelsAreTold` carry `NoStrayProcess`. For the orchestrator's turns the checked invariant
is not inductive, because a turn that probes a session, and a stop that discards one, hold it only in passing:
others may shut it down before. `ProcessesAreOwned` leaves these two out and is inductive.

**Desktop_proofs.** `SidecarIsSafe` and `TerminalsAreSafe`: for any number of gateways and deaths, and any number of
commands that overlap. Two threads that shut down and one that starts meet over the child in `SidecarInv`: nobody
starts a gateway while one is stored or its port is awaited (`StartIsAlone`), and a gateway that runs is stored
unless its start has yet to store it (`PublishedIsStored`); `OneAlive` follows. `TerminalsInv` says who owns what:
a slot that is closing has one command that closes it and stays in the map until that command has stopped its
process (`ClosingIsOwned`, `UsedIsMapped`), whoever starts holds the lock of starts (`LocksAreTrue`), and whoever
types holds the lock of the slot's writer (`TypistsAreTrue`).

`StreamIsSafe`: for any number of events, any queue, breaks and changes of mission, the screen shows what it shows once
and in order, and fetches what it has missed. `StreamInv` has three parts. `Wired`, from the gateway to the desktop: the
events between the last the desktop has and the last stored are on the wire, in the queue or still to be replayed, each
once and in order, unless a notice of a gap is on the wire or the queue has dropped one and will write it.
`TimelineOK`, on the screen: items ascend, texts are runs of consecutive events, nothing live lies at or beyond the next
event to be added (`Frontier`, the first fragment of an open frame or the event after the highest), and what a snapshot
has brought from there on has no hole. Merging a snapshot
that overlaps a text still streaming needs this: of a text it knows in part, all of its fragments are in the live item
that stands for it. `Fetched`: while no gap is known and no snapshot still has to be read, what came since the last one
is shown. `Handled` may abort the connection in the middle of a chunk; the frames behind the notice are still handled,
and the invariant on the desktop alone (`DeskOK`) holds after each of them. The frames of a chunk and the items a merge
keeps are recursive functions; that they exist, and what they compute, follows for every length from the least counterexample.

**Durable_proofs.**

- `DeletionIsSafe` and `DeletionStepsStand`, for any number of phases, runners, failures, lapses and crashes.
  `OwnerAgrees` is the strengthening: a row is `running` exactly while it has an owner, and an owner at work has the
  phase of the row in its snapshot. Without it the cursor that `advance` writes from a snapshot could lie before the
  row's, and the claim of an owner whose lease holds could be taken.
- `LeasesAreSafe`: `BeliefIsBacked` is inductive with the types, and exclusion is a consequence: two who believe
  would both be the one holder of the row.
- `MergesAreSafe`: what is merged is at most what was committed and that at most what was written
  (`HeadFollowsWorktree`); an operation past its commit has committed what its caller saw (`CommitHoldsAsked`).
- `QuestionsAreSafe`, `QuestionStepsStand`: a POST on its way belongs to the claim that the row names, and a
  confirmation to an answer the provider has (`PostIsTheClaim`); the session waits only while the provider or its
  unread stream still holds the end (`ProviderIsAhead`).
- `RegistryIsSafe`: that a spawn fits needs that whatever is at work is counted, and that what was launched is
  registered. `DelegationIsBounded` speaks of the depth of a chain of parents, a recursive function. It needs
  that an agent's parent was made before it (`ParentsAreOlder`), which in turn needs that agents are numbered as they
  are made (`NumberedInOrder`): then following parents ends, the depths exist and are natural numbers
  (`DepthsExist`), and giving a new agent a parent changes no other depth (`DepthsAgree`). Both lemmas argue by the
  least counterexample (`LeastNatural`, from the well-foundedness of `<`), in the place of an induction.
- `SiblingIsSafe`: the marker tells the truth about the files (`MarkerIsTrue`), an operation past the creation of the
  directory finds the marker and the files it has left (`StepsAreTrue`), and only one fills a directory that
  has no marker yet (`OneFiller`). This last is why `mkdir` without `recursive` is enough: it is the claim.
- `DurableIsSafe`: every invariant of the run `durable` holds of `MCDurable`'s specification, because each step is a
  step of one component and leaves the variables of the others alone (`OneComponentMoves`).

**Only model-checked.** Capacity and budget after a retry of the user (see above). All liveness properties stay with TLC:
liveness under fairness and `ENABLED` are out of this prover's reach, as are `RECURSIVE` operators, of which the
models have none.

## 5. Findings

Each is what a violation run shows; the wording in `PROJECT.json` quotes the line that says otherwise.

1. **A stop_and_replan can take its own turn down** (`ReplacementSurvives`). The replacement's command is
   pending before the route awaits `stopMission` (GI 1975). Stopping makes the old run fail, its
   `mission_failed` drains the queue, the drain claims the replacement, and then the fence cancels the
   mission (GI 1984-1995): the replacement's start is refused as stale and its turn ends `failed`.
2. **A published completion is followed by a failure** (`PublishedIsNotFailed`). After a crash during the
   synthesis, start-up publishes `mission_completed` and then reconciles the plan of the still `verifying`
   mission, which finds every task done and fails it (OV 2322-2327).
3. **A launch that throws leaves its mission running for ever** (`RejectedTaskFailsMission`). The report names no
   run, and `correlateRunlessTerminalEvent` drops it because the task is already `rejected` (OV 377-443).
4. **An approved candidate is never applied** (`SelectedCandidateIsApplied`). Selecting one supersedes the others,
   and `applyApprovedChanges` wants every task to be `done` (OV 2086).
5. **A snapshot drops the end of a streamed text** (`ReceivedIsShown`). A frame of fragments that closes after a
   snapshot with its first fragments carries an identifier the timeline already has (mission-store.ts 1520).
6. **Stopped agents keep their capacity** (`EndedReleasesCapacity`). `syncAgentEvent` does not follow
   `agent_cancelled`, and some adapters report nothing else (coordination.ts 286).

### Observations

Behaviour met while modelling that no document contradicts and no property claims. It is in the models where the
place is one they model.

*Turns and plans.* The crash between the claim of a command and the opening of its run leaves a turn `queued`
that nothing will run (GI 1190); a start that throws ends the drain (GI 1219); the plan of an interrupted
mission ends with an event that names no run, and the queue is not drained (GI 1568); a steer's result
overwrites a cancelled command (GI 1942), a steer without an active run leaves its command pending (GI 1933). A
retry that throws before a task was dispatched emits `mission_failed` for a run already settled, so a message
queued meanwhile waits for the next one (GI 1443, 1573). The failure of a late launch rejects a task that a newer
agent has finished. A failing gate cancels branches of the plan that do not depend on it, and a failed mission leaves
rows `running` that make the user's retry refused. The retry budget is in memory and starts again after a
restart. `emitDurableCompletion` takes the run from a map that a newer turn may have replaced (OV 612).

*Apply.* The loop over the Builders does not look for a cancellation (apply-verification-operation.ts 122); an
approved apply that fails leaves the mission `applying` (OV 2098); an approval reconciled as not applied may be
approved again for a mission a retry has completed, which sends it back to `verifying` (OV 2252); a retry after a
crash in the first verification, which the row calls safe, is refused for ever (OV 2184, GI 3580).

*Sessions.* A crash between the end of an attempt and its event, or between a stop and its rows, leaves a `running` row
until the start-up expires it. Claude Code may exit with 0 and no result, which nobody reports until the lease
runs out. A failed `cancel` on the watchdog's path is ignored. Claude Code and OpenCode report a stopped
session as a failed task. Completed children count against the child limit, plan dispatch does not count spawned
agents, and agents of a crashed gateway keep their capacity.

*Questions.* When a mission ends, its pending question is marked `cancelled` while the session goes on waiting, exempt
from the watchdog, and can no longer be answered. The status `delivered` is unreachable with OpenCode. An
answer reported as failed may be the one the provider took, and its reply row stays `failed`.

*Leases.* A lease at `expiresAt = now` is neither active nor cleaned up, so one request is refused.

*Files and Git.* A crash between `mkdir` and the marker, or inside the marker's write, leaves a directory that the
operation refuses for ever. A commit that fails in a Builder's worktree is swallowed (worktree-manager.ts
687-690), and the merge that follows says "Already up to date" and succeeds. The merge route's key is constant per
task, so merging a revised worktree is answered "already applied". A merge killed by its timeout or by the
gateway's death leaves the repository in the middle of it. Copying into a workspace without Git overwrites
unchecked. Checkpoints are made before each merge, and no route restores one.

*Memory.* An event whose ingestion dies after its evidence row is skipped by every later backfill, though the log line
says it can be recovered: `ingestEvent` looks only for the row, and `curatedAt` is read by nobody. Events that a
full queue or an archived project turned away come back only after a restart, or never. A crash between a
project and its link leaves an `active` project without links. After a deletion has removed the memory and
before it has removed the rows, a late view attaches the workspace again.

*Desktop.* A second start of a manual agent may be refused as closing. A paste into Codex that is not confirmed stays
in its input line. After a crash of the application two gateways may overlap until the first one's watchdog (2 s)
and shutdown (5 s) have ended it; on Windows a job object ends it at once.

*Orchestrator's turns* (recorded by `GatewayDies` and `forgotten`). A stop, a timeout or a failing event stream
while `spawnAgent` is awaited rejects `resultPromise` before anybody handles it, which ends a Node process by
default. A stop during route selection sees no active turn. `stopMission` deletes the whole set of active turns,
and with it one registered meanwhile, which later stops do not reach; parallel stops overwrite each other's
`pendingSupervisorShutdowns`. The eviction timer of a session that is no longer mapped discards whichever is, even
a busy one; an eviction that fires while a new turn probes removes the session that turn goes on to use. Errors of
`shutdown` are ignored at the end of a turn and of an eviction, and the process is then nobody's.

## 6. What is not modelled

- Turn queue: queued mission starts and idempotency keys (GI 1449-1564), the retry of a blocked mission, the
  deletion fence, several missions at once.
- Apply: the branch without a durable operation (OV 2104-2125), retrying the publication of a new sibling
  project, run fences, several plans of one mission. Scheduler: the composition of plans and the texts given to
  agents; `requestRevision` (orchestrator.ts 1636), which only tests call.
- Deletion: what the phases delete. Questions: validation of answers, several questions of one session, the fence
  between attempts. Leases: the branch without a database, where nothing interleaves.
- Orchestrator's turns: routing, prompts, the resources offered to a plan, the validation of the decision (its
  outcomes are in `TurnQueue`), `stopAll`.
- Memory: ranking, full-text search, summarising, manual notes, several missions of one workspace.
- Routing and model catalogues: a scoring function without state. (A preferred account's fallback model can
  outscore the preferred model: 300 + 120 > 400 - 30.)
- Policy engine: decision tables that unit tests cover row by row. Checkpoints: copying of files.
- Authentication, control plane: sessions live at an external service; grants are in `AgentRegistry`.
- Release proxy, landing page: other programs. Bridges to providers: relays without state worth checking.
- Most of the lines outside the map are user interface, prompts and other texts, parsing of provider output,
  schemas and migrations, HTTP routes that read or write one row, and the landing page. They hold no protocol.

## 7. Plan

Proofs that are left: the budget of retries after a retry of the user, which needs to count a task twice that both
flows are about to dispatch (TLC shows that this happens: an agent that expires before its launch comes back).

Modelling that is left: queued mission starts with idempotency keys, a composition
of `TurnQueue` with `ApplyVerification` over one `missions` row.
