-------------------------- MODULE DeletionOperation --------------------------
(***************************************************************************)
(* One durable deletion (services/api-gateway/src/deletion-operation.ts):  *)
(* the row of deletion_operations for a conversation or a workspace, and   *)
(* the runners that execute it.                                            *)
(*                                                                         *)
(* A runner is one call of `execute`: it claims the phase it read, runs    *)
(* the handler of the phase outside any transaction, and advances the      *)
(* cursor.  DELETE requests and the start-up of the gateway both create    *)
(* runners, so several may hold a snapshot of the same row.  A claim is a  *)
(* lease the runner renews while its handler runs; a process that stalls   *)
(* (a suspended machine, a blocked event loop) misses the renewals.        *)
(***************************************************************************)
EXTENDS Naturals

CONSTANTS
  Deletions,    \* concurrent DELETE requests that execute the operation
  Scheduled,    \* the runner that scheduleDeletion keeps one of at a time
  LastPhase,    \* the number of phases; 7 in DELETION_PHASES
  MaxFailures,  \* bound: failing handlers and failing runners, together
  MaxLapses,    \* bound: how often a lease expires
  MaxCrashes,   \* bound: how often the gateway dies
  NoOwner       \* the SQL NULL

Runners == Deletions \cup {Scheduled}

ASSUME PhaseAssumption  == LastPhase \in Nat \ {0}
ASSUME RunnerAssumption == NoOwner \notin Runners /\ Scheduled \notin Deletions
ASSUME BoundAssumption  == {MaxFailures, MaxLapses, MaxCrashes} \subseteq Nat

VARIABLES
  status,    \* deletion_operations.status, "absent" before the row exists
  phase,     \* its cursor
  owner,     \* its owner_token; a token lives no longer than its runner
  expired,   \* whether lease_expires_at has passed
  runner,    \* each call of execute: where it is and the phase it works on
  handled,   \* history: the phases whose handler has completed
  lapsed,    \* history: the runners whose lease expired under them
  failures, lapses, crashes  \* counters for the bounds

deletionRow  == <<status, phase, owner, expired>>
deletionVars == <<deletionRow, runner, handled, lapsed, failures, lapses, crashes>>

Phases == 1 .. LastPhase

Runner == [pc: {"idle", "read", "handling"}, phase: Phases]
IdleRunner   == [pc |-> "idle", phase |-> 1]

DeletionTypeOK ==
  /\ status \in {"absent", "pending", "running", "retryable", "completed"}
  /\ phase \in Phases
  /\ owner \in Runners \cup {NoOwner}
  /\ expired \in BOOLEAN
  /\ runner \in [Runners -> Runner]
  /\ handled \subseteq Phases /\ lapsed \subseteq Runners
  /\ failures \in Nat /\ lapses \in Nat /\ crashes \in Nat

DeletionInit ==
  /\ status = "absent" /\ phase = 1 /\ owner = NoOwner /\ expired = FALSE
  /\ runner = [r \in Runners |-> IdleRunner]
  /\ handled = {} /\ lapsed = {}
  /\ failures = 0 /\ lapses = 0 /\ crashes = 0

-----------------------------------------------------------------------------
(* The statements of the store, as what they do to the row.                *)

(* Mutated forms: a claim that ignores that the phase is being worked on,  *)
(* and one that never takes over an expired lease.                         *)
ClaimableWhileRunning(p) == phase = p /\ status \in {"pending", "retryable", "running"}
ClaimableNeverStolen(p)  == phase = p /\ status \in {"pending", "retryable"}

Claimable(p) ==
  /\ phase = p
  /\ status \in {"pending", "retryable"} \/ (status = "running" /\ expired)

(* advance: the owner moves the cursor past the phase it worked on and     *)
(* keeps the next one; the last phase completes the operation.             *)
AdvanceRow(r, p) ==
  IF owner = r /\ phase = p
  THEN IF p < LastPhase
       THEN /\ phase' = p + 1 /\ status' = "running" /\ expired' = FALSE
            /\ UNCHANGED owner
       ELSE /\ status' = "completed" /\ owner' = NoOwner /\ expired' = FALSE
            /\ UNCHANGED phase
  ELSE UNCHANGED deletionRow

(* Mutated form: any runner that fails gives the operation back. *)
FailRowUnowned(r) ==
  /\ status' = "retryable" /\ owner' = NoOwner /\ expired' = FALSE
  /\ UNCHANGED phase

(* fail: the owner gives the operation back. *)
FailRow(r) ==
  IF owner = r
  THEN /\ status' = "retryable" /\ owner' = NoOwner /\ expired' = FALSE
       /\ UNCHANGED phase
  ELSE UNCHANGED deletionRow

-----------------------------------------------------------------------------
(* begin: the row is inserted once; a second DELETE finds it. *)
Begin ==
  /\ status = "absent"
  /\ status' = "pending"
  /\ UNCHANGED <<phase, owner, expired, runner, handled, lapsed, failures, lapses, crashes>>

(* A DELETE request reads the row and starts to execute it, or schedules   *)
(* the execution: at most one scheduled runner exists at a time.  The row  *)
(* is read before the runner runs.                                         *)
ReadRow(r) ==
  /\ runner[r].pc = "idle" /\ status \notin {"absent", "completed"}
  /\ runner' = [runner EXCEPT ![r] = [pc |-> "read", phase |-> phase]]
  /\ UNCHANGED <<deletionRow, handled, lapsed, failures, lapses, crashes>>

(* execute: the claim of the phase that was read, or the return of the row *)
(* as it is when somebody else works on it or has moved it on.             *)
ClaimPhase(r) ==
  /\ runner[r].pc = "read" /\ Claimable(runner[r].phase)
  /\ status' = "running" /\ owner' = r /\ expired' = FALSE
  /\ runner' = [runner EXCEPT ![r].pc = "handling"]
  /\ lapsed' = lapsed \ {r}
  /\ UNCHANGED <<phase, handled, failures, lapses, crashes>>

ReturnUnclaimed(r) ==
  /\ runner[r].pc = "read" /\ ~Claimable(runner[r].phase)
  /\ runner' = [runner EXCEPT ![r] = IdleRunner]
  /\ UNCHANGED <<deletionRow, handled, lapsed, failures, lapses, crashes>>

(* The handler of the phase completed.  A runner that still owned it goes  *)
(* on with the next phase; one that was replaced returns.                  *)
HandlerCompletes(r) ==
  /\ runner[r].pc = "handling"
  /\ handled' = handled \cup {runner[r].phase}
  /\ AdvanceRow(r, runner[r].phase)
  /\ runner' = [runner EXCEPT ![r] =
       IF owner = r /\ runner[r].phase < LastPhase
       THEN [pc |-> "handling", phase |-> runner[r].phase + 1] ELSE IdleRunner]
  /\ lapsed' = IF owner = r THEN lapsed \ {r} ELSE lapsed
  /\ UNCHANGED <<failures, lapses, crashes>>

(* The handler threw. *)
HandlerFails(r) ==
  /\ failures < MaxFailures /\ runner[r].pc = "handling"
  /\ FailRow(r)
  /\ runner' = [runner EXCEPT ![r] = IdleRunner]
  /\ failures' = failures + 1
  /\ UNCHANGED <<handled, lapsed, lapses, crashes>>

(* The runner itself threw (a failing database): its request answers 500,  *)
(* the scheduled one calls markRetryable, which without an owner token     *)
(* leaves a running row alone.                                             *)
RunnerThrows(r) ==
  /\ failures < MaxFailures /\ runner[r].pc # "idle"
  /\ status' = IF r = Scheduled /\ status = "pending" THEN "retryable" ELSE status
  /\ runner' = [runner EXCEPT ![r] = IdleRunner]
  /\ failures' = failures + 1
  /\ UNCHANGED <<phase, owner, expired, handled, lapsed, lapses, crashes>>

Working == {r \in Runners : runner[r].pc = "handling"}

(* The lease passes its deadline because the process stalls under its      *)
(* owner, which may renew it late, or because its owner threw.             *)
LeaseLapses ==
  /\ lapses < MaxLapses
  /\ status = "running" /\ ~expired /\ owner \in Working
  /\ expired' = TRUE
  /\ lapsed' = lapsed \cup {owner}
  /\ lapses' = lapses + 1
  /\ UNCHANGED <<status, phase, owner, runner, handled, failures, crashes>>

LeaseRunsOut ==
  /\ status = "running" /\ ~expired /\ owner \notin Working
  /\ expired' = TRUE
  /\ UNCHANGED <<status, phase, owner, runner, handled, lapsed, failures, lapses, crashes>>

Renew(r) ==
  /\ runner[r].pc = "handling" /\ status = "running" /\ owner = r /\ expired
  /\ expired' = FALSE
  /\ lapsed' = lapsed \ {r}
  /\ UNCHANGED <<status, phase, owner, runner, handled, failures, lapses, crashes>>

(* The gateway dies and restarts: recoverInterrupted, and every incomplete *)
(* operation is scheduled.                                                 *)
RestartDeletion ==
  /\ crashes < MaxCrashes /\ status # "absent"
  /\ crashes' = crashes + 1
  /\ IF status = "running"
     THEN status' = "retryable" /\ owner' = NoOwner /\ expired' = FALSE
     ELSE UNCHANGED <<status, owner, expired>>
  /\ runner' = [r \in Runners |->
       IF r = Scheduled /\ status # "completed" THEN [pc |-> "read", phase |-> phase] ELSE IdleRunner]
  /\ lapsed' = {}
  /\ UNCHANGED <<phase, handled, failures, lapses>>

(* The conversation is gone: every later request is answered from the row. *)
Deleted ==
  /\ status = "completed" /\ \A r \in Runners : runner[r].pc = "idle"
  /\ UNCHANGED deletionVars

RunnerNext(r) == ClaimPhase(r) \/ ReturnUnclaimed(r) \/ HandlerCompletes(r) \/ HandlerFails(r)

DeletionNext ==
  \/ Begin \/ LeaseLapses \/ LeaseRunsOut \/ RestartDeletion \/ Deleted
  \/ \E r \in Runners : ReadRow(r) \/ RunnerNext(r) \/ RunnerThrows(r) \/ Renew(r)

DeletionSpec == DeletionInit /\ [][DeletionNext]_deletionVars

(* Runners run, a lease nobody renews expires, and the user repeats the    *)
(* request for as long as the answer says the deletion may be retried.     *)
DeletionFairness ==
  /\ WF_deletionVars(LeaseRunsOut)
  /\ \A r \in Runners : WF_deletionVars(ReadRow(r)) /\ WF_deletionVars(RunnerNext(r))

DeletionFairSpec == DeletionSpec /\ DeletionFairness

-----------------------------------------------------------------------------
(* The cursor is earned: each phase before it has had its handler run to   *)
(* completion, whoever ran it, so that the rows of a conversation are not  *)
(* deleted before its agents are stopped and its worktrees removed.        *)
CursorIsEarned ==
  /\ 1 .. phase - 1 \subseteq handled
  /\ status = "completed" => handled = Phases

(* A handler runs for the runner that owns the phase; only a runner whose  *)
(* lease expired under it can be at work beside another one (claim).       *)
OneWorkerPerLease == \A r \in Runners :
  runner[r].pc = "handling" /\ r \notin lapsed => owner = r /\ runner[r].phase = phase

(* Who owns the row: the row runs exactly while somebody owns it, an owner *)
(* at work is at the cursor, and its lease expires only under it.          *)
OwnerAgrees ==
  /\ status = "running" <=> owner # NoOwner
  /\ owner \in Working => runner[owner].phase = phase /\ (expired => owner \in lapsed)

(* The inductive invariant: the safety of a deletion, and what makes the   *)
(* next claim and the next renewal safe.                                   *)
DeletionInv == DeletionTypeOK /\ CursorIsEarned /\ OneWorkerPerLease /\ OwnerAgrees

(* The cursor never goes back and a completed deletion stays completed,    *)
(* however late the handler of a replaced runner completes (advance).      *)
CursorOnlyAdvances ==
  [][phase' >= phase /\ (status = "completed" => status' = "completed")]_deletionVars

(* An owner is replaced only through its own result, the restart of the    *)
(* process or an expired lease: the failure of a runner that lost the      *)
(* phase does not take it from its new owner (fail, markRetryable).        *)
OwnerKeepsItsClaim ==
  [][owner # NoOwner /\ owner' # owner =>
       expired \/ owner \notin Working']_deletionVars

(* Under repeated requests and finitely many failures the deletion that    *)
(* was begun is completed: no failure, crash or lost runner leaves a row   *)
(* that nobody can claim ("retry is safe").                                *)
DeletionCompletes == []<>(status \in {"absent", "completed"})

(* What the row of a deletion says has been done, and who is at work on    *)
(* it, is true.                                                            *)
DeletionSafety == CursorIsEarned /\ OneWorkerPerLease

(* No step of a runner that was replaced undoes what another one did.      *)
DeletionSteps == CursorOnlyAdvances /\ OwnerKeepsItsClaim
=============================================================================
