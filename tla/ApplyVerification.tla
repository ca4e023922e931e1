--------------------------- MODULE ApplyVerification ---------------------------
(***************************************************************************)
(* The last stage of one plan: its finished Builder changes are applied to *)
(* the workspace, verified there, and the mission is completed.            *)
(*                                                                         *)
(* The row of apply_verification_operations (services/api-gateway/src/     *)
(* apply-verification-operation.ts), the row of mission_completions, the   *)
(* status of the mission and the job that works on them                    *)
(* (OrchestratorV2.applyApprovedChanges and completeWithSynthesis) are     *)
(* separate writes: the gateway may die between any two of them.  What it  *)
(* finds when it starts again is handled by recoverGatewayStartup.         *)
(*                                                                         *)
(* A job is a chain of steps with real awaits at pc "applying" (git),      *)
(* "verifying" (the test commands) and "synthesizing" (the supervisor).    *)
(* Requests interleave there; a crash may follow any step.                 *)
(***************************************************************************)
EXTENDS Naturals, Sequences

CONSTANTS
  Builders,     \* how many Builder tasks the plan has
  MaxFailing,  \* bound: failing applies and failing verifications, together
  MaxDeaths,   \* bound: how often the gateway dies or the user reconciles wrongly
  MaxQueued,    \* bound: retry requests waiting in the mission queue
  MayCancel     \* whether the user cancels the mission

ASSUME BuilderAssumption == Builders \in Nat \ {0}
ASSUME ApplyBoundAssumption   == {MaxFailing, MaxDeaths, MaxQueued} \subseteq Nat /\ MaxQueued > 0
ASSUME FlagsAssumption   == MayCancel \in BOOLEAN

VARIABLES
  mission,       \* missions.status
  apply,         \* apply_phase, "absent" before the row exists
  verification,  \* verification_phase
  completion,    \* mission_completions.status
  approval,      \* the apply approval, "none" when the policy applies automatically
  queue,         \* the jobs waiting in the mission queue of the orchestrator
  job,           \* the job that runs
  recovery,      \* where the start-up of the gateway stands
  applied,       \* history: how often each Builder's changes reached the workspace
  timeline,      \* history: the terminal events published for the mission
  failed, deaths  \* counters for the bounds

rows == <<mission, apply, verification, completion, approval>>
applyVars == <<rows, queue, job, recovery, applied, timeline, failed, deaths>>

Kinds    == {"auto", "apply", "retry", "completion"}
Stages   == {"idle", "marked", "applying", "recorded", "verifying", "settled",
             "judged", "synthesizing", "completing", "publishing", "closing"}
Job      == [kind : Kinds, next : 1 .. Builders, passed : BOOLEAN, pc : Stages]
IdleJob     == [kind |-> "auto", next |-> 1, passed |-> FALSE, pc |-> "idle"]

Terminal == {"completed", "failed", "cancelled"}
Fenced   == {"cancelled", "failed", "blocked"}

ApplyTypeOK ==
  /\ mission \in {"reviewing", "waiting", "ready", "applying", "verifying", "blocked"} \cup Terminal
  /\ apply \in {"absent", "in_progress", "applied", "blocked"}
  /\ verification \in {"pending", "running", "blocked", "completed"}
  /\ completion \in {"absent", "synthesis_pending", "event_pending", "completed"}
  /\ approval \in {"none", "pending", "processing", "decided", "reconcile"}
  /\ queue \in Seq(Kinds) /\ job \in Job
  /\ recovery \in {"completions", "plans", "done"}
  /\ applied \in [1 .. Builders -> Nat]
  /\ timeline \subseteq {"mission_completed", "mission_failed"}
  /\ failed \in Nat /\ deaths \in Nat

(* All tasks are done and the quality gates passed.  The policy applies at *)
(* once, inside the completion of the last task, or asks the user.         *)
ApplyInit ==
  /\ \/ mission = "reviewing" /\ approval = "none" /\ queue = <<"auto">>
     \/ mission = "waiting" /\ approval = "pending" /\ queue = <<>>
  /\ apply = "absent" /\ verification = "pending" /\ completion = "absent"
  /\ job = IdleJob /\ recovery = "done"
  /\ applied = [b \in 1 .. Builders |-> 0]
  /\ timeline = {} /\ failed = 0 /\ deaths = 0

-----------------------------------------------------------------------------
At(pc) == job.pc = pc
Goto(pc) == job' = [job EXCEPT !.pc = pc]

(* A request is handled only where the job awaits something outside the    *)
(* process, and only by a gateway that has recovered (server.listen).      *)
Serving == recovery = "done" /\ job.pc \in {"idle", "applying", "verifying", "synthesizing"}

(* isPostApplyVerificationPending. *)
VerificationPending == apply = "applied" /\ verification \in {"pending", "blocked"}

AllApplied == \A b \in 1 .. Builders : applied[b] > 0

(* assertMissionActionCurrent, canPublishCompletion. *)
Current == mission \notin Fenced

NextRecovery == CASE recovery = "completions" -> "plans"
                  [] recovery = "plans"       -> "done"
                  [] OTHER                    -> recovery

(* The job returns: a decision finalizes its approval. *)
JobReturns ==
  /\ job' = IdleJob
  /\ approval' = IF job.kind = "apply" THEN "decided" ELSE approval
  /\ recovery' = NextRecovery

(* The job throws while the mission is `ending`.  A decision leaves its    *)
(* approval to be reconciled; an automatic apply blocks the mission and    *)
(* says so; a retry answers 400.                                           *)
JobThrows(ending) ==
  /\ job' = IdleJob
  /\ approval' = IF job.kind = "apply" THEN "reconcile" ELSE approval
  /\ recovery' = NextRecovery
  /\ IF job.kind = "auto" /\ ending \notin Terminal
     THEN mission' = "blocked" /\ timeline' = timeline \cup {"mission_failed"}
     ELSE mission' = ending /\ timeline' = timeline

-----------------------------------------------------------------------------
(* The requests of the user.                                               *)

Approve ==
  /\ Serving /\ approval = "pending"
  /\ approval' = "processing"
  /\ queue' = Append(queue, "apply")
  /\ UNCHANGED <<mission, apply, verification, completion, job, recovery, applied, timeline,
                 failed, deaths>>

(* A rejected apply blocks the mission, outside the mission queue. *)
Reject ==
  /\ Serving /\ approval = "pending"
  /\ IF mission \in Terminal
     THEN approval' = "reconcile" /\ UNCHANGED mission
     ELSE approval' = "decided" /\ mission' = "blocked"
  /\ UNCHANGED <<apply, verification, completion, queue, job, recovery, applied, timeline,
                 failed, deaths>>

(* The user says whether the changes are there: "applied" closes the       *)
(* approval, "not_applied" opens it again.                                 *)
ReconcileApply ==
  /\ Serving /\ approval = "reconcile"
  /\ approval' \in {"decided", "pending"}
  /\ \/ (approval' = "decided" <=> AllApplied) /\ UNCHANGED deaths
     \/ (approval' = "decided" <=> ~AllApplied) /\ deaths < MaxDeaths /\ deaths' = deaths + 1
  /\ UNCHANGED <<mission, apply, verification, completion, queue, job, recovery, applied, timeline,
                 failed>>

(* POST /retry-verification and the first branch of POST /retry. *)
RequestRetry ==
  /\ Serving /\ VerificationPending /\ Len(queue) < MaxQueued
  /\ queue' = Append(queue, "retry")
  /\ UNCHANGED <<rows, job, recovery, applied, timeline, failed, deaths>>

CancelMission ==
  /\ MayCancel /\ Serving
  /\ mission' = "cancelled"
  /\ UNCHANGED <<apply, verification, completion, approval, queue, job, recovery, applied, timeline,
                 failed, deaths>>

-----------------------------------------------------------------------------
(* The job.                                                                *)

Dequeue(kind) == At("idle") /\ queue # <<>> /\ Head(queue) = kind /\ queue' = Tail(queue)

(* applyApprovedChanges begins. *)
StartApply(kind) ==
  /\ kind \in {"auto", "apply"} /\ Dequeue(kind)
  /\ Current
  /\ mission' = IF mission = "verifying" THEN mission ELSE "applying"
  /\ job' = [IdleJob EXCEPT !.kind = kind, !.pc = "marked"]
  /\ UNCHANGED <<apply, verification, completion, approval, recovery, applied, timeline,
                 failed, deaths>>

(* It begins for a mission that is fenced by now. *)
RefuseApply(kind) ==
  /\ kind \in {"auto", "apply"} /\ Dequeue(kind)
  /\ ~Current
  /\ approval' = IF kind = "apply" THEN "reconcile" ELSE approval
  /\ UNCHANGED <<mission, apply, verification, completion, job, recovery, applied, timeline,
                 failed, deaths>>

(* retryPostApplyVerification. *)
StartRetry ==
  /\ Dequeue("retry") /\ mission \in {"blocked", "verifying"}
  /\ mission' = "verifying"
  /\ job' = [IdleJob EXCEPT !.kind = "retry", !.pc = "marked"]
  /\ UNCHANGED <<apply, verification, completion, approval, recovery, applied, timeline,
                 failed, deaths>>

RefuseRetry ==
  /\ Dequeue("retry") /\ mission \notin {"blocked", "verifying"}
  /\ recovery' = NextRecovery
  /\ UNCHANGED <<rows, job, applied, timeline, failed, deaths>>

(* executeApplyVerificationOperation: the row is inserted and claimed. *)
ClaimApply ==
  /\ At("marked") /\ apply = "absent"
  /\ apply' = "in_progress"
  /\ Goto("applying")
  /\ UNCHANGED <<mission, verification, completion, approval, queue, recovery, applied, timeline,
                 failed, deaths>>

RefuseBlocked ==
  /\ At("marked") /\ apply = "blocked"
  /\ JobThrows(mission)
  /\ UNCHANGED <<apply, verification, completion, queue, applied, failed, deaths>>

(* The apply of one Builder returned; after the last one they are recorded. *)
BuilderApplied ==
  /\ At("applying")
  /\ applied' = [applied EXCEPT ![job.next] = @ + 1]
  /\ IF job.next < Builders
     THEN /\ job' = [job EXCEPT !.next = @ + 1]
          /\ UNCHANGED apply
     ELSE /\ apply' = "applied"
          /\ Goto("recorded")
  /\ UNCHANGED <<mission, verification, completion, approval, queue, recovery, timeline,
                 failed, deaths>>

(* It failed, whether or not the changes landed before it did. *)
BuilderFails ==
  /\ failed < MaxFailing /\ At("applying")
  /\ \E landed \in {0, 1} : applied' = [applied EXCEPT ![job.next] = @ + landed]
  /\ apply' = "blocked"
  /\ failed' = failed + 1
  /\ JobThrows(mission)
  /\ UNCHANGED <<verification, completion, queue, deaths>>

ClaimVerification ==
  /\ At("recorded") \/ At("marked")
  /\ VerificationPending
  /\ verification' = "running"
  /\ Goto("verifying")
  /\ UNCHANGED <<mission, apply, completion, approval, queue, recovery, applied, timeline,
                 failed, deaths>>

(* The operation is complete: its stored result is returned. *)
ReturnStored ==
  /\ At("marked") /\ apply = "applied" /\ verification = "completed"
  /\ job' = [job EXCEPT !.passed = TRUE, !.pc = "settled"]
  /\ UNCHANGED <<rows, queue, recovery, applied, timeline, failed, deaths>>

(* finishVerification. *)
VerifierReturns ==
  /\ At("verifying")
  /\ \E passed \in BOOLEAN :
       /\ passed \/ failed < MaxFailing
       /\ verification' = IF passed THEN "completed" ELSE "blocked"
       /\ failed' = IF passed THEN failed ELSE failed + 1
       /\ job' = [job EXCEPT !.passed = passed, !.pc = "settled"]
  /\ UNCHANGED <<mission, apply, completion, approval, queue, recovery, applied, timeline, deaths>>

(* Mutated form: what happened to the mission meanwhile is not looked at. *)
SettleUnfenced ==
  /\ At("settled")
  /\ mission' = "verifying"
  /\ Goto("judged")
  /\ UNCHANGED <<apply, verification, completion, approval, queue, recovery, applied, timeline,
                 failed, deaths>>

(* The operation returned: the mission is looked at again. *)
Settle ==
  /\ At("settled")
  /\ IF Current
     THEN /\ mission' = "verifying"
          /\ Goto("judged")
          /\ UNCHANGED <<approval, recovery, timeline>>
     ELSE JobThrows(mission)
  /\ UNCHANGED <<apply, verification, completion, queue, applied, failed, deaths>>

(* Mutated form: the mission of a failed verification is not blocked. *)
JudgeFailedSilently ==
  /\ At("judged") /\ ~job.passed
  /\ mission' = "failed"
  /\ job' = IdleJob /\ approval' = IF job.kind = "apply" THEN "reconcile" ELSE approval
  /\ recovery' = NextRecovery
  /\ UNCHANGED <<apply, verification, completion, queue, applied, timeline, failed, deaths>>

(* The verification did not pass: the mission is blocked, to be retried. *)
JudgeFailed ==
  /\ At("judged") /\ ~job.passed
  /\ JobThrows("blocked")
  /\ UNCHANGED <<apply, verification, completion, queue, applied, failed, deaths>>

(* completeWithSynthesis: the intent is written before the supervisor is   *)
(* asked; a completion that is recorded already ends the job.              *)
BeginCompletion ==
  /\ At("judged") /\ job.passed
  /\ IF completion = "completed"
     THEN JobReturns /\ UNCHANGED completion
     ELSE /\ completion' = IF completion = "absent" THEN "synthesis_pending" ELSE completion
          /\ Goto("synthesizing")
          /\ UNCHANGED <<approval, recovery>>
  /\ UNCHANGED <<mission, apply, verification, queue, applied, timeline, failed, deaths>>

(* The synthesis is there: the mission completes, unless it was fenced. *)
SynthesisReturns ==
  /\ At("synthesizing")
  /\ IF Current
     THEN /\ mission' = "completed"
          /\ Goto("completing")
          /\ UNCHANGED <<approval, recovery>>
     ELSE JobReturns /\ UNCHANGED mission
  /\ UNCHANGED <<apply, verification, completion, queue, applied, timeline, failed, deaths>>

(* completeDurably: the row, the event, the row. *)
RecordSummary ==
  /\ At("completing")
  /\ completion' = "event_pending"
  /\ Goto("publishing")
  /\ UNCHANGED <<mission, apply, verification, approval, queue, recovery, applied, timeline,
                 failed, deaths>>

PublishCompletion ==
  /\ At("publishing")
  /\ timeline' = timeline \cup {"mission_completed"}
  /\ Goto("closing")
  /\ UNCHANGED <<rows, queue, recovery, applied, failed, deaths>>

CloseCompletion ==
  /\ At("closing")
  /\ completion' = "completed"
  /\ JobReturns
  /\ UNCHANGED <<mission, apply, verification, queue, applied, timeline, failed, deaths>>

-----------------------------------------------------------------------------
(* The gateway dies; the stores of the next one are recovered first.       *)

(* Mutated form: an apply that was interrupted starts over. *)
InterruptedApplyStartsOver == IF apply = "in_progress" THEN "absent" ELSE apply

InterruptedApply == IF apply = "in_progress" THEN "blocked" ELSE apply

RestartApply ==
  /\ deaths < MaxDeaths
  /\ deaths' = deaths + 1
  /\ IF At("applying")
     THEN \E landed \in {0, 1} : applied' = [applied EXCEPT ![job.next] = @ + landed]
     ELSE UNCHANGED applied
  /\ apply' = InterruptedApply
  /\ verification' = IF verification = "running" THEN "blocked" ELSE verification
  /\ mission' = IF mission = "reviewing" THEN "ready" ELSE mission
  /\ approval' = IF approval = "processing" THEN "reconcile" ELSE approval
  /\ queue' = <<>> /\ job' = IdleJob /\ recovery' = "completions"
  /\ UNCHANGED <<completion, timeline, failed>>

(* recoverPendingCompletions. *)
RecoverCompletion ==
  /\ recovery = "completions" /\ At("idle")
  /\ IF completion \in {"synthesis_pending", "event_pending"} /\ Current
     THEN job' = [IdleJob EXCEPT !.kind = "completion", !.pc = "completing"] /\ UNCHANGED recovery
     ELSE recovery' = "plans" /\ UNCHANGED job
  /\ UNCHANGED <<rows, queue, applied, timeline, failed, deaths>>

(* A verification that is pending is retried; another mission that is      *)
(* schedulable has its plan reconciled, which finds all of its tasks done  *)
(* and fails it (recoverNonProgressingPlan).                               *)
RecoverPlan ==
  /\ recovery = "plans" /\ At("idle") /\ queue = <<>>
  /\ IF mission \in {"verifying", "blocked"} /\ VerificationPending
     THEN queue' = <<"retry">> /\ UNCHANGED <<mission, timeline, recovery>>
     ELSE /\ recovery' = "done" /\ UNCHANGED queue
          /\ IF mission \in {"ready", "verifying"}
             THEN mission' = "failed" /\ timeline' = timeline \cup {"mission_failed"}
             ELSE UNCHANGED <<mission, timeline>>
  /\ UNCHANGED <<apply, verification, completion, approval, job, applied, failed, deaths>>

-----------------------------------------------------------------------------
UserNext == Approve \/ Reject \/ ReconcileApply \/ RequestRetry \/ CancelMission

JobNext ==
  \/ \E kind \in {"auto", "apply"} : StartApply(kind) \/ RefuseApply(kind)
  \/ StartRetry \/ RefuseRetry
  \/ ClaimApply \/ RefuseBlocked \/ BuilderApplied \/ BuilderFails
  \/ ClaimVerification \/ ReturnStored \/ VerifierReturns
  \/ Settle \/ JudgeFailed \/ BeginCompletion \/ SynthesisReturns
  \/ RecordSummary \/ PublishCompletion \/ CloseCompletion

ApplyNext == UserNext \/ JobNext \/ RestartApply \/ RecoverCompletion \/ RecoverPlan

ApplySpec == ApplyInit /\ [][ApplyNext]_applyVars

(* The commands of a job end (each has a deadline), start-up runs to its   *)
(* end, and the user approves, and repeats the retry the gateway offers.   *)
ApplyFairSpec ==
  /\ ApplySpec
  /\ WF_applyVars(JobNext) /\ WF_applyVars(RecoverCompletion) /\ WF_applyVars(RecoverPlan)
  /\ WF_applyVars(Approve) /\ WF_applyVars(ReconcileApply) /\ WF_applyVars(RequestRetry)

-----------------------------------------------------------------------------
(* The changes of a Builder reach the workspace at most once, through      *)
(* failing applies, deaths in the middle of one, repeated approvals and   *)
(* retries ("apply-before-record crash is blocked and never replayed",     *)
(* apply-verification-operation.test.ts).                                  *)
AppliedAtMostOnce == \A b \in 1 .. Builders : applied[b] <= 1

(* A mission is completed, and says so, only when all changes of its plan  *)
(* are in the workspace and the verification there has passed, whoever     *)
(* publishes the completion: the job, a retry or the start-up.             *)
CompletionIsEarned ==
  mission = "completed" \/ "mission_completed" \in timeline =>
    AllApplied /\ apply = "applied" /\ verification = "completed"

(* The changes of a plan land once, and a completed mission has them,      *)
(* verified.                                                               *)
ApplySafety == AppliedAtMostOnce /\ CompletionIsEarned

(* The inductive invariant behind these: where the job stands, how far the *)
(* row has come and what is in the workspace belong together.              *)
ApplyAgrees ==
  /\ At("applying") <=> apply = "in_progress"
  /\ At("marked") => job.next = 1
  /\ apply = "absent" => \A b \in 1 .. Builders : applied[b] = 0
  /\ apply = "in_progress" =>
       \A b \in 1 .. Builders : applied[b] = IF b < job.next THEN 1 ELSE 0
  /\ apply = "applied" => \A b \in 1 .. Builders : applied[b] = 1
  /\ apply = "blocked" => AppliedAtMostOnce

VerificationAgrees ==
  /\ verification # "pending" => apply = "applied"
  /\ At("recorded") => apply = "applied"
  /\ At("verifying") => verification = "running"

CompletionAgrees ==
  /\ job.passed \/ job.pc \in {"synthesizing", "completing", "publishing", "closing"}
       => verification = "completed"
  /\ completion # "absent" \/ mission = "completed" \/ "mission_completed" \in timeline
       => verification = "completed"

(* Between these steps nothing is awaited that lets a request in. *)
StepsAreCurrent == job.pc \in {"judged", "completing", "publishing", "closing"} => Current

ApplyInv ==
  ApplyTypeOK /\ ApplyAgrees /\ VerificationAgrees /\ CompletionAgrees /\ StepsAreCurrent

(* What the operation row has settled stays: an apply that is recorded or  *)
(* blocked is not taken up again and a passed verification is not re-run.  *)
OperationIsFinal ==
  [][/\ apply \in {"applied", "blocked"} => apply' = apply
     /\ verification = "completed" => verification' = "completed"]_applyVars

(* "Cancellation cannot be followed by a completed event"                  *)
(* (orchestrator-v2.test.ts:1080), whatever was being awaited when it came *)
(* and however often the gateway restarts after it.                        *)
CancelledIsFinal ==
  [][mission = "cancelled" => mission' = "cancelled" /\ timeline' = timeline]_applyVars

(* No late step takes back what the row or a cancellation has settled.     *)
ApplySteps == OperationIsFinal /\ CancelledIsFinal

(* Without deaths and wrong answers of the user, changes that are in the  *)
(* workspace end in a completed mission (or one the user cancels), as long *)
(* as the user repeats the retry that is offered.                          *)
AppliedCompletes == []<>(apply = "applied" => mission \in {"completed", "cancelled"} \/ deaths > 0)

(* "Restart recovery finishes a synthesized completion exactly once"       *)
(* (orchestrator-v2.test.ts:309): a mission whose completion has been      *)
(* published does not end as failed.                                       *)
PublishedIsNotFailed == "mission_completed" \in timeline => mission # "failed"
=============================================================================
