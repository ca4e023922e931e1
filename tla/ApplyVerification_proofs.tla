------------------------ MODULE ApplyVerification_proofs ------------------------
(***************************************************************************)
(* Proofs about ApplyVerification, for every number of Builders, failed, *)
(* deaths and waiting requests: the inductive invariant ApplyInv, the     *)
(* safety properties it gives, and the two facts about single steps.       *)
(***************************************************************************)
EXTENDS ApplyVerification, TLAPS

USE BuilderAssumption

(* A job that starts, moves on or learns the verdict is a job. *)
LEMMA JobStarts ==
  ASSUME NEW kind \in Kinds, NEW pc \in Stages
  PROVE  LET j == [IdleJob EXCEPT !.kind = kind, !.pc = pc] IN
         IdleJob \in Job /\ j \in Job /\ j.pc = pc /\ j.next = 1 /\ ~j.passed
<1>1. IdleJob \in Job
  BY DEF Job, IdleJob, Kinds, Stages
<1> QED
  BY <1>1 DEF Job, IdleJob

(* A job that moves to another stage stays a job. *)
LEMMA JobMoves ==
  ASSUME job \in Job, NEW pc \in Stages, NEW passed \in BOOLEAN
  PROVE  /\ LET j == [job EXCEPT !.pc = pc] IN
              j \in Job /\ j.pc = pc /\ j.passed = job.passed /\ j.next = job.next
         /\ LET j == [job EXCEPT !.passed = passed, !.pc = pc] IN
              j \in Job /\ j.pc = pc /\ j.passed = passed /\ j.next = job.next
BY DEF Job

(* The mission queue holds kinds of jobs, at whichever end it changes. *)
LEMMA QueueTyped ==
  ASSUME NEW q \in Seq(Kinds), NEW kind \in Kinds
  PROVE  /\ Append(q, kind) \in Seq(Kinds) /\ <<kind>> \in Seq(Kinds)
         /\ q # <<>> => Tail(q) \in Seq(Kinds)
OBVIOUS

(* The plan whose tasks are done and whose changes are nowhere yet. *)
LEMMA InitApplyInv == ApplyInit => ApplyInv
<1> SUFFICES ASSUME ApplyInit
             PROVE  ApplyInv
  OBVIOUS
<1>1. queue \in Seq(Kinds)
  <2>1. "auto" \in Kinds /\ <<>> \in Seq(Kinds)
    BY DEF Kinds
  <2> QED
    BY <2>1, QueueTyped DEF ApplyInit
<1>2. job \in Job /\ job = IdleJob
  BY DEF ApplyInit, Job, IdleJob, Kinds, Stages
<1>3. ApplyTypeOK
  BY <1>1, <1>2 DEF ApplyInit, ApplyTypeOK, Terminal
<1>4. ApplyAgrees /\ VerificationAgrees /\ CompletionAgrees /\ StepsAreCurrent
  BY DEF ApplyInit, ApplyAgrees, VerificationAgrees, CompletionAgrees, StepsAreCurrent, IdleJob, At
<1> QED
  BY <1>3, <1>4 DEF ApplyInv

(* No request of the user disturbs the invariant. *)
LEMMA UserKeepsInv == ApplyInv /\ UserNext => ApplyInv'
<1> SUFFICES ASSUME ApplyInv, UserNext
             PROVE  ApplyInv'
  OBVIOUS
<1> USE DEF ApplyInv, ApplyTypeOK, ApplyAgrees, VerificationAgrees, CompletionAgrees,
            StepsAreCurrent, Current, Fenced, AppliedAtMostOnce, Terminal, At, rows
<1>1. CASE Approve
  <2>1. queue' \in Seq(Kinds)
    BY <1>1, QueueTyped DEF Approve, Kinds
  <2> QED
    BY <1>1, <2>1 DEF Approve
<1>2. CASE Reject
  BY <1>2 DEF Reject, Serving
<1>3. CASE ReconcileApply
  BY <1>3 DEF ReconcileApply
<1>4. CASE RequestRetry
  <2>1. queue' \in Seq(Kinds)
    BY <1>4, QueueTyped DEF RequestRetry, Kinds
  <2> QED
    BY <1>4, <2>1 DEF RequestRetry
<1>5. CASE CancelMission
  BY <1>5 DEF CancelMission, Serving
<1> QED
  BY <1>1, <1>2, <1>3, <1>4, <1>5 DEF UserNext
(* No step of a job disturbs it. *)
LEMMA JobKeepsInv == ApplyInv /\ JobNext => ApplyInv'
<1> SUFFICES ASSUME ApplyInv, JobNext
             PROVE  ApplyInv'
  OBVIOUS
<1> USE DEF ApplyInv, ApplyTypeOK, ApplyAgrees, VerificationAgrees, CompletionAgrees,
            StepsAreCurrent, Current, Fenced, AppliedAtMostOnce, Terminal, At, rows
<1>0. /\ IdleJob \in Job /\ IdleJob.pc = "idle" /\ ~IdleJob.passed
      /\ job.next \in 1 .. Builders /\ job.passed \in BOOLEAN /\ job.kind \in Kinds
  BY DEF Job, IdleJob, Kinds, Stages
<1>1. ASSUME NEW kind \in {"auto", "apply"}, StartApply(kind)
      PROVE  ApplyInv'
  <2>1. queue' \in Seq(Kinds)
    BY <1>1, QueueTyped DEF StartApply, Dequeue
  <2>2. job' \in Job /\ job'.pc = "marked" /\ job'.next = 1 /\ ~job'.passed
    <3>1. kind \in Kinds /\ "marked" \in Stages
      BY DEF Kinds, Stages
    <3>2. job' = [IdleJob EXCEPT !.kind = kind, !.pc = "marked"]
      BY <1>1 DEF StartApply
    <3> QED
      BY <3>1, <3>2, JobStarts, ZenonT(40)
  <2>3. /\ apply # "in_progress"
        /\ mission' \in {"verifying", "applying"}
        /\ UNCHANGED <<apply, verification, completion, approval, recovery, applied, timeline,
                      failed, deaths>>
    BY <1>1 DEF StartApply, Dequeue
  <2> QED
    BY <2>1, <2>2, <2>3
<1>2. ASSUME NEW kind \in {"auto", "apply"}, RefuseApply(kind)
      PROVE  ApplyInv'
  <2>1. queue' \in Seq(Kinds)
    BY <1>2, QueueTyped DEF RefuseApply, Dequeue
  <2> QED
    BY <1>2, <2>1 DEF RefuseApply, Dequeue, NextRecovery
<1>3. CASE StartRetry
  <2>1. queue' \in Seq(Kinds)
    BY <1>3, QueueTyped DEF StartRetry, Dequeue
  <2>2. job' \in Job /\ job'.pc = "marked" /\ job'.next = 1 /\ ~job'.passed
    BY <1>3, JobStarts DEF StartRetry, Kinds, Stages
  <2>3. /\ apply # "in_progress"
        /\ mission' \in {"verifying", "applying"}
        /\ UNCHANGED <<apply, verification, completion, approval, recovery, applied, timeline,
                      failed, deaths>>
    BY <1>3 DEF StartRetry, Dequeue
  <2> QED
    BY <2>1, <2>2, <2>3
<1>4. CASE RefuseRetry
  <2>1. queue' \in Seq(Kinds)
    BY <1>4, QueueTyped DEF RefuseRetry, Dequeue
  <2> QED
    BY <1>4, <2>1 DEF RefuseRetry, Dequeue, NextRecovery
<1>5. CASE ClaimApply
  <2>1. job' \in Job /\ job'.pc = "applying" /\ job'.passed = job.passed /\ job'.next = job.next
    BY <1>0, <1>5, JobMoves DEF ClaimApply, Goto, Stages
  <2> QED
    BY <1>0, <1>5, <2>1 DEF ClaimApply
<1>6. CASE RefuseBlocked
  BY <1>0, <1>6 DEF RefuseBlocked, JobThrows, NextRecovery
<1>7. CASE BuilderApplied
  <2>1. /\ apply = "in_progress"
        /\ applied' = [applied EXCEPT ![job.next] = 1]
        /\ UNCHANGED <<mission, verification, completion, approval, queue, recovery, timeline,
                      failed, deaths>>
    <3>1. apply = "in_progress" /\ applied[job.next] = 0
      BY <1>0, <1>7 DEF BuilderApplied
    <3>2. applied' = [applied EXCEPT ![job.next] = applied[job.next] + 1]
      BY <1>7 DEF BuilderApplied
    <3> QED
      BY <1>7, <3>1, <3>2 DEF BuilderApplied
  <2>2. CASE job.next < Builders
    <3>1. job' \in Job /\ job'.pc = "applying" /\ job'.passed = job.passed
          /\ job'.next = job.next + 1 /\ apply' = apply
      BY <1>0, <1>7, <2>2, SMTT(30) DEF BuilderApplied, Job
    <3> QED
      BY <1>0, <2>1, <3>1
  <2>3. CASE ~(job.next < Builders)
    <3>1. job' \in Job /\ job'.pc = "recorded" /\ job'.passed = job.passed /\ apply' = "applied"
      <4>1. job' = [job EXCEPT !.pc = "recorded"] /\ apply' = "applied"
        BY <1>7, <2>3 DEF BuilderApplied, Goto
      <4>2. "recorded" \in Stages
        BY DEF Stages
      <4> QED
        BY <1>0, <4>1, <4>2, JobMoves
    <3> QED
      BY <1>0, <2>1, <2>3, <3>1
  <2> QED
    BY <2>2, <2>3
<1>8. CASE BuilderFails
  BY <1>0, <1>8, SMTT(30) DEF BuilderFails, JobThrows, NextRecovery
<1>9. CASE ClaimVerification
  <2>1. job' \in Job /\ job'.pc = "verifying" /\ job'.passed = job.passed /\ job'.next = job.next
    BY <1>0, <1>9, JobMoves DEF ClaimVerification, Goto, Stages
  <2> QED
    BY <1>0, <1>9, <2>1 DEF ClaimVerification, VerificationPending
<1>10. CASE ReturnStored
  <2>1. job' \in Job /\ job'.pc = "settled"
    BY <1>0, <1>10, JobMoves DEF ReturnStored, Stages
  <2> QED
    BY <1>10, <2>1 DEF ReturnStored
<1>11. CASE VerifierReturns
  <2>1. PICK passed \in BOOLEAN :
          /\ verification' = IF passed THEN "completed" ELSE "blocked"
          /\ failed' = IF passed THEN failed ELSE failed + 1
          /\ job' = [job EXCEPT !.passed = passed, !.pc = "settled"]
    BY <1>11 DEF VerifierReturns
  <2>2. job' \in Job /\ job'.pc = "settled" /\ job'.passed = passed
    BY <2>1, JobMoves, ZenonT(40) DEF Stages
  <2>3. /\ verification = "running" /\ apply = "applied"
        /\ UNCHANGED <<mission, apply, completion, approval, queue, recovery, applied, timeline,
                      deaths>>
    BY <1>11 DEF VerifierReturns
  <2> QED
    BY <2>1, <2>2, <2>3
<1>12. CASE Settle
  <2>1. CASE Current
    <3>1. job' \in Job /\ job'.pc = "judged" /\ job'.passed = job.passed
      <4>1. job' = [job EXCEPT !.pc = "judged"]
        BY <1>12, <2>1 DEF Settle, Goto
      <4>2. "judged" \in Stages
        BY DEF Stages
      <4> QED
        BY <1>0, <4>1, <4>2, JobMoves
    <3> QED
      BY <1>12, <2>1, <3>1 DEF Settle
  <2>2. CASE ~Current
    BY <1>0, <1>12, <2>2 DEF Settle, JobThrows, NextRecovery
  <2> QED
    BY <2>1, <2>2
<1>13. CASE JudgeFailed
  BY <1>0, <1>13 DEF JudgeFailed, JobThrows, NextRecovery
<1>14. CASE BeginCompletion
  <2>1. CASE completion = "completed"
    BY <1>0, <1>14, <2>1 DEF BeginCompletion, JobReturns, NextRecovery
  <2>2. CASE completion # "completed"
    <3>1. job' \in Job /\ job'.pc = "synthesizing"
      <4>1. job' = [job EXCEPT !.pc = "synthesizing"]
        BY <1>14, <2>2 DEF BeginCompletion, Goto
      <4>2. "synthesizing" \in Stages
        BY DEF Stages
      <4> QED
        BY <1>0, <4>1, <4>2, JobMoves
    <3> QED
      BY <1>14, <2>2, <3>1 DEF BeginCompletion
  <2> QED
    BY <2>1, <2>2
<1>15. CASE SynthesisReturns
  <2>1. CASE Current
    <3>1. job' \in Job /\ job'.pc = "completing"
      <4>1. job' = [job EXCEPT !.pc = "completing"]
        BY <1>15, <2>1 DEF SynthesisReturns, Goto
      <4>2. "completing" \in Stages
        BY DEF Stages
      <4> QED
        BY <1>0, <4>1, <4>2, JobMoves
    <3> QED
      BY <1>15, <2>1, <3>1 DEF SynthesisReturns
  <2>2. CASE ~Current
    BY <1>0, <1>15, <2>2 DEF SynthesisReturns, JobReturns, NextRecovery
  <2> QED
    BY <2>1, <2>2
<1>16. CASE RecordSummary
  <2>1. job' \in Job /\ job'.pc = "publishing" /\ job'.passed = job.passed /\ job'.next = job.next
    BY <1>0, <1>16, JobMoves DEF RecordSummary, Goto, Stages
  <2> QED
    BY <1>0, <1>16, <2>1 DEF RecordSummary
<1>17. CASE PublishCompletion
  <2>1. job' \in Job /\ job'.pc = "closing" /\ job'.passed = job.passed /\ job'.next = job.next
    BY <1>0, <1>17, JobMoves DEF PublishCompletion, Goto, Stages
  <2> QED
    BY <1>0, <1>17, <2>1 DEF PublishCompletion
<1>18. CASE CloseCompletion
  BY <1>0, <1>18 DEF CloseCompletion, JobReturns, NextRecovery
<1> QED
  BY <1>1, <1>2, <1>3, <1>4, <1>5, <1>6, <1>7, <1>8, <1>9, <1>10,
     <1>11, <1>12, <1>13, <1>14, <1>15, <1>16, <1>17, <1>18 DEF JobNext

(* Neither a crash nor the recovery after it disturbs it. *)
LEMMA RecoveryKeepsInv ==
  ApplyInv /\ (RestartApply \/ RecoverCompletion \/ RecoverPlan) => ApplyInv'
<1> SUFFICES ASSUME ApplyInv, RestartApply \/ RecoverCompletion \/ RecoverPlan
             PROVE  ApplyInv'
  OBVIOUS
<1> USE DEF ApplyInv, ApplyTypeOK, ApplyAgrees, VerificationAgrees, CompletionAgrees,
            StepsAreCurrent, Current, Fenced, AppliedAtMostOnce, Terminal, At, rows
<1>0. /\ IdleJob \in Job /\ IdleJob.pc = "idle" /\ ~IdleJob.passed
      /\ job.next \in 1 .. Builders /\ job.passed \in BOOLEAN /\ job.kind \in Kinds
  BY DEF Job, IdleJob, Kinds, Stages
<1>1. CASE RestartApply
  <2>1. /\ job' = IdleJob /\ queue' = <<>>
        /\ apply' = IF apply = "in_progress" THEN "blocked" ELSE apply
        /\ verification' = IF verification = "running" THEN "blocked" ELSE verification
        /\ mission' = IF mission = "reviewing" THEN "ready" ELSE mission
        /\ approval' = IF approval = "processing" THEN "reconcile" ELSE approval
        /\ recovery' = "completions" /\ deaths' = deaths + 1
        /\ UNCHANGED <<completion, timeline, failed>>
    BY <1>1 DEF RestartApply, InterruptedApply
  <2>2. applied' \in [1 .. Builders -> Nat]
    <3>1. CASE At("applying")
      <4>1. PICK landed \in {0, 1} : applied' = [applied EXCEPT ![job.next] = @ + landed]
        BY <1>1, <3>1 DEF RestartApply
      <4> QED
        BY <1>0, <4>1
    <3>2. CASE ~At("applying")
      BY <1>1, <3>2 DEF RestartApply
    <3> QED
      BY <3>1, <3>2
  <2>3. CASE At("applying")
    <3>1. AppliedAtMostOnce'
      BY <1>0, <1>1, <2>3, SMTT(30) DEF RestartApply
    <3> QED
      BY <1>0, <2>1, <2>2, <2>3, <3>1
  <2>4. CASE ~At("applying")
    <3>1. applied' = applied
      BY <1>1, <2>4 DEF RestartApply
    <3> QED
      BY <1>0, <2>1, <2>2, <2>4, <3>1
  <2> QED
    BY <2>3, <2>4
<1>2. CASE RecoverCompletion
  <2>1. CASE job' = job
    BY <1>2, <2>1 DEF RecoverCompletion
  <2>2. CASE job' # job
    <3>1. /\ completion # "absent" /\ recovery' = recovery
          /\ job' = [IdleJob EXCEPT !.kind = "completion", !.pc = "completing"]
      BY <1>2, <2>2 DEF RecoverCompletion
    <3>2. job' \in Job /\ job'.pc = "completing" /\ ~job'.passed
      BY <3>1, JobStarts DEF Kinds, Stages
    <3> QED
      BY <1>2, <3>1, <3>2 DEF RecoverCompletion
  <2> QED
    BY <2>1, <2>2
<1>3. CASE RecoverPlan
  <2>1. queue' \in Seq(Kinds)
    <3>1. <<"retry">> \in Seq(Kinds)
      BY QueueTyped DEF Kinds
    <3> QED
      BY <1>3, <3>1 DEF RecoverPlan
  <2>2. /\ UNCHANGED <<apply, verification, completion, approval, job, applied, failed, deaths>>
        /\ recovery' \in {recovery, "done"}
        /\ \/ UNCHANGED <<mission, timeline>>
           \/ mission' = "failed" /\ timeline' = timeline \cup {"mission_failed"}
    BY <1>3 DEF RecoverPlan
  <2>3. job.pc = "idle"
    BY <1>3 DEF RecoverPlan
  <2>4. ApplyTypeOK'
    BY <2>1, <2>2, ZenonT(40)
  <2>5. ApplyAgrees' /\ VerificationAgrees'
    BY <2>2
  <2>6. CompletionAgrees'
    BY <2>2
  <2>7. StepsAreCurrent'
    BY <2>2, <2>3
  <2> QED
    BY <2>4, <2>5, <2>6, <2>7
<1> QED
  BY <1>1, <1>2, <1>3

(* Every step of the stage keeps the invariant. *)
LEMMA NextApplyInv == ApplyInv /\ [ApplyNext]_applyVars => ApplyInv'
<1>1. ApplyInv /\ UNCHANGED applyVars => ApplyInv'
  BY DEF applyVars, rows, ApplyInv, ApplyTypeOK, ApplyAgrees, VerificationAgrees, CompletionAgrees,
         StepsAreCurrent, Current, AppliedAtMostOnce, At
<1> QED
  BY <1>1, UserKeepsInv, JobKeepsInv, RecoveryKeepsInv DEF ApplyNext

(* In every reachable state the inductive invariant holds. *)
THEOREM ApplyInvariant == ApplySpec => []ApplyInv
BY InitApplyInv, NextApplyInv, PTL DEF ApplySpec

(* The variables stay in their types. *)
THEOREM ApplyTypeCorrect == ApplySpec => []ApplyTypeOK
<1>1. ApplyInv => ApplyTypeOK
  BY DEF ApplyInv
<1> QED
  BY <1>1, ApplyInvariant, PTL

(* No failure, crash, approval or retry applies a Builder's changes twice. *)
THEOREM ChangesAreAppliedOnce == ApplySpec => []AppliedAtMostOnce
<1>1. ApplyInv => AppliedAtMostOnce
  BY DEF ApplyInv, ApplyTypeOK, ApplyAgrees, AppliedAtMostOnce
<1> QED
  BY <1>1, ApplyInvariant, PTL

(* A mission that is completed, or says so, has all changes of its plan in *)
(* the workspace and a passed verification there.                          *)
THEOREM CompletionsAreEarned == ApplySpec => []CompletionIsEarned
<1>1. ApplyInv => CompletionIsEarned
  BY DEF ApplyInv, ApplyTypeOK, ApplyAgrees, VerificationAgrees, CompletionAgrees,
         CompletionIsEarned, AllApplied
<1> QED
  BY <1>1, ApplyInvariant, PTL

(* Together: changes land once, and a completed mission has them all.      *)
THEOREM ApplyIsSafe == ApplySpec => []ApplySafety
<1>1. AppliedAtMostOnce /\ CompletionIsEarned => ApplySafety
  BY DEF ApplySafety
<1> QED
  BY <1>1, ChangesAreAppliedOnce, CompletionsAreEarned, PTL

(* What the operation row has settled no step changes. *)
THEOREM SettledPhasesStay == ApplySpec => OperationIsFinal
<1> DEFINE Keeps == /\ apply \in {"applied", "blocked"} => apply' = apply
                    /\ verification = "completed" => verification' = "completed"
<1>1. ApplyInv /\ [ApplyNext]_applyVars => [Keeps]_applyVars
  <2> SUFFICES ASSUME ApplyInv, ApplyNext
               PROVE  Keeps
    OBVIOUS
  <2> USE DEF ApplyInv, ApplyAgrees, VerificationAgrees, At, rows
  <2>1. CASE UserNext
    BY <2>1 DEF UserNext, Approve, Reject, ReconcileApply, RequestRetry, CancelMission
  <2>2. CASE JobNext
    BY <2>2 DEF JobNext, StartApply, RefuseApply, StartRetry, RefuseRetry, ClaimApply,
                RefuseBlocked, BuilderApplied, BuilderFails, ClaimVerification,
                VerificationPending, ReturnStored, VerifierReturns, Settle, JudgeFailed,
                BeginCompletion, SynthesisReturns, RecordSummary, PublishCompletion,
                CloseCompletion
  <2>3. CASE RestartApply \/ RecoverCompletion \/ RecoverPlan
    BY <2>3 DEF RestartApply, InterruptedApply, RecoverCompletion, RecoverPlan
  <2> QED
    BY <2>1, <2>2, <2>3 DEF ApplyNext
<1> QED
  BY <1>1, ApplyInvariant, PTL DEF ApplySpec, OperationIsFinal

(* A cancelled mission stays cancelled and nothing more is said of it. *)
THEOREM CancellationStays == ApplySpec => CancelledIsFinal
<1> DEFINE Keeps == mission = "cancelled" => mission' = "cancelled" /\ timeline' = timeline
<1>1. ApplyInv /\ [ApplyNext]_applyVars => [Keeps]_applyVars
  <2> SUFFICES ASSUME ApplyInv, ApplyNext, mission = "cancelled"
               PROVE  mission' = "cancelled" /\ timeline' = timeline
    OBVIOUS
  <2> USE DEF ApplyInv, StepsAreCurrent, Current, Fenced, Terminal, At, rows
  <2>1. CASE UserNext
    BY <2>1 DEF UserNext, Approve, Reject, ReconcileApply, RequestRetry, CancelMission
  <2>2. CASE JobNext
    BY <2>2 DEF JobNext, StartApply, RefuseApply, StartRetry, RefuseRetry, ClaimApply,
                RefuseBlocked, BuilderApplied, BuilderFails, ClaimVerification, ReturnStored,
                VerifierReturns, Settle, JudgeFailed, BeginCompletion, SynthesisReturns,
                RecordSummary, PublishCompletion, CloseCompletion, JobThrows, JobReturns
  <2>3. CASE RestartApply \/ RecoverCompletion \/ RecoverPlan
    BY <2>3 DEF RestartApply, RecoverCompletion, RecoverPlan
  <2> QED
    BY <2>1, <2>2, <2>3 DEF ApplyNext
<1> QED
  BY <1>1, ApplyInvariant, PTL DEF ApplySpec, CancelledIsFinal

(* Together: no late step takes back what the row or a cancellation has    *)
(* settled.                                                                *)
THEOREM ApplyStepsStand == ApplySpec => ApplySteps
  BY SettledPhasesStay, CancellationStays DEF ApplySteps
=============================================================================
