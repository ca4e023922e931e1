--------------------------- MODULE TurnQueue_proofs ---------------------------
(***************************************************************************)
(* Proofs about TurnQueue, for every number of turns and crashes and every *)
(* mix of deliveries: the inductive invariant TurnInv, the agreement of    *)
(* the three tables, the fence of a stop_and_replan, the ownership of what *)
(* runs, and the finality of what has settled.                             *)
(***************************************************************************)
EXTENDS TurnQueue, FiniteSetTheorems, TLAPS

USE BoundsAssumption, NullAssumption

(* An empty conversation satisfies the invariant.                          *)
LEMMA InitTurnInv == Init => TurnInv
<1> SUFFICES ASSUME Init
             PROVE  TurnInv
  OBVIOUS
<1> USE DEF Init
<1>1. TypeOK
  <2>1. crashes \in 0 .. MaxCrashes /\ mission \in MissionStatus /\ activeRun \in Turns \cup {NULL}
    BY DEF MissionStatus
  <2>2. kind \in [Turns -> Deliveries \cup {NULL}] /\ captured \in [Turns -> SUBSET Turns]
    OBVIOUS
  <2> QED
    BY <2>1, <2>2 DEF TypeOK
<1>2. RowsAgree /\ AbsentHasNoRows /\ OpenedIsClaimed /\ SteersDoNotRun
      /\ ReplansAreReplans /\ RefusedIsClosed
  BY DEF RowsAgree, AbsentHasNoRows, OpenedIsClaimed, SteersDoNotRun, ReplansAreReplans,
         RefusedIsClosed, LiveRun
<1>3. CapturedIsFenced /\ FencedRunsAreQuiet /\ OnlyOneRuns /\ CancelledIsQuiet
  BY DEF CapturedIsFenced, FencedRunsAreQuiet, OnlyOneRuns, ActiveRuns, CancelledIsQuiet, LiveRun
<1> QED
  BY <1>1, <1>2, <1>3 DEF TurnInv

(* The user writing, cancelling and retrying turns preserves it.           *)
LEMMA UserKeepsTurnInv ==
  ASSUME TurnInv, UserNext
  PROVE  TurnInv'
<1> USE DEF TurnInv, TypeOK, RowsAgree, AbsentHasNoRows, OpenedIsClaimed, SteersDoNotRun,
            ReplansAreReplans, RefusedIsClosed, CapturedIsFenced, FencedRunsAreQuiet, OnlyOneRuns, ActiveRuns,
            CancelledIsQuiet, LiveRun, Unstarted, Terminal, LiveCommand, MissionStatus, Active
<1>1. ASSUME NEW t \in Turns, QueueMessage(t)
      PROVE  TurnInv'
  BY <1>1 DEF QueueMessage, IsNew, Insert, Poked
<1>2. ASSUME NEW t \in Turns, SteerMessage(t)
      PROVE  TurnInv'
  BY <1>2 DEF SteerMessage, IsNew, Insert
<1>3. ASSUME NEW t \in Turns, ReplanMessage(t)
      PROVE  TurnInv'
  BY <1>3 DEF ReplanMessage, IsNew, Insert
<1>4. ASSUME NEW t \in Turns, StartTurn(t)
      PROVE  TurnInv'
  BY <1>4 DEF StartTurn, IsNew, Insert, OpenRun
<1>5. ASSUME NEW t \in Turns, RetryTasks(t)
      PROVE  TurnInv'
  BY <1>5 DEF RetryTasks, MayRetry, IsNew, Insert
<1>6. CASE RequestCancel
  BY <1>6 DEF RequestCancel, tables
<1> QED
  BY <1>1, <1>2, <1>3, <1>4, <1>5, <1>6 DEF UserNext

(* The drain of the queue and the cancellation of the mission preserve     *)
(* it.                                                                     *)
LEMMA QueueKeepsTurnInv ==
  ASSUME TurnInv, DrainNext \/ CancelMission \/ CancelStopFails \/ OrphanPlanEnds
  PROVE  TurnInv'
<1> USE DEF TurnInv, TypeOK, RowsAgree, AbsentHasNoRows, OpenedIsClaimed, SteersDoNotRun,
            ReplansAreReplans, RefusedIsClosed, CapturedIsFenced, FencedRunsAreQuiet, OnlyOneRuns, ActiveRuns,
            CancelledIsQuiet, LiveRun, Unstarted, Terminal, LiveCommand, MissionStatus, Active
<1>1. ASSUME NEW t \in Turns, ClaimNext(t)
      PROVE  TurnInv'
  BY <1>1 DEF ClaimNext, MayClaim, IsNext, OpenRun
<1>2. CASE DrainStops
  BY <1>2 DEF DrainStops, tables
<1>3. CASE CancelMission
  <2>1. TypeOK'
    BY <1>3, ZenonT(40) DEF CancelMission, Moved, TasksCancelled
  <2>2. RowsAgree' /\ AbsentHasNoRows' /\ OpenedIsClaimed' /\ SteersDoNotRun'
      /\ ReplansAreReplans' /\ RefusedIsClosed'
    BY <1>3 DEF CancelMission, Moved, TasksCancelled
  <2>3. CapturedIsFenced' /\ FencedRunsAreQuiet' /\ OnlyOneRuns' /\ CancelledIsQuiet'
    BY <1>3 DEF CancelMission, Moved, TasksCancelled
  <2> QED
    BY <2>1, <2>2, <2>3
<1>4. CASE CancelStopFails
  <2>1. TypeOK'
    BY <1>4 DEF CancelStopFails, tables
  <2>2. RowsAgree' /\ AbsentHasNoRows' /\ OpenedIsClaimed' /\ SteersDoNotRun'
      /\ ReplansAreReplans' /\ RefusedIsClosed'
    BY <1>4 DEF CancelStopFails, tables
  <2>3. CapturedIsFenced' /\ FencedRunsAreQuiet' /\ OnlyOneRuns' /\ CancelledIsQuiet'
    BY <1>4 DEF CancelStopFails, tables
  <2> QED
    BY <2>1, <2>2, <2>3
<1>5. CASE OrphanPlanEnds
  BY <1>5 DEF OrphanPlanEnds
<1> QED
  BY <1>1, <1>2, <1>3, <1>4, <1>5 DEF DrainNext

(* The delivery of a turn to a running plan, replanning included,          *)
(* preserves it.                                                           *)
LEMMA ReplanKeepsTurnInv ==
  ASSUME TurnInv, NEW t \in Turns,
         SteerReturns(t) \/ ReplanNext(t) \/ ReplanStopFails(t) \/ ReplanRestopFails(t)
  PROVE  TurnInv'
<1> USE DEF TurnInv, TypeOK, RowsAgree, AbsentHasNoRows, OpenedIsClaimed, SteersDoNotRun,
            ReplansAreReplans, RefusedIsClosed, CapturedIsFenced, FencedRunsAreQuiet, OnlyOneRuns, ActiveRuns,
            CancelledIsQuiet, LiveRun, Unstarted, Terminal, LiveCommand, MissionStatus, Active
<1>1. CASE SteerReturns(t)
  BY <1>1 DEF SteerReturns
<1>2. CASE FenceCaptured(t)
  BY <1>2 DEF FenceCaptured, Moved, TasksCancelled, Stopped
<1>3. CASE AwaitStarts(t)
  BY <1>3 DEF AwaitStarts, tables
<1>4. CASE ReopenMission(t)
  BY <1>4 DEF ReopenMission, TasksCancelled, Poked
<1>5. CASE ReplanStopFails(t)
  BY <1>5 DEF ReplanStopFails
<1>6. CASE ReplanRestopFails(t)
  BY <1>6 DEF ReplanRestopFails, tables
<1> QED
  BY <1>1, <1>2, <1>3, <1>4, <1>5, <1>6 DEF ReplanNext

(* The start of a turn that was claimed preserves it.                      *)
LEMMA StartKeepsTurnInv ==
  ASSUME TurnInv, NEW t \in Turns, StartNext(t)
  PROVE  TurnInv'
<1> USE DEF TurnInv, TypeOK, RowsAgree, AbsentHasNoRows, OpenedIsClaimed, SteersDoNotRun,
            ReplansAreReplans, RefusedIsClosed, CapturedIsFenced, FencedRunsAreQuiet, OnlyOneRuns, ActiveRuns,
            CancelledIsQuiet, LiveRun, Unstarted, Terminal, LiveCommand, MissionStatus, Active
<1>1. CASE StartRejected(t)
  BY <1>1 DEF StartRejected, FailStart, Moved, DrainAfterThrow
<1>2. CASE DecisionFails(t)
  BY <1>2 DEF DecisionFails, FailStart, CloseRun, Moved, DrainAfterThrow
<1>3. CASE Respond(t)
  BY <1>3 DEF Respond, CloseRun, Moved, DrainAfterReturn
<1>4. CASE DispatchPlan(t)
  BY <1>4 DEF DispatchPlan, Moved, DrainAfterReturn, Stale
<1>5. CASE RetryDispatched(t)
  BY <1>5 DEF RetryDispatched, Moved
<1>6. CASE RetryFails(t)
  <2>1. TypeOK'
    <3>1. route' \in [Turns -> {"none", "steering", "stopping", "settling", "restopping", "served",
                               "refused", "undoing"}]
      BY <1>6 DEF RetryFails
    <3>2. cancelledRuns' \subseteq Turns
      BY <1>6 DEF RetryFails
    <3>3. UNCHANGED <<mission, activeRun, kind, turn, command, run>>
          /\ UNCHANGED <<drain, starts, plan, captured, cancelling, crashes>>
      BY <1>6 DEF RetryFails, tables
    <3> QED
      BY <3>1, <3>2, <3>3
  <2>2. RowsAgree' /\ AbsentHasNoRows' /\ OpenedIsClaimed' /\ SteersDoNotRun'
      /\ ReplansAreReplans' /\ RefusedIsClosed'
    BY <1>6 DEF RetryFails, tables
  <2>3. CapturedIsFenced' /\ FencedRunsAreQuiet' /\ OnlyOneRuns' /\ CancelledIsQuiet'
    BY <1>6 DEF RetryFails, tables
  <2> QED
    BY <2>1, <2>2, <2>3
<1>7. CASE RetryUndone(t)
  BY <1>7 DEF RetryUndone, FailStart, Moved
<1> QED
  BY <1>1, <1>2, <1>3, <1>4, <1>5, <1>6, <1>7 DEF StartNext

(* The plan of a turn being made and ending preserves it.                  *)
LEMMA PlanKeepsTurnInv ==
  ASSUME TurnInv, NEW t \in Turns, PlanNext(t)
  PROVE  TurnInv'
<1> USE DEF TurnInv, TypeOK, RowsAgree, AbsentHasNoRows, OpenedIsClaimed, SteersDoNotRun,
            ReplansAreReplans, RefusedIsClosed, CapturedIsFenced, FencedRunsAreQuiet, OnlyOneRuns, ActiveRuns,
            CancelledIsQuiet, LiveRun, Unstarted, Terminal, LiveCommand, MissionStatus, Active
<1>1. CASE PlanSucceeds(t)
  BY <1>1 DEF PlanSucceeds
<1>2. CASE SynthesisEnds(t)
  BY <1>2, SMTT(30) DEF SynthesisEnds, CloseRun, Moved, Poked
<1>3. CASE PlanFails(t)
  BY <1>3 DEF PlanFails, CloseRun, Moved, Poked
<1> QED
  BY <1>1, <1>2, <1>3 DEF PlanNext

(* The death of the gateway and the recovery of the queue preserve it.     *)
LEMMA RestartKeepsTurnInv ==
  ASSUME TurnInv, Restart
  PROVE  TurnInv'
<1> PICK lost \in Turns \cup {NULL} : RestartFrom(lost)
  BY DEF Restart
<1> USE DEF TurnInv, TypeOK, RowsAgree, AbsentHasNoRows, OpenedIsClaimed, SteersDoNotRun,
            ReplansAreReplans, RefusedIsClosed, CapturedIsFenced, FencedRunsAreQuiet, OnlyOneRuns, ActiveRuns,
            CancelledIsQuiet, LiveRun, Unstarted, Terminal, LiveCommand, MissionStatus, Active
<1>1. TypeOK'
  <2>1. turn' \in [Turns -> {"absent"} \cup Unstarted \cup LiveRun \cup Terminal]
    BY DEF RestartFrom, Moved
  <2>2. command' \in [Turns -> {"absent"} \cup LiveCommand \cup Terminal]
    BY DEF RestartFrom, Moved
  <2>3. run' \in [Turns -> {"absent"} \cup LiveRun \cup Terminal]
    BY DEF RestartFrom, Moved
  <2>4. /\ plan' \in [Turns -> {"none", "executing", "synthesizing"}]
        /\ route' = [t \in Turns |-> "none"]
        /\ captured' \in [Turns -> SUBSET Turns]
    BY DEF RestartFrom
  <2>5. crashes' \in 0 .. MaxCrashes /\ mission' \in MissionStatus
    BY DEF RestartFrom
  <2>6. /\ activeRun' = NULL /\ kind' = kind /\ drain' \in {"idle", "due"}
        /\ starts' = {} /\ cancelledRuns' = {} /\ cancelling' = FALSE
    BY DEF RestartFrom
  <2> QED
    BY <2>1, <2>2, <2>3, <2>4, <2>5, <2>6
<1>2. RowsAgree' /\ AbsentHasNoRows' /\ OpenedIsClaimed' /\ SteersDoNotRun'
      /\ ReplansAreReplans' /\ RefusedIsClosed'
  BY DEF RestartFrom, Moved
<1>3. CapturedIsFenced' /\ FencedRunsAreQuiet' /\ OnlyOneRuns' /\ CancelledIsQuiet'
  BY DEF RestartFrom, Moved
<1> QED
  BY <1>1, <1>2, <1>3

(* Every step preserves it.                                                *)
LEMMA NextTurnInv == TurnInv /\ [Next]_vars => TurnInv'
<1> SUFFICES ASSUME TurnInv, [Next]_vars
             PROVE  TurnInv'
  OBVIOUS
<1>1. CASE UNCHANGED vars
  BY <1>1 DEF vars, tables, TurnInv, TypeOK, RowsAgree, AbsentHasNoRows, OpenedIsClaimed, SteersDoNotRun,
              ReplansAreReplans, RefusedIsClosed, CapturedIsFenced, FencedRunsAreQuiet, OnlyOneRuns, ActiveRuns,
              CancelledIsQuiet
<1> QED
  BY <1>1, UserKeepsTurnInv, QueueKeepsTurnInv, ReplanKeepsTurnInv, StartKeepsTurnInv,
     PlanKeepsTurnInv, RestartKeepsTurnInv DEF Next, FailureNext

(* In every reachable state the inductive invariant holds. *)
THEOREM TurnInvariant == Spec => []TurnInv
BY InitTurnInv, NextTurnInv, PTL DEF Spec

(* Two runs of a mission are never active at once. *)
LEMMA OnlyOneRunsCounted ==
  ASSUME OnlyOneRuns
  PROVE  OneActiveRun
<1>1. CASE ActiveRuns = {}
  BY <1>1, FS_EmptySet DEF OneActiveRun
<1>2. ASSUME NEW t \in ActiveRuns
      PROVE  OneActiveRun
  <2>1. ActiveRuns = {t}
    BY <1>2 DEF OnlyOneRuns
  <2> QED
    BY <2>1, FS_Singleton DEF OneActiveRun
<1> QED
  BY <1>1, <1>2

(* Through the steps of any number of stop_and_replan messages one run is  *)
(* active at most, the tables agree, and what was fenced stays quiet.      *)
THEOREM ReplanIsSafe == Spec => []ReplanSafety
<1>1. TurnInv => ReplanSafety
  BY OnlyOneRunsCounted DEF TurnInv, ReplanSafety
<1> QED
  BY <1>1, TurnInvariant, PTL

(* No late completion, failed start, cancellation, replan or restart       *)
(* rewrites what has settled.                                              *)
THEOREM SettledStays == Spec => SettledIsFinal
<1> DEFINE Settled(t) == /\ turn[t] \in Terminal => turn'[t] = turn[t]
                         /\ command[t] \in Terminal => command'[t] = command[t]
                         /\ run[t] \in Terminal => run'[t] = run[t]
           Keeps == \A t \in Turns : kind[t] # "steer" /\ route'[t] # "refused" => Settled(t)
<1>1. TurnInv /\ [Next]_vars => [Keeps]_vars
  <2> SUFFICES ASSUME TurnInv, Next, NEW t \in Turns, kind[t] # "steer", route'[t] # "refused"
               PROVE  Settled(t)
    OBVIOUS
  <2> USE DEF TurnInv, TypeOK, RowsAgree, AbsentHasNoRows, OpenedIsClaimed, SteersDoNotRun,
              LiveRun, Unstarted, Terminal, LiveCommand
  <2>1. CASE UserNext
    BY <2>1 DEF UserNext, QueueMessage, SteerMessage, ReplanMessage, StartTurn, RetryTasks, RequestCancel,
                OpenRun, IsNew, Insert, tables
  <2>2. CASE DrainNext
    BY <2>2 DEF DrainNext, DrainStops, ClaimNext, OpenRun, IsNext, tables
  <2>3. CASE CancelMission \/ OrphanPlanEnds
    BY <2>3 DEF CancelMission, OrphanPlanEnds, Moved
  <2>4. CASE FailureNext
    BY <2>4 DEF FailureNext, ReplanStopFails, ReplanRestopFails, CancelStopFails, Restart, RestartFrom,
                Moved, tables
  <2>5. ASSUME NEW u \in Turns, SteerReturns(u) \/ ReplanNext(u)
        PROVE  Settled(t)
    BY <2>5 DEF SteerReturns, ReplanNext, FenceCaptured, AwaitStarts, ReopenMission, Moved, tables
  <2>6. ASSUME NEW u \in Turns, StartNext(u)
        PROVE  Settled(t)
    BY <2>6 DEF StartNext, StartRejected, DecisionFails, Respond, DispatchPlan, RetryDispatched,
                RetryFails, RetryUndone, FailStart, CloseRun, Moved, tables
  <2>7. ASSUME NEW u \in Turns, PlanNext(u)
        PROVE  Settled(t)
    BY <2>7 DEF PlanNext, PlanSucceeds, SynthesisEnds, PlanFails, CloseRun, Moved
  <2> QED
    BY <2>1, <2>2, <2>3, <2>4, <2>5, <2>6, <2>7 DEF Next
<1> QED
  BY <1>1, TurnInvariant, PTL DEF Spec, SettledIsFinal

(* Only a stop_and_replan that ran to its end takes a mission out of its   *)
(* cancellation.                                                           *)
THEOREM CancellationStands == Spec => CancelledStays
<1> DEFINE Keeps == mission = "cancelled" /\ mission' # "cancelled" =>
                      \E t \in Turns : route[t] = "restopping" /\ route'[t] = "served"
<1>1. TurnInv /\ [Next]_vars => [Keeps]_vars
  <2> SUFFICES ASSUME TurnInv, Next, mission = "cancelled", mission' # "cancelled"
               PROVE  \E t \in Turns : route[t] = "restopping" /\ route'[t] = "served"
    OBVIOUS
  <2>1. ASSUME NEW t \in Turns, ReopenMission(t)
        PROVE  route[t] = "restopping" /\ route'[t] = "served"
    BY <2>1 DEF ReopenMission, TurnInv, TypeOK
  <2>2. ~UserNext
    BY DEF UserNext, QueueMessage, SteerMessage, ReplanMessage, StartTurn, RetryTasks, RequestCancel,
           MayRetry, OpenRun, tables
  <2>3. ~(FailureNext \/ DrainNext \/ CancelMission \/ OrphanPlanEnds)
    BY DEF FailureNext, ReplanStopFails, ReplanRestopFails, CancelStopFails, Restart, RestartFrom,
           DrainNext, DrainStops, ClaimNext, OpenRun, CancelMission, OrphanPlanEnds, tables
  <2>4. \A t \in Turns : ~(SteerReturns(t) \/ FenceCaptured(t) \/ AwaitStarts(t))
    BY DEF SteerReturns, FenceCaptured, AwaitStarts, tables
  <2>5. \A t \in Turns : ~(StartNext(t) \/ PlanNext(t))
    BY DEF StartNext, StartRejected, DecisionFails, Respond, DispatchPlan, RetryDispatched, RetryFails,
           RetryUndone, FailStart, PlanNext, PlanSucceeds, SynthesisEnds, PlanFails, Stale, Terminal, tables
  <2> QED
    BY <2>1, <2>2, <2>3, <2>4, <2>5 DEF Next, ReplanNext
<1> QED
  BY <1>1, TurnInvariant, PTL DEF Spec, CancelledStays

(* Together: neither a settled turn nor a cancelled mission is revived. *)
THEOREM VerdictsAlwaysStand == Spec => VerdictsStand
BY SettledStays, CancellationStands, PTL DEF VerdictsStand

-----------------------------------------------------------------------------
(* Without stop_and_replan the mission owns what runs.                     *)

(* No message waits for the sessions of a mission to be stopped. *)
NobodyReplans ==
  \A t \in Turns : route[t] \notin {"stopping", "settling", "restopping", "served", "refused"}

(* Without a stop_and_replan no step detaches the mission from its run. *)
LEMMA NextOwned ==
  ASSUME "stop_and_replan" \notin Deliveries,
         TurnInv, NobodyReplans, RunIsOwned, [Next]_vars
  PROVE  NobodyReplans' /\ RunIsOwned'
<1> DEFINE Owned == \A t \in Turns : run[t] \in LiveRun <=> activeRun = t
<1>0. NULL \notin Turns
  BY DEF Turns
<1>1. Owned
  BY <1>0 DEF RunIsOwned, ActiveRuns, TurnInv, TypeOK
<1> USE <1>0, <1>1 DEF TurnInv, TypeOK, NobodyReplans, RowsAgree, AbsentHasNoRows, LiveRun
<1>2. SUFFICES NobodyReplans' /\ Owned'
  <2>1. TypeOK'
    BY NextTurnInv
  <2>2. activeRun' = NULL \/ activeRun' \in Turns
    BY <2>1
  <2> QED
    BY <2>2 DEF RunIsOwned, ActiveRuns
<1>3. CASE UserNext
  BY <1>3 DEF UserNext, QueueMessage, SteerMessage, ReplanMessage, StartTurn, RetryTasks, RequestCancel,
              MayRetry, ActiveRuns, OpenRun, IsNew, Insert, tables
<1>4. CASE DrainNext
  <2>1. CASE DrainStops
    BY <2>1 DEF DrainStops, tables
  <2>2. ASSUME NEW t \in Turns, ClaimNext(t)
        PROVE  NobodyReplans' /\ Owned'
    BY <2>2 DEF ClaimNext, MayClaim, ActiveRuns, OpenRun
  <2> QED
    BY <1>4, <2>1, <2>2 DEF DrainNext
<1>5. CASE CancelMission \/ OrphanPlanEnds
  <2>1. CASE CancelMission
    BY <2>1 DEF CancelMission, Moved
  <2>2. CASE OrphanPlanEnds
    BY <2>2 DEF OrphanPlanEnds
  <2> QED
    BY <1>5, <2>1, <2>2
<1>6. CASE FailureNext
  <2>1. CASE Restart
    BY <2>1 DEF Restart, RestartFrom, Moved
  <2>2. CASE CancelStopFails
    BY <2>2 DEF CancelStopFails, tables
  <2>3. \A t \in Turns : ~ReplanStopFails(t) /\ ~ReplanRestopFails(t)
    BY DEF ReplanStopFails, ReplanRestopFails
  <2> QED
    BY <1>6, <2>1, <2>2, <2>3 DEF FailureNext
<1>7. ASSUME NEW t \in Turns, SteerReturns(t) \/ ReplanNext(t)
      PROVE  NobodyReplans' /\ Owned'
  BY <1>7 DEF SteerReturns, ReplanNext, FenceCaptured, AwaitStarts, ReopenMission
<1>8. ASSUME NEW t \in Turns, StartNext(t)
      PROVE  NobodyReplans' /\ Owned'
  <2>1. CASE StartRejected(t) \/ RetryUndone(t)
    BY <2>1 DEF StartRejected, RetryUndone, FailStart, Moved
  <2>2. CASE DecisionFails(t) \/ Respond(t)
    BY <2>2 DEF DecisionFails, Respond, FailStart, CloseRun, Moved
  <2>3. CASE DispatchPlan(t) \/ RetryDispatched(t)
    BY <2>3 DEF DispatchPlan, RetryDispatched, Moved
  <2>4. CASE RetryFails(t)
    BY <2>4 DEF RetryFails, tables
  <2> QED
    BY <1>8, <2>1, <2>2, <2>3, <2>4 DEF StartNext
<1>9. ASSUME NEW t \in Turns, PlanNext(t)
      PROVE  NobodyReplans' /\ Owned'
  BY <1>9 DEF PlanNext, PlanSucceeds, SynthesisEnds, PlanFails, CloseRun, Moved
<1>10. CASE UNCHANGED vars
  BY <1>10 DEF vars, tables
<1> QED
  BY <1>3, <1>4, <1>5, <1>6, <1>7, <1>8, <1>9, <1>10 DEF Next

(* As long as nobody stops and replans, the tables agree, the mission owns *)
(* the one run that is active, and a cancelled mission executes nothing.   *)
THEOREM QueueIsSafe ==
  ASSUME "stop_and_replan" \notin Deliveries
  PROVE  Spec => []QueueInv
<1>1. Init => NobodyReplans /\ RunIsOwned
  BY DEF Init, NobodyReplans, RunIsOwned, ActiveRuns, LiveRun
<1>2. TurnInv /\ RunIsOwned => QueueInv
  BY DEF TurnInv, QueueInv
<1>3. TurnInv /\ NobodyReplans /\ RunIsOwned /\ [Next]_vars => NobodyReplans' /\ RunIsOwned'
  BY NextOwned
<1> QED
  BY <1>1, <1>2, <1>3, TurnInvariant, PTL DEF Spec
===============================================================================
