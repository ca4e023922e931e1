---------------------------- MODULE RuntimeSessions ----------------------------
(***************************************************************************)
(* The sessions of the runtime host and the attempts they stand for        *)
(* (services/runtime-host/src: runtime-host.ts and the adapters;           *)
(* services/workspace-manager/src/workspace-manager.ts: task_attempts).    *)
(*                                                                         *)
(* Four things end a session and race for it: what its process reports,    *)
(* the user's stop, the probes of the watchdog and the lease of its        *)
(* attempt.  Each waits for the process to die in the middle.  Database    *)
(* calls do not leave the gateway's process; a launch, a probe and a       *)
(* cancellation do.                                                        *)
(*                                                                         *)
(* Time is counted in intervals of the watchdog.                           *)
(***************************************************************************)
EXTENDS Integers, FiniteSets

CONSTANTS
  Sessions,          \* agent instances; each is launched once, for its own attempt
  Guarded,           \* the sessions whose adapter reports nothing once it was told to cancel
  Timeout,           \* sessionTimeout: how long a heartbeat keeps an attempt
  IdleGrace,         \* sessionIdleGrace: silence before the watchdog probes
  MaxProbeFailures,  \* RuntimeHostConfig.maxProbeFailures
  MaxCrashes         \* bound: how often the gateway dies

ASSUME SessionsAssumption == Guarded \subseteq Sessions
ASSUME TimesAssumption ==
  /\ {Timeout, MaxProbeFailures} \subseteq Nat \ {0} /\ MaxCrashes \in Nat
  /\ IdleGrace \in Nat /\ IdleGrace >= Timeout    \* sessionIdleGraceMs

VARIABLES
  row,        \* task_attempts.status
  lease,      \* task_attempts.lease_expires_at, from now
  launch,     \* how far handleTaskCreated is
  proc,       \* the process of the session
  known,      \* keys of activeSessions
  idle,       \* time since lastProtocolResponseAt
  failures,   \* probeFailures
  finishing,  \* finishingSessions
  marked,     \* cancelledSessions of the adapter
  stopping,   \* the sessions whose stopSession awaits the adapter
  pass,       \* the pass of the watchdog
  due,        \* whether the interval has elapsed
  lost,       \* history: the sessions the watchdog has reported as failed
  crashes     \* how often the gateway has died

attempt == <<row, lease>>
session == <<known, idle, failures, finishing, marked, stopping>>
watchdog == <<pass, due>>
vars == <<attempt, launch, proc, session, watchdog, lost, crashes>>

Active == {"claimed", "running"}
Ended == {"completed", "failed", "cancelled", "expired"}
Alive(s) == proc[s] \in {"working", "waiting"}

NoPass == [phase |-> "none", probing |-> {}, killing |-> {}, expired |-> {}, age |-> 0]

TypeOK ==
  /\ row \in [Sessions -> {"none"} \cup Active \cup Ended]
  /\ lease \in [Sessions -> -1 .. Timeout]
  /\ launch \in [Sessions -> {"none", "claimed", "spawned", "undo", "over"}]
  /\ proc \in [Sessions -> {"none", "working", "waiting", "dead"}]
  /\ idle \in [Sessions -> 0 .. IdleGrace + 1] /\ failures \in [Sessions -> 0 .. MaxProbeFailures]
  /\ \A set \in {known, finishing, marked, stopping, lost} : set \subseteq Sessions
  /\ pass \in [phase : {"none", "sessions", "leases"}, probing : SUBSET Sessions, killing : SUBSET Sessions,
               expired : SUBSET Sessions, age : 0 .. 1]
  /\ due \in BOOLEAN
  /\ crashes \in 0 .. MaxCrashes

Init ==
  /\ row = [s \in Sessions |-> "none"] /\ lease = [s \in Sessions |-> 0]
  /\ launch = [s \in Sessions |-> "none"] /\ proc = [s \in Sessions |-> "none"]
  /\ known = {} /\ idle = [s \in Sessions |-> 0] /\ failures = [s \in Sessions |-> 0]
  /\ finishing = {} /\ marked = {} /\ stopping = {} /\ pass = NoPass /\ due = FALSE
  /\ lost = {} /\ crashes = 0

-----------------------------------------------------------------------------
(* task_attempts: every write but the claim is conditional on the status.  *)

Finish(s, status) ==
  IF row[s] \in Active THEN row' = [row EXCEPT ![s] = status] /\ lease' = [lease EXCEPT ![s] = 0]
  ELSE UNCHANGED attempt

Renewed(S) == [s \in Sessions |-> IF s \in S /\ row[s] \in Active THEN Timeout ELSE lease[s]]
Leave(s) == /\ known' = known \ {s}
            /\ idle' = [idle EXCEPT ![s] = 0] /\ failures' = [failures EXCEPT ![s] = 0]

-----------------------------------------------------------------------------
(* Launching: handleTaskCreated.                                           *)

ClaimAttempt(s) ==
  /\ launch[s] = "none" /\ launch' = [launch EXCEPT ![s] = "claimed"]
  /\ row' = [row EXCEPT ![s] = "claimed"] /\ lease' = [lease EXCEPT ![s] = Timeout]
  /\ UNCHANGED <<proc, session, watchdog, lost, crashes>>

Spawn(s) ==
  /\ launch[s] = "claimed" /\ launch' = [launch EXCEPT ![s] = "spawned"]
  /\ proc' = [proc EXCEPT ![s] = "working"]
  /\ UNCHANGED <<attempt, session, watchdog, lost, crashes>>

SpawnFails(s) ==
  /\ launch[s] = "claimed" /\ launch' = [launch EXCEPT ![s] = "over"]
  /\ Finish(s, "failed")
  /\ UNCHANGED <<proc, session, watchdog, lost, crashes>>

(* Mutated form: nobody asks whether the attempt is still there.           *)
RegisterUnasked(s) ==
  /\ launch[s] = "spawned" /\ launch' = [launch EXCEPT ![s] = "over"]
  /\ row' = [row EXCEPT ![s] = IF @ = "claimed" THEN "running" ELSE @]
  /\ lease' = [lease EXCEPT ![s] = Timeout]
  /\ known' = known \cup {s} /\ idle' = [idle EXCEPT ![s] = 0] /\ failures' = [failures EXCEPT ![s] = 0]
  /\ UNCHANGED <<marked, proc, finishing, stopping, watchdog, lost, crashes>>

(* markTaskAttemptRunning, then the session is entered; an attempt that    *)
(* has expired meanwhile gives its process back.                           *)
Register(s) ==
  /\ launch[s] = "spawned"
  /\ IF row[s] = "claimed"
     THEN /\ launch' = [launch EXCEPT ![s] = "over"]
          /\ row' = [row EXCEPT ![s] = "running"] /\ lease' = [lease EXCEPT ![s] = Timeout]
          /\ known' = known \cup {s} /\ idle' = [idle EXCEPT ![s] = 0] /\ failures' = [failures EXCEPT ![s] = 0]
          /\ UNCHANGED marked
     ELSE /\ launch' = [launch EXCEPT ![s] = "undo"] /\ marked' = marked \cup {s}
          /\ UNCHANGED <<attempt, known, idle, failures>>
  /\ UNCHANGED <<proc, finishing, stopping, watchdog, lost, crashes>>

(* The cancellation may fail: its error is dropped.                        *)
LaunchUndone(s) ==
  /\ launch[s] = "undo" /\ launch' = [launch EXCEPT ![s] = "over"]
  /\ UNCHANGED <<attempt, proc, session, watchdog, lost, crashes>>

-----------------------------------------------------------------------------
(* What the process does and the adapter publishes.                        *)

(* Any event of a known session is a sign of life; a guarded adapter reads *)
(* nothing from a session it has cancelled.                                *)
SignOfLife(s) ==
  IF s \in known /\ (s \notin Guarded \/ s \notin marked)
  THEN /\ idle' = [idle EXCEPT ![s] = 0] /\ failures' = [failures EXCEPT ![s] = 0]
       /\ lease' = Renewed({s})
  ELSE UNCHANGED <<idle, failures, lease>>

Progress(s) ==
  /\ Alive(s) /\ \E to \in {"working", "waiting"} : proc' = [proc EXCEPT ![s] = to]
  /\ SignOfLife(s)
  /\ UNCHANGED <<row, launch, known, finishing, marked, stopping, watchdog, lost, crashes>>

(* The listeners of task_completed and task_failed; a session that is      *)
(* being finished is left alone.                                           *)
Report(s, what) == IF s \in known \ finishing THEN Finish(s, what) /\ Leave(s)
                   ELSE UNCHANGED <<attempt, known, idle, failures>>

Silenced(s) == s \in Guarded /\ s \in marked

(* The close handler, which also forgets the cancellation.                 *)
Exit(s) == proc' = [proc EXCEPT ![s] = "dead"] /\ marked' = marked \ {s}

(* A result is taken for the end of its process.                           *)
ProcessReports(s) ==
  /\ proc[s] = "working" /\ Exit(s)
  /\ IF Silenced(s) THEN UNCHANGED <<attempt, known, idle, failures>>
     ELSE \E what \in {"completed", "failed"} : Report(s, what)
  /\ UNCHANGED <<launch, finishing, stopping, watchdog, lost, crashes>>

(* A process that ends well without a result is reported by the guarded    *)
(* adapters only.                                                          *)
ProcessVanishes(s) ==
  /\ Alive(s) /\ s \notin Guarded /\ Exit(s)
  /\ UNCHANGED <<attempt, launch, known, idle, failures, finishing, stopping, watchdog, lost, crashes>>

(* adapter.cancel: the kill arrives; an adapter without a guard takes the  *)
(* exit for a failure, if it still knows the session.                      *)
Killed(s) ==
  /\ Alive(s) /\ s \in marked /\ Exit(s)
  /\ \/ UNCHANGED <<attempt, known, idle, failures>>
     \/ ~Silenced(s) /\ Report(s, "failed")
  /\ UNCHANGED <<launch, finishing, stopping, watchdog, lost, crashes>>

-----------------------------------------------------------------------------
(* stopSession: of stopMission, stopAll.                                   *)

BeginStop(s) ==
  /\ s \in known /\ s \notin stopping /\ stopping' = stopping \cup {s} /\ marked' = marked \cup {s}
  /\ UNCHANGED <<attempt, launch, proc, known, idle, failures, finishing, watchdog, lost, crashes>>

EndStop(s) ==
  /\ s \in stopping /\ ~Alive(s) /\ stopping' = stopping \ {s}
  /\ Finish(s, "cancelled") /\ Leave(s)
  /\ UNCHANGED <<launch, proc, finishing, marked, watchdog, lost, crashes>>

(* The cancellation is not confirmed: the session stays as it is.          *)
StopFails(s) ==
  /\ s \in stopping /\ Alive(s) /\ stopping' = stopping \ {s}
  /\ UNCHANGED <<attempt, launch, proc, known, idle, failures, finishing, marked, watchdog, lost, crashes>>

-----------------------------------------------------------------------------
(* The watchdog.                                                           *)

(* An interval elapses; one that finds the last pass at work is skipped.   *)
(* Timing assumption: a pass takes less than two intervals.                *)
Tick ==
  /\ ~due /\ pass.age = 0
  /\ lease' = [s \in Sessions |-> IF row[s] \in Active /\ lease[s] >= 0 THEN lease[s] - 1 ELSE lease[s]]
  /\ idle' = [s \in Sessions |-> IF idle[s] > IdleGrace \/ s \notin known THEN idle[s] ELSE idle[s] + 1]
  /\ IF pass = NoPass THEN due' = TRUE /\ UNCHANGED pass
     ELSE pass' = [pass EXCEPT !.age = 1] /\ UNCHANGED due
  /\ UNCHANGED <<row, launch, proc, known, failures, finishing, marked, stopping, lost, crashes>>

Watched == {s \in known \ finishing : Alive(s)}
Waiting == {s \in Watched : proc[s] = "waiting"}
Fresh == {s \in Watched : idle[s] <= IdleGrace}

(* Mutated form: a session that waits for the user counts as silent.       *)
BeginPassImpatient ==
  /\ due /\ due' = FALSE
  /\ pass' = [NoPass EXCEPT !.phase = "sessions", !.probing = Watched \ Fresh]
  /\ lease' = Renewed(Fresh)
  /\ UNCHANGED <<row, launch, proc, known, idle, failures, finishing, marked, stopping, lost, crashes>>

BeginPass ==
  /\ due /\ due' = FALSE
  /\ pass' = [NoPass EXCEPT !.phase = "sessions", !.probing = Watched \ (Waiting \cup Fresh)]
  /\ idle' = [s \in Sessions |-> IF s \in Waiting THEN 0 ELSE idle[s]]
  /\ failures' = [s \in Sessions |-> IF s \in Waiting THEN 0 ELSE failures[s]]
  /\ lease' = Renewed(Waiting \cup Fresh)
  /\ UNCHANGED <<row, launch, proc, known, finishing, marked, stopping, lost, crashes>>

ProbeAnswers(s) ==
  /\ s \in pass.probing /\ Alive(s) /\ pass' = [pass EXCEPT !.probing = @ \ {s}]
  /\ idle' = [idle EXCEPT ![s] = 0] /\ failures' = [failures EXCEPT ![s] = 0] /\ lease' = Renewed({s})
  /\ UNCHANGED <<row, launch, proc, known, finishing, marked, stopping, due, lost, crashes>>

GivesUp(count) == count >= MaxProbeFailures

ProbeFails(s) ==
  /\ s \in pass.probing
  /\ failures' = [failures EXCEPT ![s] = IF @ < MaxProbeFailures THEN @ + 1 ELSE @]
  /\ IF GivesUp(failures'[s])
     THEN /\ finishing' = finishing \cup {s} /\ marked' = marked \cup {s}
          /\ pass' = [pass EXCEPT !.probing = @ \ {s}, !.killing = @ \cup {s}]
     ELSE pass' = [pass EXCEPT !.probing = @ \ {s}] /\ UNCHANGED <<finishing, marked>>
  /\ UNCHANGED <<attempt, launch, proc, known, idle, stopping, due, lost, crashes>>

(* The process is killed, or its cancellation failed, which is ignored.    *)
ProbeExpires(s) ==
  /\ s \in pass.killing /\ pass' = [pass EXCEPT !.killing = @ \ {s}]
  /\ Finish(s, "expired") /\ Leave(s) /\ finishing' = finishing \ {s}
  /\ lost' = IF row[s] \in Active THEN lost \cup {s} ELSE lost
  /\ UNCHANGED <<launch, proc, marked, stopping, due, crashes>>

(* expireStaleTaskAttempts, with the time at which the pass began.         *)
ExpireStale ==
  /\ pass.phase = "sessions" /\ pass.probing = {} /\ pass.killing = {}
  /\ LET stale == {s \in Sessions : row[s] \in Active /\ lease[s] + pass.age <= 0} IN
       /\ row' = [s \in Sessions |-> IF s \in stale THEN "expired" ELSE row[s]]
       /\ lease' = [s \in Sessions |-> IF s \in stale THEN 0 ELSE lease[s]]
       /\ pass' = [pass EXCEPT !.phase = "leases", !.expired = stale]
       /\ marked' = marked \cup {s \in stale : s \in known \ finishing}
  /\ UNCHANGED <<launch, proc, known, idle, failures, finishing, stopping, due, lost, crashes>>

ReportStale(s) ==
  /\ s \in pass.expired /\ pass' = [pass EXCEPT !.expired = @ \ {s}]
  /\ IF s \in finishing THEN UNCHANGED <<known, idle, failures>> ELSE Leave(s)
  /\ lost' = lost \cup {s}
  /\ UNCHANGED <<attempt, launch, proc, finishing, marked, stopping, due, crashes>>

(* Mutated form: watchdogRunning is not reset.                             *)
EndPassForgotten == pass.phase = "leases" /\ pass.expired = {} /\ UNCHANGED vars

EndPass ==
  /\ pass.phase = "leases" /\ pass.expired = {} /\ pass' = NoPass
  /\ UNCHANGED <<attempt, launch, proc, session, due, lost, crashes>>

-----------------------------------------------------------------------------
(* The gateway dies with its processes; reconcileStartup expires what they *)
(* have left.                                                              *)
Restart ==
  /\ crashes < MaxCrashes /\ crashes' = crashes + 1
  /\ row' = [s \in Sessions |-> IF row[s] \in Active THEN "expired" ELSE row[s]]
  /\ lease' = [s \in Sessions |-> IF row[s] \in Active THEN 0 ELSE lease[s]]
  /\ launch' = [s \in Sessions |-> IF launch[s] = "none" THEN "none" ELSE "over"]
  /\ proc' = [s \in Sessions |-> IF Alive(s) THEN "dead" ELSE proc[s]]
  /\ known' = {} /\ finishing' = {} /\ marked' = {} /\ stopping' = {} /\ pass' = NoPass /\ due' = FALSE
  /\ idle' = [s \in Sessions |-> 0] /\ failures' = [s \in Sessions |-> 0]
  /\ UNCHANGED lost

LaunchStep(s) == Spawn(s) \/ SpawnFails(s) \/ Register(s) \/ LaunchUndone(s)
ProcessStep(s) == Progress(s) \/ ProcessReports(s) \/ ProcessVanishes(s)
StopStep(s) == EndStop(s) \/ StopFails(s)
WatchdogStep == \/ BeginPass \/ ExpireStale \/ EndPass
                \/ \E s \in Sessions : ProbeAnswers(s) \/ ProbeFails(s) \/ ProbeExpires(s) \/ ReportStale(s)

Next == \/ \E s \in Sessions : \/ ClaimAttempt(s) \/ LaunchStep(s) \/ ProcessStep(s)
                               \/ Killed(s) \/ BeginStop(s) \/ StopStep(s)
        \/ Tick \/ WatchdogStep \/ Restart

Spec == Init /\ [][Next]_vars

-----------------------------------------------------------------------------
(* Properties.                                                             *)

(* Whoever ends an attempt first has the last word.                        *)
VerdictIsFinal == [][\A s \in Sessions : row[s] \in Ended => row'[s] = row[s]]_vars

(* The watchdog reports a session as lost only if it was the one that      *)
(* ended the attempt: no completed attempt is retried.                     *)
LossIsReal == \A s \in Sessions : s \in lost => row[s] = "expired"

(* While the gateway lives, a session that waits for an answer of the user *)
(* is neither given up nor expired, however long the user takes and        *)
(* however its probes overlap with the question; one that the adapter has  *)
(* been told to cancel is out of this.                                     *)
WaitingIsNotExpired ==
  [][\A s \in known \ marked : proc[s] = "waiting" /\ row[s] = "running" /\ crashes' = crashes
       => row'[s] # "expired" /\ s \notin finishing' \ finishing]_vars

(* The lease takes only sessions that are gone: one whose process lives is *)
(* heard or probed, and ends through its probes, before its lease is over. *)
LeaseTakesTheDead ==
  [][\A s \in Sessions : s \in known /\ Alive(s) /\ row[s] \in Active /\ row'[s] = "expired"
       => s \in finishing \/ s \in marked \/ crashes' # crashes]_vars

(* No process works on for an attempt that has ended, unless the adapter   *)
(* was told to cancel it or the launch has still to look at the attempt.   *)
NoStrayProcess ==
  \A s \in Sessions : Alive(s) /\ row[s] \in Ended => s \in marked \/ launch[s] = "spawned"

(* A stop of the user ends the attempt as cancelled, never as a failure    *)
(* that would be retried, for an adapter that keeps quiet.                 *)
StopIsNoFailure ==
  [][\A s \in Guarded : s \in stopping /\ row[s] \in Active => row'[s] \notin {"completed", "failed"}]_vars

(* Whoever ends an attempt has the last word and a reason: neither         *)
(* waiting, nor a live process, nor a stop counts as a failure.            *)
EndingsAreJust == VerdictIsFinal /\ WaitingIsNotExpired /\ LeaseTakesTheDead /\ StopIsNoFailure

(* An attempt does not stay open when its session is dead or has fallen    *)
(* silent.                                                                 *)
NothingHangs ==
  \A s \in Sessions : []<>(row[s] \notin Active \/ (Alive(s) /\ idle[s] = 0))

(* The variables have their types, what is reported lost is lost, and no   *)
(* process is left over.                                                   *)
SessionInv == TypeOK /\ LossIsReal /\ NoStrayProcess

(* The inductive strengthening of the invariants above.  An attempt is     *)
(* open only while its launch goes on or its session is known, and nobody  *)
(* stops or probes a session before its launch is over.                    *)
LaunchesAreTrue ==
  \A s \in Sessions :
    /\ launch[s] = "none" => row[s] = "none"
    /\ launch[s] \in {"none", "claimed"} => proc[s] = "none"
    /\ row[s] = "claimed" => launch[s] \in {"claimed", "spawned"}
    /\ row[s] = "running" => s \in known
    /\ s \in known \cup stopping \cup pass.probing \cup pass.killing => launch[s] = "over"

(* One pass at a time; it finishes what it kills, before it takes the      *)
(* leases, and takes only what it has expired.                             *)
PassIsTrue ==
  /\ finishing = pass.killing /\ (due => pass = NoPass)
  /\ pass.phase # "sessions" => pass.probing = {} /\ pass.killing = {}
  /\ \A s \in pass.expired : row[s] = "expired"

(* Whoever waits for a session to die has told its adapter.                *)
CancelsAreTold == \A s \in finishing \cup stopping : Alive(s) => s \in marked

(* The last failure a session is allowed ends it; a question asked during  *)
(* a probe has cleared the failures before.                                *)
FailuresAreCounted ==
  \A s \in known \ finishing :
    /\ failures[s] < MaxProbeFailures
    /\ s \notin marked /\ proc[s] = "waiting" /\ s \in pass.probing => failures[s] = 0

(* How many intervals may have elapsed since a session was last seen to:   *)
(* two between one pass and the next, of which the first fell into it.     *)
Unseen(s) == IF due \/ s \in pass.probing THEN 2 ELSE IF pass = NoPass THEN 1 ELSE 0

(* The lease of a live session shrinks by what its failed probes took.     *)
LeaseIsAhead ==
  \A s \in known \ (marked \cup finishing) :
    Alive(s) /\ row[s] = "running" => lease[s] + pass.age + Unseen(s) >= Timeout - 2 * failures[s]

SessionIInv == SessionInv /\ LaunchesAreTrue /\ PassIsTrue /\ CancelsAreTold /\ FailuresAreCounted /\ LeaseIsAhead

(* What the configuration must grant for a live session to keep its lease: *)
(* more than one probe, and a lease that outlasts those that may fail.     *)
Patient == MaxProbeFailures > 1 /\ Timeout > 2 * (MaxProbeFailures - 1)
=============================================================================
