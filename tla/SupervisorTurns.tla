---------------------------- MODULE SupervisorTurns ----------------------------
(***************************************************************************)
(* The turns of the orchestrator's own agent in one conversation           *)
(* (services/runtime-host/src/runtime-host-v2.ts).                         *)
(*                                                                         *)
(* A turn routes, takes over or gives up the session that the turn before  *)
(* it has left, spawns, and waits for a result, for an answer of the user  *)
(* or for its timeout.  Stops of the mission and the eviction of an idle   *)
(* session run beside it; each waits for processes to die.                 *)
(*                                                                         *)
(* A result that is rejected while its turn still spawns has no handler    *)
(* yet: the rejection ends the gateway's process.                          *)
(*                                                                         *)
(* An adapter bears the name of the turn that created it; so does the      *)
(* session that is kept of it.                                             *)
(***************************************************************************)
EXTENDS Naturals, FiniteSets

CONSTANTS
  MaxSupervisorTurns,  \* bound: turns of the conversation
  Stops,               \* calls of stopMission; one that fails may be repeated
  MaxCalls,            \* bound: turns and stops altogether
  Nobody               \* no session, no adapter

ASSUME SupervisorAssumption == {MaxSupervisorTurns, MaxCalls} \subseteq Nat /\ Nobody \notin Nat

Turns == 1 .. MaxSupervisorTurns

VARIABLES
  pc,         \* where a turn is in runSupervisorTurn
  ad,         \* the adapter a turn works with
  reuses,     \* the adapters with reuseWhileAlive
  keeps,      \* the turns with a session that outlives them (continuity)
  mapped,     \* supervisorSessions.get(missionId)
  busy,       \* the sessions with busy set
  timer,      \* the sessions with an evictionTimer
  evicting,   \* the sessions that evictions are discarding
  up,         \* the adapters with a live process
  active,     \* activeSupervisorTurns.get(missionId)
  armed,      \* the turns whose timeout is armed
  pending,    \* pendingSupervisorShutdowns.get(missionId)
  stop,       \* the calls of stopMission: where each is and what it shuts down
  cancelled,  \* history: turns in progress when a stop had succeeded
  forgotten,       \* history: adapters that were given up with a live process
  alive       \* whether the gateway runs

sessions == <<mapped, busy, timer, evicting>>
turns == <<pc, ad, reuses, keeps, active, armed>>
supervisorVars ==
  <<turns, sessions, up, pending, stop, cancelled, forgotten, alive>>

Routing == {"routing", "probing", "discarding", "resuming"}
Running == {"spawning", "talking", "asking"}
InProgress(t) == pc[t] \in Routing \cup Running \cup {"closing"}
Calls == Cardinality({t \in Turns : pc[t] # "idle"}) + Cardinality({s \in Stops : stop[s].phase # "idle"})
NoStop == [phase |-> "idle", adapters |-> {}]

SupervisorTypeOK ==
  /\ pc \in [Turns -> {"idle", "closing", "over"} \cup Routing \cup Running]
  /\ ad \in [Turns -> Turns \cup {Nobody}] /\ mapped \in Turns \cup {Nobody}
  /\ \A set \in {reuses, keeps, busy, timer, evicting, up, active, armed, pending, cancelled, forgotten} : set \subseteq Turns
  /\ stop \in [Stops -> [phase : {"idle", "turns", "session", "failed", "over"}, adapters : SUBSET Turns]]
  /\ alive \in BOOLEAN

SupervisorInit ==
  /\ pc = [t \in Turns |-> "idle"] /\ ad = [t \in Turns |-> Nobody] 
  /\ mapped = Nobody /\ stop = [s \in Stops |-> NoStop] /\ alive = TRUE
  /\ reuses = {} /\ keeps = {} /\ busy = {} /\ timer = {} /\ evicting = {} /\ up = {} /\ active = {} /\ armed = {}
  /\ pending = {} /\ cancelled = {} /\ forgotten = {}

At(t, where) == alive /\ pc[t] = where
Goto(t, where) == pc' = [pc EXCEPT ![t] = where]

(* Replacing the session that is mapped gives up the old one.              *)
Map(x) == mapped' = x /\ forgotten' = forgotten \cup (({mapped} \ {x, Nobody}) \cap up)
Unmap(x) == mapped' = IF mapped = x THEN Nobody ELSE mapped

(* Shutting an adapter down with its error ignored.                        *)
ShutDownAnyway(x) == \/ up' = up \ {x} /\ UNCHANGED forgotten
                     \/ x \in up /\ forgotten' = forgotten \cup {x} /\ UNCHANGED up

GatewayDies == alive' = FALSE /\ UNCHANGED <<sessions, turns, up, pending, stop, cancelled, forgotten>>

-----------------------------------------------------------------------------
(* From the request to the spawn.                                          *)

(* The gateway starts a turn when the one before is over or was cancelled. *)
StartTurn(t) ==
  /\ At(t, "idle") /\ Calls < MaxCalls
  /\ \A u \in Turns : (u < t => pc[u] # "idle") /\ (InProgress(u) => u \in cancelled)
  /\ Goto(t, "routing") /\ reuses' \in {reuses, reuses \cup {t}}
  /\ UNCHANGED <<ad, keeps, sessions, active, armed, up, pending, stop, cancelled, forgotten, alive>>

(* The turn enters activeSupervisorTurns with the adapter it works with.   *)
Enter(t, x) ==
  /\ Goto(t, "spawning") /\ ad' = [ad EXCEPT ![t] = x]
  /\ active' = active \cup {t} /\ armed' = armed \cup {t}

EnterFresh(t) == Enter(t, t) /\ UNCHANGED <<keeps, mapped, busy, forgotten>>
EnterWith(t, x) == Enter(t, x) /\ keeps' = keeps \cup {t} /\ busy' = busy \cup {x}

(* No route, or a session that is in use, ends the turn.                   *)
RouteFails(t) ==
  /\ At(t, "routing") /\ Goto(t, "over")
  /\ UNCHANGED <<ad, reuses, keeps, sessions, active, armed, up, pending, stop, cancelled, forgotten, alive>>

(* A session of another route or profile is discarded, the same is probed. *)
TakeSession(t) ==
  /\ At(t, "routing") /\ mapped # Nobody /\ mapped \notin busy
  /\ \E next \in {"probing", "discarding"} : Goto(t, next)
  /\ ad' = [ad EXCEPT ![t] = mapped]
  /\ timer' = IF pc'[t] = "discarding" THEN timer \ {mapped} ELSE timer
  /\ UNCHANGED <<reuses, keeps, mapped, busy, evicting, active, armed, up, pending, stop, cancelled, forgotten, alive>>

(* Without a session the turn starts afresh, or asks the provider for the  *)
(* one an earlier life of the gateway has saved.                           *)
StartFresh(t) ==
  /\ At(t, "routing") /\ mapped = Nobody
  /\ \/ EnterFresh(t)
     \/ /\ t \in reuses /\ Goto(t, "resuming") /\ ad' = [ad EXCEPT ![t] = t]
        /\ UNCHANGED <<active, armed, keeps, mapped, busy, forgotten>>
  /\ UNCHANGED <<reuses, timer, evicting, up, pending, stop, cancelled, alive>>

(* Nothing is read again after the probe.                                  *)
SessionAnswers(t) ==
  /\ At(t, "probing") /\ ad[t] \in up /\ EnterWith(t, ad[t])
  /\ UNCHANGED <<reuses, mapped, timer, evicting, up, pending, stop, cancelled, forgotten, alive>>

(* discardSupervisorSession looks the session up anew.                     *)
SessionGone(t) ==
  /\ At(t, "probing")
  /\ IF mapped = Nobody
     THEN EnterFresh(t) /\ UNCHANGED timer
     ELSE /\ Goto(t, "discarding") /\ ad' = [ad EXCEPT ![t] = mapped] /\ timer' = timer \ {mapped}
          /\ UNCHANGED <<active, armed, keeps, mapped, busy, forgotten>>
  /\ UNCHANGED <<reuses, evicting, up, pending, stop, cancelled, alive>>

Discarded(t) ==
  /\ At(t, "discarding") /\ Enter(t, t) /\ ShutDownAnyway(ad[t]) /\ Unmap(ad[t]) /\ UNCHANGED timer
  /\ UNCHANGED <<reuses, keeps, busy, evicting, pending, stop, cancelled, alive>>

(* The probe starts the provider's server, whatever it finds there.        *)
Resumed(t) ==
  /\ At(t, "resuming") /\ up' = up \cup {t}
  /\ \/ EnterWith(t, t) /\ Map(t)
     \/ EnterFresh(t)
  /\ UNCHANGED <<reuses, timer, evicting, pending, stop, cancelled, alive>>

-----------------------------------------------------------------------------
(* The spawn, the conversation with the provider and the end.              *)

ProcessStarts(t) ==
  /\ At(t, "spawning") /\ ad[t] \notin up /\ up' = up \cup {ad[t]}
  /\ UNCHANGED <<sessions, turns, pending, stop, cancelled, forgotten, alive>>

(* Mutated form: the session stays busy when its turn is over.             *)
FinallyBusy(S) ==
  /\ pc' = [t \in Turns |-> IF t \notin S THEN pc[t] ELSE IF t \in keeps THEN "over" ELSE "closing"]
  /\ ad' = [t \in Turns |-> IF t \in S \cap keeps THEN Nobody ELSE ad[t]]
  /\ keeps' = keeps \ S /\ active' = active \ S /\ armed' = armed \ S
  /\ timer' = timer \cup {ad[t] : t \in S \cap keeps} /\ UNCHANGED <<busy, forgotten>>

(* The finally block of turns that end together: a session that is kept is *)
(* free and its eviction due, any other adapter is shut down.              *)
Finally(S) ==
  /\ pc' = [t \in Turns |-> IF t \notin S THEN pc[t] ELSE IF t \in keeps THEN "over" ELSE "closing"]
  /\ ad' = [t \in Turns |-> IF t \in S \cap keeps THEN Nobody ELSE ad[t]]
  /\ keeps' = keeps \ S /\ active' = active \ S /\ armed' = armed \ S
  /\ busy' = busy \ {ad[t] : t \in S \cap keeps}
  /\ timer' = timer \cup {ad[t] : t \in S \cap keeps}
  /\ forgotten' = forgotten \cup (({ad[t] : t \in S \cap keeps} \ {mapped}) \cap up)

Spawned(t) ==
  /\ At(t, "spawning") /\ ad[t] \in up /\ Goto(t, "talking")
  /\ IF ad[t] \in reuses
     THEN Map(ad[t]) /\ keeps' = keeps \cup {t} /\ busy' = IF t \in keeps THEN busy ELSE busy \cup {ad[t]}
     ELSE UNCHANGED <<keeps, mapped, busy, forgotten>>
  /\ UNCHANGED <<ad, reuses, active, armed, timer, evicting, up, pending, stop, cancelled, alive>>

(* spawnAgent throws, or the result is in: task_completed, task_failed.    *)
TurnEnds(t) ==
  /\ \E where \in {"spawning", "talking", "asking"} : At(t, where)
  /\ Finally({t})
  /\ UNCHANGED <<reuses, mapped, evicting, up, pending, stop, cancelled, alive>>

(* The event stream of a reusable adapter fails while it spawns.           *)
StreamFails(t) == At(t, "spawning") /\ ad[t] \in reuses \cap up /\ GatewayDies

TimesOut(t) ==
  /\ t \in armed
  /\ \/ At(t, "spawning") /\ GatewayDies
     \/ /\ At(t, "talking") /\ Finally({t})
        /\ UNCHANGED <<reuses, mapped, evicting, up, pending, stop, cancelled, alive>>

(* While the user is asked the timeout is suspended.                       *)
Asks(t) ==
  /\ At(t, "talking") /\ ad[t] \in reuses \cap up /\ Goto(t, "asking") /\ armed' = armed \ {t}
  /\ UNCHANGED <<ad, reuses, keeps, active, sessions, up, pending, stop, cancelled, forgotten, alive>>

(* Mutated form: the answer does not arm the timeout again.                *)
AnsweredUntimed(t) ==
  /\ At(t, "asking") /\ Goto(t, "talking") /\ UNCHANGED armed
  /\ UNCHANGED <<ad, reuses, keeps, active, sessions, up, pending, stop, cancelled, forgotten, alive>>

Answered(t) ==
  /\ At(t, "asking") /\ Goto(t, "talking") /\ armed' = armed \cup {t}
  /\ UNCHANGED <<ad, reuses, keeps, active, sessions, up, pending, stop, cancelled, forgotten, alive>>

Closed(t) ==
  /\ At(t, "closing") /\ Goto(t, "over") /\ ad' = [ad EXCEPT ![t] = Nobody] /\ ShutDownAnyway(ad[t])
  /\ UNCHANGED <<reuses, keeps, active, armed, sessions, pending, stop, cancelled, alive>>

-----------------------------------------------------------------------------
(* Eviction: the timer is the one of a session, what it discards is the    *)
(* session that is mapped.                                                 *)

EvictionDue(x) ==
  /\ alive /\ x \in timer
  /\ IF x \in busy \/ mapped = Nobody THEN timer' = timer \ {x} /\ UNCHANGED evicting
     ELSE timer' = timer \ {x, mapped} /\ evicting' = evicting \cup {mapped}
  /\ UNCHANGED <<turns, mapped, busy, up, pending, stop, cancelled, forgotten, alive>>

Evicted(x) ==
  /\ alive /\ x \in evicting /\ evicting' = evicting \ {x} /\ ShutDownAnyway(x) /\ Unmap(x)
  /\ UNCHANGED <<turns, busy, timer, pending, stop, cancelled, alive>>

-----------------------------------------------------------------------------
(* stopMission without a run.                                              *)

SetStop(s, phase, adapters) == stop' = [stop EXCEPT ![s] = [phase |-> phase, adapters |-> adapters]]

(* discardSupervisorSession, which here must succeed.                      *)
StopSession(s) ==
  IF mapped = Nobody
  THEN SetStop(s, "over", {}) /\ cancelled' = {t \in Turns : InProgress(t)} /\ UNCHANGED timer
  ELSE SetStop(s, "session", {mapped}) /\ timer' = timer \ {mapped} /\ UNCHANGED cancelled

(* The turns are cancelled at once, the adapters shut down together.       *)
StopMission(s) ==
  /\ alive /\ stop[s].phase \in {"idle", "failed"} /\ (stop[s].phase = "idle" => Calls < MaxCalls)
  /\ LET adapters == {ad[t] : t \in active} \cup pending IN
       IF adapters = {}
       THEN StopSession(s) /\ UNCHANGED <<turns, busy, evicting, mapped, up, pending, forgotten, alive>>
       ELSE IF \E t \in active : pc[t] = "spawning" THEN GatewayDies
       ELSE /\ SetStop(s, "turns", adapters) /\ Finally(active)
            /\ UNCHANGED <<reuses, mapped, evicting, up, pending, cancelled, alive>>

(* Mutated form: what could not be shut down is not retained.              *)
TurnsNotStoppedForgotten(s) ==
  /\ alive /\ stop[s].phase = "turns"
  /\ \E failed \in SUBSET (stop[s].adapters \cap up) \ {{}} : up' = up \ (stop[s].adapters \ failed)
  /\ SetStop(s, "failed", {}) /\ UNCHANGED pending
  /\ UNCHANGED <<turns, sessions, cancelled, forgotten, alive>>

(* What could not be shut down is retained for the next call; what another *)
(* call has retained meanwhile is replaced.                                *)
TurnsNotStopped(s) ==
  /\ alive /\ stop[s].phase = "turns"
  /\ \E failed \in SUBSET (stop[s].adapters \cap up) \ {{}} :
       /\ up' = up \ (stop[s].adapters \ failed)
       /\ pending' = failed /\ forgotten' = forgotten \cup ((pending \ failed) \cap up')
  /\ SetStop(s, "failed", {})
  /\ UNCHANGED <<turns, sessions, cancelled, alive>>

(* Turns that have been registered meanwhile are dropped with the others.  *)
TurnsStopped(s) ==
  /\ alive /\ stop[s].phase = "turns"
  /\ up' = up \ stop[s].adapters
  /\ pending' = {} /\ forgotten' = forgotten \cup (pending \cap up') /\ active' = {}
  /\ StopSession(s)
  /\ UNCHANGED <<pc, ad, reuses, keeps, armed, mapped, busy, evicting, alive>>

SessionNotStopped(s) ==
  /\ alive /\ stop[s].phase = "session" /\ stop[s].adapters \cap up # {} /\ SetStop(s, "failed", {})
  /\ UNCHANGED <<turns, sessions, up, pending, cancelled, forgotten, alive>>

SessionStopped(s) ==
  /\ alive /\ stop[s].phase = "session" /\ SetStop(s, "over", {})
  /\ up' = up \ stop[s].adapters /\ (\A x \in stop[s].adapters : Unmap(x))
  /\ cancelled' = {t \in Turns : InProgress(t)}
  /\ UNCHANGED <<turns, busy, timer, evicting, pending, forgotten, alive>>

-----------------------------------------------------------------------------
Route(t) == RouteFails(t) \/ TakeSession(t) \/ StartFresh(t)
Probe(t) == SessionAnswers(t) \/ SessionGone(t) \/ Discarded(t) \/ Resumed(t)
HostStep(t) == Route(t) \/ Probe(t) \/ Closed(t) \/ TimesOut(t)
SpawnStep(t) == Spawned(t) \/ TurnEnds(t) \/ StreamFails(t)
StopMissionStep(s) == TurnsNotStopped(s) \/ TurnsStopped(s) \/ SessionNotStopped(s) \/ SessionStopped(s)

SupervisorNext ==
  \/ \E t \in Turns : \/ StartTurn(t) \/ HostStep(t) \/ ProcessStarts(t) \/ SpawnStep(t)
                      \/ Asks(t) \/ Answered(t) \/ EvictionDue(t) \/ Evicted(t)
  \/ \E s \in Stops : StopMission(s) \/ StopMissionStep(s)

-----------------------------------------------------------------------------
(* Properties.                                                             *)

(* A conversation does not stay closed: when its session is busy, and each *)
(* new turn is refused, a turn is at work that will set it free.           *)
BusyIsReleased ==
  mapped \in busy => \E t \in Turns : pc[t] \in Running /\ ad[t] = mapped /\ t \in keeps

(* What the runtime host can still shut down.                              *)
Held(x) == \/ x = mapped \/ x \in pending \cup evicting
           \/ \E t \in Turns : InProgress(t) /\ ad[t] = x
           \/ \E s \in Stops : x \in stop[s].adapters

(* No live process of a provider drops out of all the books, through       *)
(* failing shutdowns, retried stops and sessions that change hands, but in *)
(* the ways that forgotten records: a shutdown whose error the code        *)
(* ignores, a session replaced or evicted under a turn, and a stop that    *)
(* overwrites what a parallel one has retained.                            *)
NoProcessIsForgotten == \A x \in up \ forgotten : Held(x)

(* The variables have their types, sessions are set free and processes are *)
(* in the books.                                                           *)
SupervisorSafety == SupervisorTypeOK /\ BusyIsReleased /\ NoProcessIsForgotten

(* The inductive strengthening of the invariants above.  A turn has an     *)
(* adapter from its probe to its end, and is registered only while it      *)
(* spawns or talks; a stop holds adapters only while it shuts them down.   *)
TurnsAreTrue ==
  /\ \A t \in Turns : pc[t] \in Running \cup {"probing", "discarding", "resuming", "closing"} => ad[t] # Nobody
  /\ \A t \in active : pc[t] \in Running
  /\ \A s \in Stops : /\ stop[s].phase \notin {"turns", "session"} => stop[s].adapters = {}
                      /\ stop[s].phase = "session" => \E x \in Turns : stop[s].adapters = {x}

(* Who really answers for a process: neither the turn that probes a        *)
(* session nor a stop that discards one, which others may do before it.    *)
Owned(x) == \/ x = mapped \/ x \in pending \cup evicting
            \/ \E t \in Turns : pc[t] \in Running \cup {"closing"} /\ ad[t] = x
            \/ \E s \in Stops : stop[s].phase = "turns" /\ x \in stop[s].adapters

ProcessesAreOwned == \A x \in up \ forgotten : Owned(x)

SupervisorInv == SupervisorTypeOK /\ BusyIsReleased /\ TurnsAreTrue /\ ProcessesAreOwned

(* A turn ends, or it waits for the user, whatever its provider does and   *)
(* whatever is stopped or evicted beside it.                               *)
SupervisorTurnsEnd == \A t \in Turns : []<>(~InProgress(t) \/ pc[t] = "asking" \/ ~alive)
=============================================================================
