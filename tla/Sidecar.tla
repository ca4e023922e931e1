------------------------------- MODULE Sidecar -------------------------------
(***************************************************************************)
(* The gateway as a child process of the desktop application               *)
(* (apps/desktop/src-tauri/src: runtime.rs, lib.rs, app_updater.rs;        *)
(* services/api-gateway/src: entry.ts, runtime-lifecycle.ts,               *)
(* runtime-protocol.ts).                                                   *)
(*                                                                         *)
(* The main thread starts the gateway, restarts one that died when the     *)
(* user interface asks for its address, and shuts it down at the exit.     *)
(* The updater shuts it down on a thread of its own, without the lifecycle *)
(* lock, and ends the application.  A gateway watches its parent.          *)
(***************************************************************************)
EXTENDS Naturals, FiniteSets

CONSTANTS
  MaxGateways,   \* bound: how many gateways are spawned
  MaxDeaths      \* bound: how many gateways die by themselves

ASSUME SidecarAssumption == MaxGateways \in Nat /\ MaxDeaths \in Nat

Gateways  == 1 .. MaxGateways
NoGateway == 0
Threads   == {"main", "updater"}

VARIABLES
  app,      \* whether the application runs
  gateway,  \* each gateway process
  child,    \* RuntimeState.child
  config,   \* RuntimeState.config: the gateway whose address it holds
  thread,   \* each thread: where it is and the gateway it handles
  deaths    \* how many gateways died by themselves

sidecarVars == <<app, gateway, child, config, thread, deaths>>

Alive(g) == g # NoGateway /\ gateway[g] \in {"recovering", "listening", "closing"}
Thread(pc, g) == [pc |-> pc, gateway |-> g]

SidecarTypeOK ==
  /\ app \in {"up", "gone"} /\ gateway \in [Gateways -> {"none", "recovering", "listening", "closing", "dead"}]
  /\ {child, config} \subseteq Gateways \cup {NoGateway} /\ deaths \in 0 .. MaxDeaths
  /\ thread \in [Threads -> [gateway: Gateways \cup {NoGateway},
       pc: {"idle", "start", "ready", "store", "publish", "request", "take", "wait", "gone"}]]

SidecarInit ==
  /\ app = "up" /\ gateway = [g \in Gateways |-> "none"] /\ child = NoGateway /\ config = NoGateway
  /\ thread = [t \in Threads |-> Thread("idle", NoGateway)] /\ deaths = 0

(* A thread that waits for a gateway to end keeps the lock of child.       *)
ChildLocked(t) == \E other \in Threads \ {t} : thread[other].pc = "wait"
ThreadAt(t, pc, g) == thread' = [thread EXCEPT ![t] = Thread(pc, g)]
Set(g, state) == gateway' = [gateway EXCEPT ![g] = state]

-----------------------------------------------------------------------------
(* The main thread.                                                        *)

(* ensure_config: the address of a gateway that lives is returned; else    *)
(* what is left of it is shut down and another one is started.  The set-up *)
(* of the application starts the first one in the same way.                *)
EnsureConfig ==
  /\ app = "up" /\ thread["main"].pc = "idle" /\ ~ChildLocked("main") /\ ~Alive(child)
  /\ child' = NoGateway /\ ThreadAt("main", "start", NoGateway)
  /\ UNCHANGED <<app, gateway, config, deaths>>

(* start_release.                                                          *)
SpawnGateway ==
  /\ app = "up" /\ thread["main"].pc = "start"
  /\ \E g \in Gateways : /\ gateway[g] = "none" /\ (g > 1 => gateway[g - 1] # "none")
                         /\ Set(g, "recovering") /\ ThreadAt("main", "ready", g)
  /\ UNCHANGED <<app, child, config, deaths>>

SpawnFails ==
  /\ app = "up" /\ thread["main"].pc = "start" /\ ThreadAt("main", "idle", NoGateway)
  /\ UNCHANGED <<app, gateway, child, config, deaths>>

ReadyLine ==
  LET g == thread["main"].gateway
  IN /\ app = "up" /\ thread["main"].pc = "ready" /\ gateway[g] = "listening" /\ ThreadAt("main", "store", g)
     /\ UNCHANGED <<app, gateway, child, config, deaths>>

(* Mutated form: a gateway that is not ready in time is left alone.        *)
NotReadyLeft ==
  LET g == thread["main"].gateway
  IN /\ app = "up" /\ thread["main"].pc = "ready" /\ ThreadAt("main", "idle", NoGateway)
     /\ UNCHANGED <<app, gateway, child, config, deaths>>

(* No ready line, or none in 15 seconds.                                   *)
NotReady ==
  LET g == thread["main"].gateway
  IN /\ app = "up" /\ thread["main"].pc = "ready" /\ Set(g, "dead") /\ ThreadAt("main", "idle", NoGateway)
     /\ UNCHANGED <<app, child, config, deaths>>

StoreChild ==
  LET g == thread["main"].gateway
  IN /\ app = "up" /\ thread["main"].pc = "store"
     /\ \/ gateway[g] = "dead" /\ ThreadAt("main", "idle", NoGateway) /\ UNCHANGED child
        \/ gateway[g] # "dead" /\ ~ChildLocked("main") /\ child' = g /\ ThreadAt("main", "publish", g)
     /\ UNCHANGED <<app, gateway, config, deaths>>

PublishConfig ==
  /\ app = "up" /\ thread["main"].pc = "publish"
  /\ config' = thread["main"].gateway /\ ThreadAt("main", "idle", NoGateway)
  /\ UNCHANGED <<app, gateway, child, deaths>>

-----------------------------------------------------------------------------
(* shutdown, at the exit (main) or before an update is installed.          *)

BeginShutdown(t) ==
  /\ app = "up" /\ thread[t].pc = "idle" /\ ThreadAt(t, "request", NoGateway)
  /\ UNCHANGED <<app, gateway, child, config, deaths>>

(* The gateway at the published address is asked, if it can be reached.    *)
RequestShutdown(t) ==
  /\ app = "up" /\ thread[t].pc = "request" /\ ThreadAt(t, "take", NoGateway)
  /\ \/ config # NoGateway /\ gateway[config] = "listening" /\ Set(config, "closing")
     \/ UNCHANGED gateway
  /\ UNCHANGED <<app, child, config, deaths>>

TakeChild(t) ==
  /\ app = "up" /\ thread[t].pc = "take" /\ ~ChildLocked(t)
  /\ child' = NoGateway /\ ThreadAt(t, IF child = NoGateway THEN "gone" ELSE "wait", child)
  /\ UNCHANGED <<app, gateway, config, deaths>>

(* It ends within two seconds or is killed.                                *)
AwaitChild(t) ==
  /\ app = "up" /\ thread[t].pc = "wait" /\ Set(thread[t].gateway, "dead") /\ ThreadAt(t, "gone", NoGateway)
  /\ UNCHANGED <<app, child, config, deaths>>

(* The application ends after a shutdown, or dies.                         *)
ApplicationEnds ==
  /\ app = "up" /\ app' = "gone"
  /\ UNCHANGED <<gateway, child, config, thread, deaths>>

-----------------------------------------------------------------------------
(* The gateway.                                                            *)

(* bootstrap: after the recovery it listens.                               *)
Recovered(g) ==
  /\ gateway[g] = "recovering" /\ Set(g, "listening")
  /\ UNCHANGED <<app, child, config, thread, deaths>>

(* Mutated form: the watchdog is started when the gateway listens.         *)
ParentWatchdogLate(g) ==
  /\ gateway[g] = "listening" /\ app = "gone" /\ Set(g, "closing")
  /\ UNCHANGED <<app, child, config, thread, deaths>>

(* startParentWatchdog, from the beginning of the recovery.                *)
ParentWatchdog(g) ==
  /\ gateway[g] \in {"recovering", "listening"} /\ app = "gone" /\ Set(g, "closing")
  /\ UNCHANGED <<app, child, config, thread, deaths>>

(* The shutdown coordinator: the clean-up ends, or is forced to after 5 s. *)
ShutdownEnds(g) ==
  /\ gateway[g] = "closing" /\ Set(g, "dead")
  /\ UNCHANGED <<app, child, config, thread, deaths>>

GatewayDies(g) ==
  /\ Alive(g) /\ deaths < MaxDeaths /\ deaths' = deaths + 1 /\ Set(g, "dead")
  /\ UNCHANGED <<app, child, config, thread>>

GatewayStart == SpawnGateway \/ SpawnFails \/ ReadyLine \/ NotReady \/ StoreChild \/ PublishConfig
ShutdownStep(t) == RequestShutdown(t) \/ TakeChild(t) \/ AwaitChild(t)
GatewayStep(g) == ParentWatchdog(g) \/ ShutdownEnds(g)

SidecarNext ==
  \/ EnsureConfig \/ GatewayStart \/ ApplicationEnds
  \/ \E t \in Threads : BeginShutdown(t) \/ ShutdownStep(t)
  \/ \E g \in Gateways : Recovered(g) \/ GatewayStep(g) \/ GatewayDies(g)

SidecarSpec == SidecarInit /\ [][SidecarNext]_sidecarVars
SidecarFairSpec ==
  /\ SidecarSpec /\ WF_sidecarVars(GatewayStart)
  /\ \A t \in Threads : WF_sidecarVars(ShutdownStep(t))
  /\ \A g \in Gateways : WF_sidecarVars(GatewayStep(g))

-----------------------------------------------------------------------------
(* Properties.                                                             *)

(* lib.rs:331, "should never create another runtime/sidecar": two gateways *)
(* never work on one database, whichever thread shuts one down while the   *)
(* other starts one.                                                       *)
OneGateway == Cardinality({g \in Gateways : Alive(g)}) <= 1

(* While the application runs it can reach every gateway that lives: one   *)
(* whose start failed is not left behind.                                  *)
NoGatewayIsLost == \A g \in Gateways :
  app = "up" /\ Alive(g) => child = g \/ \E t \in Threads : thread[t].gateway = g

(* There is one gateway, and the application can reach it.                 *)
SidecarSafety == SidecarTypeOK /\ OneGateway /\ NoGatewayIsLost

(* The inductive strengthening of the invariants above: only a thread that *)
(* is past a spawn or waits for the end handles a gateway; nobody starts   *)
(* one while another is stored or awaited; and a gateway whose address is  *)
(* about to be published is stored, or taken by the other thread.          *)
ThreadsAreTrue == \A t \in Threads :
  thread[t].gateway # NoGateway => thread[t].pc \in {"ready", "store", "publish", "wait"}

StartIsAlone == thread["main"].pc \in {"start", "ready", "store"} =>
  child = NoGateway /\ thread["updater"].pc # "wait"

UpdaterOnlyStops == thread["updater"].pc \notin {"start", "ready", "store", "publish"}

PublishedIsStored ==
  thread["main"].pc = "publish" /\ Alive(thread["main"].gateway) =>
    thread["main"].gateway \in {child, thread["updater"].gateway}

OneAlive == \A g, h \in Gateways : Alive(g) /\ Alive(h) => g = h

SidecarInv ==
  /\ SidecarTypeOK /\ NoGatewayIsLost /\ OneAlive
  /\ ThreadsAreTrue /\ StartIsAlone /\ UpdaterOnlyStops /\ PublishedIsStored

(* A start and a shutdown end, whatever they wait for, and no gateway      *)
(* outlives the application for ever, one least of all whose start was cut *)
(* off by the end of the application.                                      *)
SidecarEnds == []<>(IF app = "gone" THEN \A g \in Gateways : ~Alive(g)
                    ELSE \A t \in Threads : thread[t].pc \in {"idle", "gone"})
=============================================================================
