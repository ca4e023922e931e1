---------------------------- MODULE Desktop_proofs ----------------------------
(***************************************************************************)
(* Theorems about the desktop application: about the processes it starts,  *)
(* the gateway, for any number of restarts and deaths, and the terminals   *)
(* of an agent, for any number of commands that overlap; and about what it *)
(* shows of a mission, for any number of events, failures and visits.      *)
(***************************************************************************)
EXTENDS EventStream, Sidecar, ManualTerminals, FiniteSetTheorems, SequenceTheorems, WellFoundedInduction, TLAPS

(* A set in which any two elements are equal has at most one.              *)
LEMMA AtMostOne ==
  ASSUME NEW S, \A x, y \in S : x = y
  PROVE  Cardinality(S) \in Nat /\ Cardinality(S) <= 1
<1>1. CASE S = {}
  BY <1>1, FS_EmptySet
<1>2. CASE S # {}
  <2>1. PICK x \in S : TRUE
    BY <1>2
  <2>2. S = {x}
    BY <2>1
  <2> QED
    BY <2>2, FS_Singleton
<1> QED
  BY <1>1, <1>2

-----------------------------------------------------------------------------
(* The gateway.                                                            *)

Places == {"idle", "start", "ready", "store", "publish", "request", "take", "wait", "gone"}
ThreadStates == [gateway: Gateways \cup {NoGateway}, pc: Places]
Phases == {"none", "recovering", "listening", "closing", "dead"}

(* What ThreadAt does to the threads.                                      *)
LEMMA ThreadMoves ==
  ASSUME SidecarTypeOK, NEW t \in Threads, NEW pc \in Places, NEW g \in Gateways \cup {NoGateway}, ThreadAt(t, pc, g)
  PROVE  /\ thread' \in [Threads -> ThreadStates] /\ thread'[t].pc = pc /\ thread'[t].gateway = g
         /\ \A u \in Threads : u # t => thread'[u] = thread[u]
BY DEF SidecarTypeOK, ThreadAt, Thread, ThreadStates, Places

(* What Set does to the gateways.                                          *)
LEMMA GatewayMoves ==
  ASSUME SidecarTypeOK, NEW g \in Gateways \cup {NoGateway}, NEW state \in Phases, Set(g, state)
  PROVE  /\ gateway' \in [Gateways -> Phases] /\ (g \in Gateways => gateway'[g] = state)
         /\ \A h \in Gateways : h # g => gateway'[h] = gateway[h]
BY DEF SidecarTypeOK, Set, Phases

(* The steps of the main thread that starts a gateway preserve the         *)
(* invariant.                                                              *)
LEMMA StartKeepsSidecarInv ==
  ASSUME SidecarInv, EnsureConfig \/ GatewayStart
  PROVE  SidecarInv'
<1> USE SidecarAssumption DEF Threads
<1>0. SidecarTypeOK /\ NoGateway \notin Gateways /\ "main" \in Threads /\ "updater" \in Threads
  BY DEF SidecarInv, Gateways, NoGateway
<1>1. PICK gm : gm = thread["main"].gateway
  OBVIOUS
<1>2. gm \in Gateways \cup {NoGateway} /\ thread \in [Threads -> ThreadStates]
  BY <1>0, <1>1 DEF SidecarTypeOK, ThreadStates, Places
<1>3. CASE EnsureConfig
  <2>1. /\ ThreadAt("main", "start", NoGateway) /\ child' = NoGateway /\ ~Alive(child)
        /\ thread["main"].pc = "idle" /\ thread["updater"].pc # "wait" /\ UNCHANGED <<app, gateway, config, deaths>>
    BY <1>3 DEF EnsureConfig, ChildLocked
  <2>2. /\ thread' \in [Threads -> ThreadStates] /\ thread'["main"].pc = "start" /\ thread'["main"].gateway = NoGateway
        /\ \A u \in Threads : u # "main" => thread'[u] = thread[u]
    BY <1>0, <2>1, ThreadMoves DEF Places
  <2>3. SidecarTypeOK'
    BY <1>0, <2>1, <2>2 DEF SidecarTypeOK, ThreadStates, Places
  <2>4. NoGatewayIsLost' /\ OneAlive'
    BY <1>0, <2>1, <2>2 DEF SidecarInv, NoGatewayIsLost, OneAlive, Alive, ThreadsAreTrue
  <2> QED
    BY <1>0, <2>1, <2>2, <2>3, <2>4
       DEF SidecarInv, ThreadsAreTrue, StartIsAlone, UpdaterOnlyStops, PublishedIsStored
<1>4. CASE SpawnGateway
  <2>1. PICK g \in Gateways : /\ gateway[g] = "none" /\ Set(g, "recovering") /\ ThreadAt("main", "ready", g)
                              /\ app = "up" /\ thread["main"].pc = "start" /\ UNCHANGED <<app, child, config, deaths>>
    BY <1>4 DEF SpawnGateway
  <2>2. /\ thread' \in [Threads -> ThreadStates] /\ thread'["main"].pc = "ready" /\ thread'["main"].gateway = g
        /\ \A u \in Threads : u # "main" => thread'[u] = thread[u]
    BY <1>0, <2>1, ThreadMoves DEF Places
  <2>3. /\ gateway' \in [Gateways -> Phases] /\ gateway'[g] = "recovering"
        /\ \A h \in Gateways : h # g => gateway'[h] = gateway[h]
    BY <1>0, <2>1, GatewayMoves DEF Phases
  <2>4. \A h \in Gateways : ~Alive(h)
    BY <1>0, <2>1 DEF SidecarInv, NoGatewayIsLost, StartIsAlone, ThreadsAreTrue, UpdaterOnlyStops
  <2>5. \A h \in Gateways : Alive(h)' => h = g
    BY <2>3, <2>4 DEF Alive
  <2>6. SidecarTypeOK'
    BY <1>0, <2>1, <2>2, <2>3 DEF SidecarTypeOK, ThreadStates, Places, Phases
  <2> QED
    BY <1>0, <2>1, <2>2, <2>5, <2>6
       DEF SidecarInv, NoGatewayIsLost, OneAlive, ThreadsAreTrue, StartIsAlone, UpdaterOnlyStops, PublishedIsStored
<1>5. CASE SpawnFails
  <2>1. /\ ThreadAt("main", "idle", NoGateway) /\ thread["main"].pc = "start" /\ UNCHANGED <<app, gateway, child, config, deaths>>
    BY <1>5 DEF SpawnFails
  <2>2. /\ thread' \in [Threads -> ThreadStates] /\ thread'["main"].pc = "idle" /\ thread'["main"].gateway = NoGateway
        /\ \A u \in Threads : u # "main" => thread'[u] = thread[u]
    BY <1>0, <2>1, ThreadMoves DEF Places
  <2>3. SidecarTypeOK'
    BY <1>0, <2>1, <2>2 DEF SidecarTypeOK, ThreadStates, Places
  <2>4. NoGatewayIsLost' /\ OneAlive'
    BY <1>0, <2>1, <2>2 DEF SidecarInv, NoGatewayIsLost, OneAlive, Alive, ThreadsAreTrue
  <2> QED
    BY <1>0, <2>1, <2>2, <2>3, <2>4
       DEF SidecarInv, ThreadsAreTrue, StartIsAlone, UpdaterOnlyStops, PublishedIsStored
<1>6. CASE ReadyLine
  <2>1. /\ ThreadAt("main", "store", gm) /\ thread["main"].pc = "ready" /\ UNCHANGED <<app, gateway, child, config, deaths>>
    BY <1>1, <1>6 DEF ReadyLine
  <2>2. /\ thread' \in [Threads -> ThreadStates] /\ thread'["main"].pc = "store" /\ thread'["main"].gateway = gm
        /\ \A u \in Threads : u # "main" => thread'[u] = thread[u]
    BY <1>0, <1>2, <2>1, ThreadMoves DEF Places
  <2>3. SidecarTypeOK'
    BY <1>0, <2>1, <2>2 DEF SidecarTypeOK, ThreadStates, Places
  <2>4. NoGatewayIsLost' /\ OneAlive'
    BY <1>0, <1>1, <2>1, <2>2 DEF SidecarInv, NoGatewayIsLost, OneAlive, Alive
  <2> QED
    BY <1>0, <2>1, <2>2, <2>3, <2>4
       DEF SidecarInv, ThreadsAreTrue, StartIsAlone, UpdaterOnlyStops, PublishedIsStored
<1>7. CASE NotReady
  <2>1. /\ ThreadAt("main", "idle", NoGateway) /\ Set(gm, "dead") /\ thread["main"].pc = "ready" /\ UNCHANGED <<app, child, config, deaths>>
    BY <1>1, <1>7 DEF NotReady
  <2>2. /\ thread' \in [Threads -> ThreadStates] /\ thread'["main"].pc = "idle" /\ thread'["main"].gateway = NoGateway
        /\ \A u \in Threads : u # "main" => thread'[u] = thread[u]
    BY <1>0, <2>1, ThreadMoves DEF Places
  <2>3. /\ gateway' \in [Gateways -> Phases] /\ (gm \in Gateways => gateway'[gm] = "dead")
        /\ \A h \in Gateways : h # gm => gateway'[h] = gateway[h]
    BY <1>0, <1>2, <2>1, GatewayMoves DEF Phases
  <2>4. SidecarTypeOK'
    BY <1>0, <2>1, <2>2, <2>3 DEF SidecarTypeOK, ThreadStates, Places, Phases
  <2>5. \A h \in Gateways : Alive(h)' => Alive(h) /\ h # gm
    BY <2>3 DEF Alive
  <2> QED
    BY <1>0, <1>1, <2>1, <2>2, <2>4, <2>5
       DEF SidecarInv, NoGatewayIsLost, OneAlive, ThreadsAreTrue, StartIsAlone, UpdaterOnlyStops, PublishedIsStored
<1>8. CASE StoreChild
  <2>1. /\ thread["main"].pc = "store" /\ UNCHANGED <<app, gateway, config, deaths>>
        /\ \/ gateway[gm] = "dead" /\ ThreadAt("main", "idle", NoGateway) /\ child' = child
           \/ gateway[gm] # "dead" /\ child' = gm /\ ThreadAt("main", "publish", gm)
    BY <1>1, <1>8 DEF StoreChild
  <2>2. child = NoGateway
    BY <2>1 DEF SidecarInv, StartIsAlone
  <2>3. CASE gateway[gm] = "dead" /\ ThreadAt("main", "idle", NoGateway) /\ child' = child
    <3>1. /\ thread' \in [Threads -> ThreadStates] /\ thread'["main"].pc = "idle" /\ thread'["main"].gateway = NoGateway
          /\ \A u \in Threads : u # "main" => thread'[u] = thread[u]
      BY <1>0, <2>3, ThreadMoves DEF Places
    <3>2. SidecarTypeOK'
      BY <1>0, <2>1, <2>3, <3>1 DEF SidecarTypeOK, ThreadStates, Places
    <3>3. ~Alive(gm)
      BY <2>3 DEF Alive
    <3>4. NoGatewayIsLost' /\ OneAlive'
      BY <1>0, <1>1, <2>1, <2>3, <3>1, <3>3 DEF SidecarInv, NoGatewayIsLost, OneAlive, Alive
    <3> QED
      BY <1>0, <2>1, <2>3, <3>1, <3>2, <3>4
         DEF SidecarInv, ThreadsAreTrue, StartIsAlone, UpdaterOnlyStops, PublishedIsStored
  <2>4. CASE gateway[gm] # "dead" /\ child' = gm /\ ThreadAt("main", "publish", gm)
    <3>1. /\ thread' \in [Threads -> ThreadStates] /\ thread'["main"].pc = "publish" /\ thread'["main"].gateway = gm
          /\ \A u \in Threads : u # "main" => thread'[u] = thread[u]
      BY <1>0, <1>2, <2>4, ThreadMoves DEF Places
    <3>2. SidecarTypeOK'
      BY <1>0, <1>2, <2>1, <2>4, <3>1 DEF SidecarTypeOK, ThreadStates, Places
    <3>3. NoGatewayIsLost' /\ OneAlive'
      BY <1>0, <1>1, <2>1, <2>2, <2>4, <3>1 DEF SidecarInv, NoGatewayIsLost, OneAlive, Alive
    <3> QED
      BY <1>0, <2>1, <2>4, <3>1, <3>2, <3>3
         DEF SidecarInv, ThreadsAreTrue, StartIsAlone, UpdaterOnlyStops, PublishedIsStored
  <2> QED
    BY <2>1, <2>3, <2>4
<1>9. CASE PublishConfig
  <2>1. /\ thread["main"].pc = "publish" /\ config' = gm /\ UNCHANGED <<app, gateway, child, deaths>>
        /\ ThreadAt("main", "idle", gm) \/ ThreadAt("main", "idle", NoGateway)
    BY <1>1, <1>9 DEF PublishConfig
  <2>2. ThreadAt("main", "idle", NoGateway)
    BY <1>9 DEF PublishConfig
  <2>3. /\ thread' \in [Threads -> ThreadStates] /\ thread'["main"].pc = "idle" /\ thread'["main"].gateway = NoGateway
        /\ \A u \in Threads : u # "main" => thread'[u] = thread[u]
    BY <1>0, <2>2, ThreadMoves DEF Places
  <2>4. SidecarTypeOK'
    BY <1>0, <1>2, <2>1, <2>3 DEF SidecarTypeOK, ThreadStates, Places
  <2>5. NoGatewayIsLost' /\ OneAlive'
    BY <1>0, <1>1, <2>1, <2>3 DEF SidecarInv, NoGatewayIsLost, OneAlive, Alive, PublishedIsStored
  <2> QED
    BY <1>0, <2>1, <2>3, <2>4, <2>5
       DEF SidecarInv, ThreadsAreTrue, StartIsAlone, UpdaterOnlyStops, PublishedIsStored
<1> QED
  BY <1>3, <1>4, <1>5, <1>6, <1>7, <1>8, <1>9 DEF GatewayStart

(* The steps of a shutdown, on either thread, preserve the invariant.      *)
LEMMA StopKeepsSidecarInv ==
  ASSUME SidecarInv, NEW t \in Threads, BeginShutdown(t) \/ ShutdownStep(t)
  PROVE  SidecarInv'
<1> USE SidecarAssumption DEF Threads
<1>0. SidecarTypeOK /\ NoGateway \notin Gateways /\ "main" \in Threads /\ "updater" \in Threads
  BY DEF SidecarInv, Gateways, NoGateway
<1>1. PICK gt : gt = thread[t].gateway
  OBVIOUS
<1>2. /\ gt \in Gateways \cup {NoGateway} /\ thread \in [Threads -> ThreadStates]
      /\ child \in Gateways \cup {NoGateway} /\ config \in Gateways \cup {NoGateway}
  BY <1>0, <1>1 DEF SidecarTypeOK, ThreadStates, Places
<1>3. CASE BeginShutdown(t) \/ RequestShutdown(t)
  <2>1. PICK pc \in {"request", "take"} :
          /\ ThreadAt(t, pc, NoGateway) /\ thread[t].pc \in {"idle", "request"} /\ UNCHANGED <<app, child, config, deaths>>
          /\ \/ gateway' = gateway
             \/ config # NoGateway /\ gateway[config] = "listening" /\ Set(config, "closing")
    BY <1>3 DEF BeginShutdown, RequestShutdown
  <2>2. /\ thread' \in [Threads -> ThreadStates] /\ thread'[t].pc = pc /\ thread'[t].gateway = NoGateway
        /\ \A u \in Threads : u # t => thread'[u] = thread[u]
    BY <1>0, <2>1, ThreadMoves DEF Places
  <2>3. gateway' \in [Gateways -> Phases] /\ \A h \in Gateways : Alive(h)' => Alive(h)
    <3>1. CASE gateway' = gateway
      BY <1>0, <3>1 DEF SidecarTypeOK, Alive, Phases
    <3>2. CASE config # NoGateway /\ gateway[config] = "listening" /\ Set(config, "closing")
      <4>1. /\ gateway' \in [Gateways -> Phases] /\ gateway'[config] = "closing"
            /\ \A h \in Gateways : h # config => gateway'[h] = gateway[h]
        BY <1>0, <1>2, <3>2, GatewayMoves DEF Phases
      <4> QED
        BY <3>2, <4>1 DEF Alive
    <3> QED
      BY <2>1, <3>1, <3>2
  <2>4. SidecarTypeOK'
    BY <1>0, <2>1, <2>2, <2>3 DEF SidecarTypeOK, ThreadStates, Places, Phases
  <2>5. gt = NoGateway
    BY <1>1, <2>1 DEF SidecarInv, ThreadsAreTrue
  <2>6. PublishedIsStored'
    BY <1>0, <1>1, <1>2, <2>1, <2>2, <2>3, <2>5 DEF SidecarInv, PublishedIsStored, ThreadStates, Alive
  <2> QED
    BY <1>0, <1>1, <2>1, <2>2, <2>3, <2>4, <2>5, <2>6
       DEF SidecarInv, NoGatewayIsLost, OneAlive, ThreadsAreTrue, StartIsAlone, UpdaterOnlyStops
<1>4. CASE TakeChild(t)
  <2>1. PICK pc \in {"gone", "wait"} :
          /\ pc = "wait" <=> child # NoGateway
          /\ ThreadAt(t, pc, child) /\ thread[t].pc = "take" /\ child' = NoGateway /\ UNCHANGED <<app, gateway, config, deaths>>
    BY <1>4 DEF TakeChild
  <2>2. /\ thread' \in [Threads -> ThreadStates] /\ thread'[t].pc = pc /\ thread'[t].gateway = child
        /\ \A u \in Threads : u # t => thread'[u] = thread[u]
    BY <1>0, <1>2, <2>1, ThreadMoves DEF Places
  <2>3. SidecarTypeOK'
    BY <1>0, <2>1, <2>2 DEF SidecarTypeOK, ThreadStates, Places
  <2>4. gt = NoGateway
    BY <1>1, <2>1 DEF SidecarInv, ThreadsAreTrue
  <2>5. NoGatewayIsLost' /\ OneAlive'
    <3>1. \A h \in Gateways : Alive(h)' <=> Alive(h)
      BY <2>1 DEF Alive
    <3>2. ASSUME NEW h \in Gateways, app = "up", Alive(h)
          PROVE  \E u \in Threads : thread'[u].gateway = h
      <4>1. CASE child = h
        BY <2>2, <4>1
      <4>2. CASE \E u \in Threads : thread[u].gateway = h
        <5>1. PICK u \in Threads : thread[u].gateway = h
          BY <4>2
        <5>2. thread'[u].gateway = h
          BY <1>0, <1>1, <2>2, <2>4, <5>1
        <5> QED
          BY <5>2
      <4> QED
        BY <3>2, <4>1, <4>2 DEF SidecarInv, NoGatewayIsLost
    <3> QED
      BY <2>1, <3>1, <3>2 DEF SidecarInv, NoGatewayIsLost, OneAlive
  <2>6. PublishedIsStored'
    BY <1>0, <1>1, <1>2, <2>1, <2>2, <2>4 DEF SidecarInv, PublishedIsStored, Alive
  <2> QED
    BY <1>0, <2>1, <2>2, <2>3, <2>5, <2>6 DEF SidecarInv, ThreadsAreTrue, StartIsAlone, UpdaterOnlyStops
<1>5. CASE AwaitChild(t)
  <2>1. ThreadAt(t, "gone", NoGateway) /\ Set(gt, "dead") /\ thread[t].pc = "wait" /\ UNCHANGED <<app, child, config, deaths>>
    BY <1>1, <1>5 DEF AwaitChild
  <2>2. /\ thread' \in [Threads -> ThreadStates] /\ thread'[t].pc = "gone" /\ thread'[t].gateway = NoGateway
        /\ \A u \in Threads : u # t => thread'[u] = thread[u]
    BY <1>0, <2>1, ThreadMoves DEF Places
  <2>3. /\ gateway' \in [Gateways -> Phases] /\ (gt \in Gateways => gateway'[gt] = "dead")
        /\ \A h \in Gateways : h # gt => gateway'[h] = gateway[h]
    BY <1>0, <1>2, <2>1, GatewayMoves DEF Phases
  <2>4. SidecarTypeOK'
    BY <1>0, <2>1, <2>2, <2>3 DEF SidecarTypeOK, ThreadStates, Places, Phases
  <2>5. \A h \in Gateways : Alive(h)' => Alive(h) /\ h # gt
    BY <2>3 DEF Alive
  <2>6. PublishedIsStored'
    <3> SUFFICES ASSUME (thread["main"].pc = "publish")', Alive(thread["main"].gateway)'
                 PROVE  (thread["main"].gateway \in {child, thread["updater"].gateway})'
      BY DEF PublishedIsStored
    <3>1. t = "updater" /\ thread'["main"] = thread["main"] /\ thread["main"].gateway \in Gateways
      <4>1. t = "updater" /\ thread'["main"] = thread["main"]
        BY <1>0, <2>2
      <4>2. thread["main"].gateway \in Gateways \cup {NoGateway} /\ thread["main"].gateway # NoGateway
        BY <1>0, <1>2, <4>1 DEF Alive, ThreadStates
      <4> QED
        BY <4>1, <4>2
    <3>2. Alive(thread["main"].gateway) /\ thread["main"].gateway # gt
      <4>1. Alive(thread["main"].gateway)'
        OBVIOUS
      <4>2. \A h : h = thread'["main"].gateway /\ h \in Gateways => Alive(h)'
        BY <4>1 DEF Alive
      <4> QED
        BY <2>5, <3>1, <4>2
    <3> QED
      BY <1>0, <1>1, <2>1, <2>2, <3>1, <3>2 DEF SidecarInv, PublishedIsStored
  <2> QED
    BY <1>0, <1>1, <2>1, <2>2, <2>4, <2>5, <2>6
       DEF SidecarInv, NoGatewayIsLost, OneAlive, ThreadsAreTrue, StartIsAlone, UpdaterOnlyStops
<1> QED
  BY <1>3, <1>4, <1>5 DEF ShutdownStep

(* A gateway that moves on by itself, or an application that ends,         *)
(* preserves the invariant.                                                *)
LEMMA GatewayKeepsSidecarInv ==
  ASSUME SidecarInv,
         ApplicationEnds \/ \E g \in Gateways : Recovered(g) \/ GatewayStep(g) \/ GatewayDies(g)
  PROVE  SidecarInv'
<1> USE SidecarAssumption
<1>0. SidecarTypeOK /\ NoGateway \notin Gateways /\ "main" \in Threads /\ "updater" \in Threads
  BY DEF SidecarInv, Gateways, NoGateway, Threads
<1>1. CASE ApplicationEnds
  BY <1>0, <1>1
     DEF ApplicationEnds, SidecarInv, SidecarTypeOK, NoGatewayIsLost, OneAlive, Alive, ThreadsAreTrue,
     StartIsAlone, UpdaterOnlyStops, PublishedIsStored
<1>2. CASE \E g \in Gateways : Recovered(g) \/ GatewayStep(g) \/ GatewayDies(g)
  <2>1. PICK g \in Gateways, state \in {"listening", "closing", "dead"} :
          Alive(g) /\ Set(g, state) /\ deaths' \in 0 .. MaxDeaths /\ UNCHANGED <<app, child, config, thread>>
    BY <1>0, <1>2 DEF Recovered, GatewayStep, ParentWatchdog, ShutdownEnds, GatewayDies, Alive, SidecarTypeOK
  <2>2. /\ gateway' \in [Gateways -> Phases] /\ gateway'[g] = state
        /\ \A h \in Gateways : h # g => gateway'[h] = gateway[h]
    BY <1>0, <2>1, GatewayMoves DEF Phases
  <2>3. SidecarTypeOK'
    BY <1>0, <2>1, <2>2 DEF SidecarTypeOK, Phases
  <2>4. \A h \in Gateways : Alive(h)' => Alive(h)
    BY <2>1, <2>2 DEF Alive
  <2>5. PublishedIsStored'
    <3>1. thread["main"].gateway \in Gateways \cup {NoGateway}
      BY <1>0 DEF SidecarTypeOK
    <3> QED
      BY <2>1, <2>4, <3>1 DEF SidecarInv, PublishedIsStored, Alive
  <2> QED
    BY <1>0, <2>1, <2>3, <2>4, <2>5
       DEF SidecarInv, NoGatewayIsLost, OneAlive, ThreadsAreTrue, StartIsAlone, UpdaterOnlyStops
<1> QED
  BY <1>1, <1>2

(* The inductive invariant of the gateway and the threads that start and   *)
(* stop it.                                                                *)
THEOREM SidecarInvariant == SidecarSpec => []SidecarInv
<1>1. SidecarInit => SidecarInv
  BY SidecarAssumption DEF SidecarInit, SidecarInv, SidecarTypeOK, NoGatewayIsLost, OneAlive, ThreadsAreTrue,
     StartIsAlone, UpdaterOnlyStops, PublishedIsStored, Alive, Thread, Threads, Gateways, NoGateway
<1>2. SidecarInv /\ [SidecarNext]_sidecarVars => SidecarInv'
  <2> SUFFICES ASSUME SidecarInv, [SidecarNext]_sidecarVars
               PROVE  SidecarInv'
    OBVIOUS
  <2>1. CASE EnsureConfig \/ GatewayStart
    BY <2>1, StartKeepsSidecarInv
  <2>2. CASE \E t \in Threads : BeginShutdown(t) \/ ShutdownStep(t)
    BY <2>2, StopKeepsSidecarInv
  <2>3. CASE ApplicationEnds \/ \E g \in Gateways : Recovered(g) \/ GatewayStep(g) \/ GatewayDies(g)
    BY <2>3, GatewayKeepsSidecarInv
  <2>4. CASE UNCHANGED sidecarVars
    BY <2>4 DEF sidecarVars, SidecarInv, SidecarTypeOK, NoGatewayIsLost, OneAlive, ThreadsAreTrue,
       StartIsAlone, UpdaterOnlyStops, PublishedIsStored, Alive
  <2> QED
    BY <2>1, <2>2, <2>3, <2>4 DEF SidecarNext
<1> QED
  BY <1>1, <1>2, PTL DEF SidecarSpec

(* However often the gateway dies and is restarted, and whichever thread   *)
(* shuts it down meanwhile: two never work at once, and while the          *)
(* application runs it can reach the one that does.                        *)
THEOREM SidecarIsSafe == SidecarSpec => []SidecarSafety
<1>1. SidecarInv => SidecarSafety
  <2> SUFFICES ASSUME SidecarInv
               PROVE  OneGateway
    BY DEF SidecarInv, SidecarSafety
  <2>1. \A g, h \in {g \in Gateways : Alive(g)} : g = h
    BY DEF SidecarInv, OneAlive
  <2> QED
    BY <2>1, AtMostOne DEF OneGateway
<1> QED
  BY <1>1, SidecarInvariant, PTL

-----------------------------------------------------------------------------
(* The terminals.                                                          *)

Ops == {"none", "start", "close", "write"}
Steps == {"new", "enter", "lock", "spawned", "cleanup", "tidy", "unmark", "remove", "typing", "pasted", "done"}
CallStates == [op: Ops, slot: Calls \cup {NoCall}, target: Calls \cup {NoCall}, pc: Steps]

(* A command moves on in its record, and leaves it when it is done.        *)
LEMMA MovesOn ==
  ASSUME NEW r \in CallStates, NEW pc \in Steps
  PROVE  /\ Moved(r, pc) \in CallStates /\ Moved(r, pc).pc = pc /\ Moved(r, pc).op = r.op
         /\ pc # "done" => Moved(r, pc).slot = r.slot /\ Moved(r, pc).target = r.target
         /\ pc = "done" => Moved(r, pc).slot = NoCall /\ Moved(r, pc).target = NoCall
BY DEF Moved, NewCall, CallStates, Ops, Steps

(* What a new record does to the commands.                                 *)
LEMMA CallMoves ==
  ASSUME TerminalsTypeOK, NEW c \in Calls, NEW r \in CallStates, call' = [call EXCEPT ![c] = r]
  PROVE  call' \in [Calls -> CallStates] /\ call'[c] = r /\ \A d \in Calls : d # c => call'[d] = call[d]
BY DEF TerminalsTypeOK, CallStates, Ops, Steps

(* What Goto does to the commands.                                         *)
LEMMA GotoMoves ==
  ASSUME TerminalsTypeOK, NEW c \in Calls, NEW pc \in Steps, Goto(c, pc)
  PROVE  /\ call' \in [Calls -> CallStates] /\ call'[c].pc = pc /\ call'[c].op = call[c].op
         /\ pc # "done" => call'[c].slot = call[c].slot /\ call'[c].target = call[c].target
         /\ pc = "done" => call'[c].slot = NoCall /\ call'[c].target = NoCall
         /\ \A d \in Calls : d # c => call'[d] = call[d]
<1>1. call[c] \in CallStates
  BY DEF TerminalsTypeOK, CallStates, Ops, Steps
<1>2. PICK r : r = Moved(call[c], pc)
  OBVIOUS
<1>3. /\ r \in CallStates /\ r.pc = pc /\ r.op = call[c].op
      /\ pc # "done" => r.slot = call[c].slot /\ r.target = call[c].target
      /\ pc = "done" => r.slot = NoCall /\ r.target = NoCall
  BY <1>1, <1>2, MovesOn
<1>4. call' = [call EXCEPT ![c] = r]
  BY <1>2 DEF Goto
<1> QED
  BY <1>3, <1>4, CallMoves

(* A command that only moves on, and neither spawns, closes nor types,     *)
(* preserves the invariant.                                                *)
LEMMA CallKeepsTerminalsInv ==
  ASSUME TerminalsInv, NEW c \in Calls, NEW r \in CallStates, call' = [call EXCEPT ![c] = r],
         UNCHANGED <<session, stopping, holder, terminal, closing, closed, process, typist, input, exit, abandoned>>,
         call[c].pc # "spawned", r.pc \in {"enter", "cleanup", "tidy", "lock", "typing", "done"},
         r.pc = "enter" => call[c].pc = "new",
         r.slot \in {NoCall, session, call[c].slot},
         r.pc \in {"enter", "cleanup", "tidy"} => r.op = "start", r.pc \in {"lock", "typing"} => r.op = "write",
         r.pc = "typing" => r.target # NoCall,
         r.pc \in {"lock", "tidy", "typing"} => r.slot # NoCall /\ (r.slot = session \/ (Working(c) /\ r.slot = call[c].slot))
  PROVE  TerminalsInv'
<1>0. TerminalsTypeOK /\ NoCall \notin Calls
  BY DEF TerminalsInv, NoCall, Calls
<1>1. call' \in [Calls -> CallStates] /\ call'[c] = r /\ \A d \in Calls : d # c => call'[d] = call[d]
  BY <1>0, CallMoves
<1>2. TerminalsTypeOK'
  BY <1>0, <1>1 DEF TerminalsTypeOK, CallStates, Ops, Steps
<1>3. NoProcessIsLost' /\ MessagesAreWhole' /\ TypistsAreTrue'
  BY <1>1 DEF TerminalsInv, NoProcessIsLost, MessagesAreWhole, TypistsAreTrue, Live
<1>4. ProcessesAreTrue' /\ CommandsAreTrue' /\ ExitIsTrue'
  BY <1>1 DEF TerminalsInv, ProcessesAreTrue, CommandsAreTrue, ExitIsTrue, Working, Slot, At
<1>5. SlotsAreFresh'
  BY <1>0, <1>1 DEF TerminalsInv, SlotsAreFresh, Fresh, Slot
<1>6. LocksAreTrue' /\ ClosingIsOwned'
  BY <1>0, <1>1 DEF TerminalsInv, LocksAreTrue, ClosingIsOwned, Closes, Held, At, Slot, Live, TerminalsTypeOK
<1>7. UsedIsMapped'
  BY <1>1 DEF TerminalsInv, UsedIsMapped, Working, Closes, Held, At, Slot
<1> QED
  BY <1>2, <1>3, <1>4, <1>5, <1>6, <1>7 DEF TerminalsInv

(* The steps of a start preserve the invariant.                            *)
LEMMA StartKeepsTerminalsInv ==
  ASSUME TerminalsInv, NEW c \in Calls, BeginStart(c) \/ StartStep(c)
  PROVE  TerminalsInv'
<1>0. TerminalsTypeOK /\ NoCall \notin Calls /\ call[c] \in CallStates /\ call \in [Calls -> CallStates]
  BY DEF TerminalsInv, NoCall, Calls, TerminalsTypeOK, CallStates, Ops, Steps
<1>1. CASE BeginStart(c)
  <2>1. PICK r : r = [call[c] EXCEPT !.op = "start", !.pc = IF stopping THEN "cleanup" ELSE "enter"]
    OBVIOUS
  <2>2. /\ r \in CallStates /\ r.op = "start" /\ r.pc \in {"enter", "cleanup"} /\ r.slot = call[c].slot
        /\ call' = [call EXCEPT ![c] = r] /\ call[c].pc = "new"
        /\ UNCHANGED <<session, stopping, holder, terminal, closing, closed, process, typist, input, exit, abandoned>>
    BY <1>0, <1>1, <2>1 DEF BeginStart, New, NewCall, CallStates, Ops, Steps
  <2> QED
    BY <2>2, CallKeepsTerminalsInv
<1>2. CASE Cleanup(c)
  <2>1. PICK r0 : r0 = [call[c] EXCEPT !.slot = session]
    OBVIOUS
  <2>2. PICK pc \in {"done", "tidy"} : pc = IF session = NoCall THEN "done" ELSE "tidy"
    OBVIOUS
  <2>3. PICK r : r = Moved(r0, pc)
    OBVIOUS
  <2>4. r0 \in CallStates /\ r0.slot = session /\ r0.op = "start"
    BY <1>0, <1>2, <2>1 DEF Cleanup, At, CallStates, TerminalsTypeOK
  <2>5. /\ r \in CallStates /\ r.op = "start" /\ r.pc = pc /\ r.slot \in {NoCall, session}
        /\ r.pc = "tidy" => r.slot = session /\ r.slot # NoCall
    BY <2>2, <2>3, <2>4, MovesOn DEF Steps
  <2>6. /\ call' = [call EXCEPT ![c] = r] /\ call[c].pc = "cleanup"
        /\ UNCHANGED <<session, stopping, holder, terminal, closing, closed, process, typist, input, exit, abandoned>>
    BY <1>2, <2>1, <2>2, <2>3 DEF Cleanup, At
  <2> QED
    BY <2>2, <2>5, <2>6, CallKeepsTerminalsInv
<1>3. CASE EnterSlot(c)
  <2>1. PICK s : s = IF session = NoCall THEN c ELSE session
    OBVIOUS
  <2>2. PICK r : r = [call[c] EXCEPT !.slot = s, !.pc = IF s \in closing THEN "cleanup" ELSE "lock"]
    OBVIOUS
  <2>3. s \in Calls /\ (session # NoCall => s = session) /\ (session = NoCall => s = c)
    BY <1>0, <2>1 DEF TerminalsTypeOK
  <2>4. /\ r \in CallStates /\ r.op = "start" /\ r.slot = s /\ r.target = call[c].target
        /\ r.pc = IF s \in closing THEN "cleanup" ELSE "lock"
        /\ call[c].op = "start" /\ call[c].pc = "enter"
    BY <1>0, <1>3, <2>2, <2>3 DEF EnterSlot, At, CallStates, Ops, Steps
  <2>5. /\ call' = [call EXCEPT ![c] = r] /\ session' = s
        /\ UNCHANGED <<stopping, holder, terminal, closing, closed, process, typist, input, exit, abandoned>>
    BY <1>3, <2>1, <2>2 DEF EnterSlot
  <2>6. call' \in [Calls -> CallStates] /\ call'[c] = r /\ \A d \in Calls : d # c => call'[d] = call[d]
    BY <1>0, <2>4, <2>5, CallMoves
  <2>7. Fresh(c)
    BY <2>4 DEF TerminalsInv, SlotsAreFresh
  <2>8. TerminalsTypeOK'
    BY <1>0, <2>3, <2>5, <2>6 DEF TerminalsTypeOK, CallStates, Ops, Steps
  <2>9. NoProcessIsLost' /\ MessagesAreWhole' /\ TypistsAreTrue'
    BY <1>0, <2>3, <2>4, <2>5, <2>6 DEF TerminalsInv, NoProcessIsLost, MessagesAreWhole, TypistsAreTrue, Live
  <2>10. ProcessesAreTrue' /\ CommandsAreTrue'
    BY <1>0, <2>3, <2>4, <2>5, <2>6 DEF TerminalsInv, ProcessesAreTrue, CommandsAreTrue, Working, Slot, At
  <2>11. ExitIsTrue'
    BY <2>3, <2>5, <2>7 DEF TerminalsInv, ExitIsTrue, Fresh
  <2>12. SlotsAreFresh'
    BY <1>0, <2>3, <2>4, <2>5, <2>6 DEF TerminalsInv, SlotsAreFresh, Fresh, Slot
  <2>13. LocksAreTrue' /\ ClosingIsOwned'
    BY <1>0, <2>4, <2>5, <2>6
       DEF TerminalsInv, LocksAreTrue, ClosingIsOwned, Closes, Held, At, Slot, Live, TerminalsTypeOK
  <2>14. UsedIsMapped'
    BY <1>0, <2>3, <2>4, <2>5, <2>6
       DEF TerminalsInv, UsedIsMapped, CommandsAreTrue, Working, Closes, Held, At, Slot
  <2> QED
    BY <2>8, <2>9, <2>10, <2>11, <2>12, <2>13, <2>14 DEF TerminalsInv
<1>4. CASE Spawn(c)
  <2>1. PICK s : s = Slot(c)
    OBVIOUS
  <2>2. /\ call[c].op = "start" /\ call[c].pc = "lock" /\ call[c].slot = s /\ s \in Calls /\ ~Held(s)
        /\ closed' = IF MaySpawn(s) /\ terminal[s] # NoCall THEN closed \cup {terminal[s]} ELSE closed
        /\ UNCHANGED <<session, stopping, terminal, closing, typist, input, exit, abandoned>>
    BY <1>0, <1>4, <2>1 DEF Spawn, At, Slot, CallStates, TerminalsInv, CommandsAreTrue, Working
  <2>3. /\ closed \subseteq closed' /\ closed' \subseteq Calls /\ process[c] = "none"
        /\ \A p \in closed' : process[p] = "dead"
        /\ MaySpawn(s) => s \notin closing /\ (terminal[s] # NoCall => terminal[s] \in Calls /\ ~Live(terminal[s]))
    BY <1>0, <2>2 DEF MaySpawn, HasLive, Live, TerminalsInv, ProcessesAreTrue, TerminalsTypeOK, At
  <2>4. CASE MaySpawn(s) /\ process' = [process EXCEPT ![c] = "live"] /\ holder' = [holder EXCEPT ![s] = c] /\ Goto(c, "spawned")
    <3>1. /\ call' \in [Calls -> CallStates] /\ call'[c].pc = "spawned" /\ call'[c].op = "start"
          /\ call'[c].slot = s /\ \A d \in Calls : d # c => call'[d] = call[d]
      BY <1>0, <2>2, <2>4, GotoMoves DEF Steps
    <3>2. /\ process' \in [Calls -> {"none", "live", "dead"}] /\ process'[c] = "live"
          /\ \A p \in Calls : p # c => process'[p] = process[p]
      BY <1>0, <2>4 DEF TerminalsTypeOK
    <3>3. /\ holder' \in [Calls -> Calls \cup {NoCall}] /\ holder'[s] = c
          /\ \A u \in Calls : u # s => holder'[u] = holder[u]
      BY <1>0, <2>2, <2>4 DEF TerminalsTypeOK
    <3>4. TerminalsTypeOK'
      BY <1>0, <2>2, <2>3, <3>1, <3>2, <3>3 DEF TerminalsTypeOK, CallStates, Ops, Steps
    <3>5. NoProcessIsLost' /\ MessagesAreWhole' /\ TypistsAreTrue'
      BY <1>0, <2>2, <3>1, <3>2 DEF TerminalsInv, NoProcessIsLost, MessagesAreWhole, TypistsAreTrue, Live
    <3>6. ProcessesAreTrue'
      BY <1>0, <2>2, <2>3, <3>1, <3>2 DEF TerminalsInv, ProcessesAreTrue, At, TerminalsTypeOK
    <3>7. CommandsAreTrue' /\ ExitIsTrue'
      BY <1>0, <2>2, <3>1 DEF TerminalsInv, CommandsAreTrue, ExitIsTrue, Working, Slot
    <3>8. SlotsAreFresh'
      BY <1>0, <2>2, <3>1 DEF TerminalsInv, SlotsAreFresh, Fresh, Slot
    <3>9. LocksAreTrue'
      <4>1. \A u \in Calls : Held(u)' => call'[holder'[u]].pc = "spawned" /\ call'[holder'[u]].slot = u
        BY <1>0, <2>2, <3>1, <3>3 DEF TerminalsInv, LocksAreTrue, Held, Slot, TerminalsTypeOK
      <4>2. ASSUME NEW d \in Calls, call'[d].pc = "spawned"
            PROVE  /\ holder'[call'[d].slot] = d
                   /\ terminal[call'[d].slot] # NoCall => process'[terminal[call'[d].slot]] # "live"
        <5>1. CASE d = c
          BY <1>0, <2>2, <2>3, <2>4, <3>1, <3>2, <3>3, <5>1 DEF TerminalsInv, ProcessesAreTrue, Live
        <5>2. CASE d # c
          <6>1. call'[d] = call[d] /\ call[d].slot \in Calls /\ call[d].slot # s
            BY <1>0, <2>2, <3>1, <4>2, <5>2
               DEF TerminalsInv, LocksAreTrue, CommandsAreTrue, Working, Slot, Held, CallStates
          <6> QED
            BY <1>0, <2>3, <3>2, <3>3, <4>2, <6>1
               DEF TerminalsInv, LocksAreTrue, ProcessesAreTrue, Slot, Live, TerminalsTypeOK
        <5> QED
          BY <5>1, <5>2
      <4> QED
        BY <2>2, <4>1, <4>2 DEF LocksAreTrue, Slot, Live, Held
    <3>10. ClosingIsOwned'
      BY <1>0, <2>2, <2>3, <2>4, <3>1, <3>3 DEF TerminalsInv, ClosingIsOwned, Closes, Held, At, Slot
    <3>11. UsedIsMapped'
      BY <1>0, <2>2, <2>3, <2>4, <3>1, <3>3
         DEF TerminalsInv, UsedIsMapped, CommandsAreTrue, Working, Closes, Held, At, Slot
    <3> QED
      BY <3>4, <3>5, <3>6, <3>7, <3>8, <3>9, <3>10, <3>11 DEF TerminalsInv
  <2>5. CASE process' = process /\ holder' = holder /\ (Goto(c, "cleanup") \/ Goto(c, "done"))
    <3>1. PICK pc \in {"cleanup", "done"} : Goto(c, pc)
      BY <2>5
    <3>2. /\ call' \in [Calls -> CallStates] /\ call'[c].pc = pc /\ call'[c].op = "start"
          /\ call'[c].slot \in {s, NoCall} /\ \A d \in Calls : d # c => call'[d] = call[d]
      BY <1>0, <2>2, <3>1, GotoMoves DEF Steps
    <3>3. TerminalsTypeOK'
      BY <1>0, <2>2, <2>3, <2>5, <3>2 DEF TerminalsTypeOK, CallStates, Ops, Steps
    <3>4. NoProcessIsLost' /\ MessagesAreWhole' /\ TypistsAreTrue'
      BY <1>0, <2>2, <2>5, <3>2 DEF TerminalsInv, NoProcessIsLost, MessagesAreWhole, TypistsAreTrue, Live
    <3>5. ProcessesAreTrue' /\ CommandsAreTrue' /\ ExitIsTrue'
      BY <1>0, <2>2, <2>3, <2>5, <3>2
         DEF TerminalsInv, ProcessesAreTrue, CommandsAreTrue, ExitIsTrue, Working, Slot, At
    <3>6. SlotsAreFresh'
      BY <1>0, <2>2, <3>2 DEF TerminalsInv, SlotsAreFresh, Fresh, Slot
    <3>7. LocksAreTrue'
      BY <1>0, <2>2, <2>5, <3>2, SMTT(30) DEF TerminalsInv, LocksAreTrue, Held, Slot, Live, TerminalsTypeOK
    <3>8. ClosingIsOwned'
      BY <1>0, <2>2, <2>5, <3>2 DEF TerminalsInv, ClosingIsOwned, Closes, Held, At, Slot
    <3>9. UsedIsMapped'
      BY <1>0, <2>2, <2>5, <3>2 DEF TerminalsInv, UsedIsMapped, Working, Closes, Held, At, Slot
    <3> QED
      BY <3>3, <3>4, <3>5, <3>6, <3>7, <3>8, <3>9 DEF TerminalsInv
  <2> QED
    BY <1>4, <2>1, <2>4, <2>5 DEF Spawn
<1>5. CASE FinishStart(c)
  <2>1. PICK s : s = Slot(c)
    OBVIOUS
  <2>2. /\ call[c].op = "start" /\ call[c].pc = "spawned" /\ call[c].slot = s /\ s \in Calls
        /\ holder' = [holder EXCEPT ![s] = NoCall] /\ holder[s] = c
        /\ UNCHANGED <<session, stopping, closing, typist, input, exit>>
    BY <1>0, <1>5, <2>1
       DEF FinishStart, At, Slot, CallStates, TerminalsInv, CommandsAreTrue, LocksAreTrue, Working
  <2>3. /\ holder' \in [Calls -> Calls \cup {NoCall}] /\ holder'[s] = NoCall
        /\ \A u \in Calls : u # s => holder'[u] = holder[u]
    BY <1>0, <2>2 DEF TerminalsTypeOK
  <2>4. PICK pc \in {"cleanup", "done"} :
          /\ Goto(c, pc)
          /\ \/ Obsolete(s) /\ Killed(c) /\ UNCHANGED terminal
             \/ ~Obsolete(s) /\ terminal' = [terminal EXCEPT ![s] = c] /\ UNCHANGED <<closed, process, abandoned>>
    BY <1>5, <2>1 DEF FinishStart
  <2>5. /\ call' \in [Calls -> CallStates] /\ call'[c].pc = pc /\ call'[c].op = "start"
        /\ call'[c].slot \in {s, NoCall} /\ \A d \in Calls : d # c => call'[d] = call[d]
    BY <1>0, <2>2, <2>4, GotoMoves DEF Steps
  <2>6. \A d \in Calls : d # c /\ call[d].pc = "spawned" => call[d].slot \in Calls /\ call[d].slot # s
    BY <1>0, <2>2 DEF TerminalsInv, LocksAreTrue, CommandsAreTrue, Working, Slot, CallStates
  <2>7. MessagesAreWhole' /\ TypistsAreTrue' /\ CommandsAreTrue'
    BY <2>2, <2>5 DEF TerminalsInv, MessagesAreWhole, TypistsAreTrue, CommandsAreTrue, Working, Slot
  <2>8. UsedIsMapped'
    BY <1>0, <2>2, <2>3, <2>5
       DEF TerminalsInv, UsedIsMapped, CommandsAreTrue, Working, Closes, Held, At, Slot, CallStates
  <2>9. CASE Obsolete(s) /\ Killed(c) /\ UNCHANGED terminal
    <3>1. /\ process' \in [Calls -> {"none", "live", "dead"}] /\ closed' \subseteq Calls /\ abandoned' \subseteq Calls
          /\ abandoned \subseteq abandoned' /\ (process'[c] = "live" => c \in abandoned')
          /\ \A p \in Calls : p # c => process'[p] = process[p]
          /\ \A p \in closed' : process'[p] = "dead"
          /\ process[c] # "none" => process'[c] # "none"
          /\ process'[c] \in {"dead", process[c]}
      BY <1>0, <2>9 DEF Killed, Live, TerminalsInv, ProcessesAreTrue, TerminalsTypeOK
    <3>2. TerminalsTypeOK'
      BY <1>0, <2>2, <2>3, <2>5, <2>9, <3>1 DEF TerminalsTypeOK, CallStates, Ops, Steps
    <3>3. NoProcessIsLost'
      BY <1>0, <2>2, <2>5, <2>9, <3>1 DEF TerminalsInv, NoProcessIsLost, Live
    <3>4. ProcessesAreTrue'
      BY <1>0, <2>2, <2>5, <2>9, <3>1 DEF TerminalsInv, ProcessesAreTrue, At, TerminalsTypeOK
    <3>5. ExitIsTrue'
      BY <2>2, <2>9 DEF TerminalsInv, ExitIsTrue
    <3>6. SlotsAreFresh'
      BY <1>0, <2>2, <2>5, <2>9 DEF TerminalsInv, SlotsAreFresh, Fresh, Slot
    <3>7. LocksAreTrue'
      BY <1>0, <2>2, <2>3, <2>5, <2>6, <2>9, <3>1
         DEF TerminalsInv, LocksAreTrue, Held, Slot, Live, TerminalsTypeOK
    <3>8. ClosingIsOwned'
      BY <1>0, <2>2, <2>3, <2>5, <2>9
         DEF TerminalsInv, ClosingIsOwned, Closes, Held, At, Slot, CommandsAreTrue, Working, CallStates
    <3> QED
      BY <2>7, <2>8, <3>2, <3>3, <3>4, <3>5, <3>6, <3>7, <3>8 DEF TerminalsInv
  <2>10. CASE ~Obsolete(s) /\ terminal' = [terminal EXCEPT ![s] = c] /\ UNCHANGED <<closed, process, abandoned>>
    <3>1. /\ terminal' \in [Calls -> Calls \cup {NoCall}] /\ terminal'[s] = c
          /\ \A u \in Calls : u # s => terminal'[u] = terminal[u]
      BY <1>0, <2>2, <2>10 DEF TerminalsTypeOK
    <3>2. /\ ~stopping /\ s \notin closing /\ session = s /\ exit.pc = "open"
          /\ terminal[s] # NoCall => ~Live(terminal[s])
      BY <2>1, <2>2, <2>10 DEF Obsolete, TerminalsInv, UsedIsMapped, ExitIsTrue, LocksAreTrue, Working, Slot
    <3>3. TerminalsTypeOK'
      BY <1>0, <2>2, <2>3, <2>5, <2>10, <3>1 DEF TerminalsTypeOK, CallStates, Ops, Steps
    <3>4. NoProcessIsLost'
      BY <1>0, <2>2, <2>5, <2>10, <3>1, <3>2 DEF TerminalsInv, NoProcessIsLost, Live
    <3>5. ProcessesAreTrue'
      <4>1. process[c] # "none"
        BY <1>0, <2>2 DEF TerminalsInv, ProcessesAreTrue
      <4> QED
        BY <1>0, <2>2, <2>5, <2>10, <3>1, <4>1 DEF TerminalsInv, ProcessesAreTrue, At
    <3>6. ExitIsTrue'
      BY <2>2, <3>2 DEF TerminalsInv, ExitIsTrue
    <3>7. SlotsAreFresh'
      BY <1>0, <2>2, <2>5, <2>10, <3>1 DEF TerminalsInv, SlotsAreFresh, Fresh, Slot
    <3>8. LocksAreTrue'
      BY <1>0, <2>2, <2>3, <2>5, <2>6, <2>10, <3>1, SMTT(30)
         DEF TerminalsInv, LocksAreTrue, Held, Slot, Live, TerminalsTypeOK
    <3>9. ClosingIsOwned'
      BY <1>0, <2>2, <2>3, <2>5, <2>10, <3>1, <3>2, SMTT(30)
         DEF TerminalsInv, ClosingIsOwned, Closes, Held, At, Slot, CommandsAreTrue, Working, CallStates
    <3> QED
      BY <2>7, <2>8, <3>3, <3>4, <3>5, <3>6, <3>7, <3>8, <3>9 DEF TerminalsInv
  <2> QED
    BY <2>4, <2>9, <2>10
<1>6. CASE Tidy(c)
  <2>1. PICK s : s = Slot(c)
    OBVIOUS
  <2>2. /\ call[c].op = "start" /\ call[c].pc = "tidy" /\ call[c].slot = s /\ s \in Calls /\ ~Held(s)
        /\ UNCHANGED <<session, stopping, holder, closed, process, typist, input, exit, abandoned>>
    BY <1>0, <1>6, <2>1 DEF Tidy, At, Slot, CallStates, TerminalsInv, CommandsAreTrue, Working
  <2>3. CASE Goto(c, "done") /\ UNCHANGED <<closing, terminal>>
    <3>1. PICK r : r = Moved(call[c], "done")
      OBVIOUS
    <3>2. r \in CallStates /\ r.pc = "done" /\ r.slot = NoCall
      BY <1>0, <3>1, MovesOn DEF Steps
    <3>3. call' = [call EXCEPT ![c] = r]
      BY <2>3, <3>1 DEF Goto
    <3> QED
      BY <2>2, <2>3, <3>2, <3>3, CallKeepsTerminalsInv
  <2>4. CASE IsIdle(s) /\ closing' = closing \cup {s} /\ terminal' = [terminal EXCEPT ![s] = NoCall] /\ Goto(c, "remove")
    <3>1. /\ call' \in [Calls -> CallStates] /\ call'[c].pc = "remove" /\ call'[c].op = "start"
          /\ call'[c].slot = s /\ \A d \in Calls : d # c => call'[d] = call[d]
      BY <1>0, <2>2, <2>4, GotoMoves DEF Steps
    <3>2. /\ terminal' \in [Calls -> Calls \cup {NoCall}] /\ terminal'[s] = NoCall
          /\ \A u \in Calls : u # s => terminal'[u] = terminal[u]
      BY <1>0, <2>2, <2>4 DEF TerminalsTypeOK
    <3>3. s \notin closing /\ (terminal[s] # NoCall => ~Live(terminal[s]))
      BY <2>4 DEF IsIdle, TerminalsInv, ProcessesAreTrue, Live
    <3>4. TerminalsTypeOK'
      BY <1>0, <2>2, <2>4, <3>1, <3>2 DEF TerminalsTypeOK, CallStates, Ops, Steps
    <3>5. NoProcessIsLost' /\ MessagesAreWhole' /\ TypistsAreTrue'
      <4>1. \A u \in Calls : terminal[u] = NoCall \/ ~Live(terminal[u]) \/ terminal'[u] = terminal[u]
        BY <3>2, <3>3
      <4>2. NoProcessIsLost'
        BY <1>0, <2>2, <3>1, <4>1 DEF TerminalsInv, NoProcessIsLost, Live, ExitIsTrue, TerminalsTypeOK
      <4> QED
        BY <2>2, <3>1, <4>2 DEF TerminalsInv, MessagesAreWhole, TypistsAreTrue
    <3>6. ProcessesAreTrue' /\ CommandsAreTrue' /\ ExitIsTrue'
      <4>1. ProcessesAreTrue'
        BY <1>0, <2>2, <3>1, <3>2 DEF TerminalsInv, ProcessesAreTrue, At
      <4>2. CommandsAreTrue'
        BY <1>0, <2>2, <3>1 DEF TerminalsInv, CommandsAreTrue, Working, Slot
      <4>3. ExitIsTrue'
        BY <1>0, <2>2, <3>2 DEF TerminalsInv, ExitIsTrue, TerminalsTypeOK
      <4> QED
        BY <4>1, <4>2, <4>3
    <3>7. SlotsAreFresh'
      BY <1>0, <2>2, <2>4, <3>1, <3>2 DEF TerminalsInv, SlotsAreFresh, Fresh, Slot
    <3>8. LocksAreTrue'
      <4>1. \A d \in Calls : call[d].pc = "spawned" => call[d].slot \in Calls /\ call[d].slot # s
        BY <1>0, <2>2 DEF TerminalsInv, LocksAreTrue, CommandsAreTrue, Working, Slot, Held, CallStates
      <4> QED
        BY <1>0, <2>2, <3>1, <3>2, <4>1, SMTT(30)
           DEF TerminalsInv, LocksAreTrue, Held, Slot, Live, TerminalsTypeOK
    <3>9. ClosingIsOwned'
      BY <1>0, <2>2, <2>4, <3>1, <3>2, <3>3
         DEF TerminalsInv, ClosingIsOwned, Closes, Held, At, Slot, CommandsAreTrue, Working, CallStates
    <3>10. UsedIsMapped'
      BY <1>0, <2>2, <2>4, <3>1, <3>3
         DEF TerminalsInv, UsedIsMapped, CommandsAreTrue, Working, Closes, Held, At, Slot
    <3> QED
      BY <3>4, <3>5, <3>6, <3>7, <3>8, <3>9, <3>10 DEF TerminalsInv
  <2> QED
    BY <1>6, <2>1, <2>3, <2>4 DEF Tidy
<1> QED
  BY <1>1, <1>2, <1>3, <1>4, <1>5, <1>6 DEF StartStep

(* The steps of a close, and the removal of a slot from the map, preserve  *)
(* the invariant.                                                          *)
LEMMA CloseKeepsTerminalsInv ==
  ASSUME TerminalsInv, NEW c \in Calls, BeginClose(c) \/ CloseStep(c) \/ RemoveSlot(c)
  PROVE  TerminalsInv'
<1>0. TerminalsTypeOK /\ NoCall \notin Calls /\ call[c] \in CallStates /\ call \in [Calls -> CallStates]
  BY DEF TerminalsInv, NoCall, Calls, TerminalsTypeOK, CallStates, Ops, Steps
<1>1. CASE BeginClose(c)
  <2>1. PICK r0 : r0 = [NewCall EXCEPT !.op = "close", !.slot = session]
    OBVIOUS
  <2>2. PICK pc \in {"done", "lock"} : pc = IF session \in closing \cup {NoCall} THEN "done" ELSE "lock"
    OBVIOUS
  <2>3. PICK r : r = Moved(r0, pc)
    OBVIOUS
  <2>4. r0 \in CallStates /\ r0.slot = session /\ r0.op = "close"
    BY <1>0, <2>1 DEF NewCall, CallStates, TerminalsTypeOK, Ops, Steps
  <2>5. /\ r \in CallStates /\ r.op = "close" /\ r.pc = pc /\ r.slot \in {NoCall, session}
        /\ r.pc = "lock" => r.slot = session /\ session \in Calls /\ session \notin closing
    BY <1>0, <2>2, <2>3, <2>4, MovesOn DEF Steps, TerminalsTypeOK
  <2>6. /\ call' = [call EXCEPT ![c] = r] /\ call[c].pc = "new" /\ closing' = closing \cup ({session} \ {NoCall})
        /\ UNCHANGED <<session, stopping, holder, terminal, closed, process, typist, input, exit, abandoned>>
    BY <1>1, <2>1, <2>2, <2>3 DEF BeginClose, New, NewCall
  <2>7. call' \in [Calls -> CallStates] /\ call'[c] = r /\ \A d \in Calls : d # c => call'[d] = call[d]
    BY <1>0, <2>5, <2>6, CallMoves
  <2>8. TerminalsTypeOK'
    BY <1>0, <2>6, <2>7 DEF TerminalsTypeOK, CallStates, Ops, Steps
  <2>9. NoProcessIsLost' /\ MessagesAreWhole' /\ TypistsAreTrue'
    BY <2>2, <2>5, <2>6, <2>7 DEF TerminalsInv, NoProcessIsLost, MessagesAreWhole, TypistsAreTrue, Live
  <2>10. ProcessesAreTrue'
    BY <2>2, <2>5, <2>6, <2>7 DEF TerminalsInv, ProcessesAreTrue, At
  <2>11. CommandsAreTrue' /\ ExitIsTrue'
    BY <1>0, <2>2, <2>5, <2>6, <2>7 DEF TerminalsInv, CommandsAreTrue, ExitIsTrue, Working, Slot
  <2>12. SlotsAreFresh'
    BY <1>0, <2>2, <2>5, <2>6, <2>7 DEF TerminalsInv, SlotsAreFresh, Fresh, Slot
  <2>13. LocksAreTrue'
    BY <1>0, <2>2, <2>5, <2>6, <2>7 DEF TerminalsInv, LocksAreTrue, Held, Slot, Live, TerminalsTypeOK
  <2>14. ClosingIsOwned'
    BY <1>0, <2>2, <2>5, <2>6, <2>7 DEF TerminalsInv, ClosingIsOwned, Closes, Held, At, Slot
  <2>15. UsedIsMapped'
    BY <1>0, <2>2, <2>5, <2>6, <2>7 DEF TerminalsInv, UsedIsMapped, Working, Closes, Held, At, Slot
  <2> QED
    BY <2>8, <2>9, <2>10, <2>11, <2>12, <2>13, <2>14, <2>15 DEF TerminalsInv
<1>2. CASE CloseTerminal(c)
  <2>1. PICK s, p : s = Slot(c) /\ p = terminal[s]
    OBVIOUS
  <2>2. /\ call[c].op = "close" /\ call[c].pc = "lock" /\ call[c].slot = s /\ s \in Calls /\ s \in closing /\ ~Held(s)
        /\ UNCHANGED <<session, stopping, holder, closing, typist, input, exit, abandoned>>
    BY <1>0, <1>2, <2>1
       DEF CloseTerminal, At, Slot, CallStates, TerminalsInv, CommandsAreTrue, Working, ClosingIsOwned,
           Closes
  <2>3. p \in Calls \cup {NoCall}
    BY <1>0, <2>1, <2>2 DEF TerminalsTypeOK
  <2>4. PICK pc \in {"remove", "unmark"} :
          /\ Goto(c, pc)
          /\ \/ p = NoCall /\ UNCHANGED <<process, closed, terminal>>
             \/ /\ p \in Calls /\ process' = [process EXCEPT ![p] = "dead"] /\ closed' = closed \cup {p}
                /\ terminal' = [terminal EXCEPT ![s] = NoCall]
             \/ pc = "unmark" /\ UNCHANGED <<process, closed, terminal>>
    BY <1>2, <2>1, <2>3 DEF CloseTerminal
  <2>5. /\ call' \in [Calls -> CallStates] /\ call'[c].pc = pc /\ call'[c].op = "close"
        /\ call'[c].slot = s /\ \A d \in Calls : d # c => call'[d] = call[d]
    BY <1>0, <2>2, <2>4, GotoMoves DEF Steps
  <2>6. /\ terminal' \in [Calls -> Calls \cup {NoCall}] /\ (pc = "remove" => terminal'[s] = NoCall)
        /\ terminal'[s] \in {NoCall, p} /\ \A u \in Calls : u # s => terminal'[u] = terminal[u]
        /\ process' \in [Calls -> {"none", "live", "dead"}] /\ closed' \subseteq Calls
        /\ \A q \in closed' : process'[q] = "dead"
        /\ \A q \in Calls : process'[q] \in {"dead", process[q]}
        /\ terminal'[s] # p => p \in Calls /\ process'[p] = "dead"
        /\ \A q \in Calls : q # p => process'[q] = process[q]
        /\ p = NoCall => process' = process
    <3>1. /\ terminal \in [Calls -> Calls \cup {NoCall}] /\ process \in [Calls -> {"none", "live", "dead"}]
          /\ closed \subseteq Calls /\ \A q \in closed : process[q] = "dead"
      BY <1>0 DEF TerminalsTypeOK, TerminalsInv, ProcessesAreTrue
    <3>2. CASE UNCHANGED <<process, closed, terminal>>
      <4>1. pc = "remove" => p = NoCall
        BY <1>0, <2>1, <2>2, <2>4, <3>1, <3>2
      <4> QED
        BY <2>1, <2>2, <2>3, <3>1, <3>2, <4>1
    <3>3. CASE /\ p \in Calls /\ process' = [process EXCEPT ![p] = "dead"] /\ closed' = closed \cup {p}
               /\ terminal' = [terminal EXCEPT ![s] = NoCall]
      BY <1>0, <2>1, <2>2, <2>3, <3>1, <3>3
    <3> QED
      BY <2>4, <3>2, <3>3
  <2>7. p # NoCall => process[p] # "none"
    BY <2>1, <2>2 DEF TerminalsInv, ProcessesAreTrue
  <2>8. TerminalsTypeOK'
    BY <1>0, <2>2, <2>5, <2>6 DEF TerminalsTypeOK, CallStates, Ops, Steps
  <2>9. NoProcessIsLost'
    <3>1. ASSUME NEW q \in Calls, Live(q)', NEW u \in Calls, terminal[u] = q
          PROVE  terminal'[u] = q
      BY <2>1, <2>6, <3>1 DEF Live
    <3>2. \A q \in Calls : Live(q)' => Live(q)
      BY <2>6 DEF Live
    <3> QED
      BY <1>0, <2>2, <2>5, <3>1, <3>2 DEF TerminalsInv, NoProcessIsLost, ExitIsTrue, TerminalsTypeOK
  <2>10. MessagesAreWhole' /\ TypistsAreTrue' /\ CommandsAreTrue'
    BY <1>0, <2>2, <2>5 DEF TerminalsInv, MessagesAreWhole, TypistsAreTrue, CommandsAreTrue, Working, Slot
  <2>11. ProcessesAreTrue'
    <3>1. \A u \in Calls : terminal'[u] # NoCall => terminal'[u] = terminal[u] /\ terminal[u] \in Calls
      BY <1>0, <2>1, <2>6 DEF TerminalsTypeOK
    <3>2. \A q \in Calls : process[q] # "none" => process'[q] # "none"
      BY <2>6
    <3>3. \A u \in Calls : terminal'[u] # NoCall => process'[terminal'[u]] # "none"
      BY <3>1, <3>2 DEF TerminalsInv, ProcessesAreTrue
    <3>4. \A d \in Calls : process[d] = "none" => process'[d] = "none"
      BY <2>6, <2>7
    <3> QED
      BY <2>2, <2>5, <2>6, <3>2, <3>3, <3>4 DEF TerminalsInv, ProcessesAreTrue, At
  <2>12. ExitIsTrue'
    BY <1>0, <2>1, <2>2, <2>6 DEF TerminalsInv, ExitIsTrue, TerminalsTypeOK
  <2>13. SlotsAreFresh'
    BY <1>0, <2>1, <2>2, <2>5, <2>6 DEF TerminalsInv, SlotsAreFresh, Fresh, Slot
  <2>14. LocksAreTrue'
    <3>1. \A d \in Calls : call[d].pc = "spawned" => call[d].slot \in Calls /\ call[d].slot # s
      BY <1>0, <2>2 DEF TerminalsInv, LocksAreTrue, CommandsAreTrue, Working, Slot, Held, CallStates
    <3>2. \A q \in Calls : Live(q)' => Live(q)
      BY <2>6 DEF Live
    <3>3. \A u \in Calls : Held(u)' => call'[holder'[u]].pc = "spawned" /\ call'[holder'[u]].slot = u
      BY <1>0, <2>2, <2>5 DEF TerminalsInv, LocksAreTrue, Held, Slot, TerminalsTypeOK
    <3>4. ASSUME NEW d \in Calls, call'[d].pc = "spawned"
          PROVE  /\ holder'[call'[d].slot] = d
                 /\ terminal'[call'[d].slot] # NoCall => ~Live(terminal[call[d].slot]) /\ terminal'[call'[d].slot] = terminal[call[d].slot]
      <4>1. call'[d] = call[d] /\ call[d].slot \in Calls /\ call[d].slot # s
        BY <2>4, <2>5, <3>1, <3>4
      <4> QED
        BY <2>2, <2>6, <3>4, <4>1 DEF TerminalsInv, LocksAreTrue, Slot
    <3>5. \A u \in Calls : terminal[u] # NoCall => terminal[u] \in Calls
      BY <1>0 DEF TerminalsTypeOK
    <3>6. \A d \in Calls : call[d].pc = "spawned" => call'[d].slot = call[d].slot
      BY <2>2, <2>5
    <3> QED
      BY <3>1, <3>2, <3>3, <3>4, <3>5, <3>6, <2>2, <2>5 DEF LocksAreTrue, Held, Slot, Live
  <2>15. ClosingIsOwned'
    BY <1>0, <2>1, <2>2, <2>5, <2>6, SMTT(30)
       DEF TerminalsInv, ClosingIsOwned, Closes, Held, At, Slot, CommandsAreTrue, Working, CallStates
  <2>16. UsedIsMapped'
    BY <1>0, <2>2, <2>5 DEF TerminalsInv, UsedIsMapped, Working, Closes, Held, At, Slot
  <2> QED
    BY <2>8, <2>9, <2>10, <2>11, <2>12, <2>13, <2>14, <2>15, <2>16 DEF TerminalsInv
<1>3. CASE UnmarkClosing(c)
  <2>1. PICK s : s = Slot(c)
    OBVIOUS
  <2>2. /\ call[c].op = "close" /\ call[c].pc = "unmark" /\ call[c].slot = s /\ s \in Calls
        /\ ~Held(s) /\ closing' = closing \ {s} /\ Goto(c, "done")
        /\ UNCHANGED <<session, stopping, holder, terminal, closed, process, typist, input, exit, abandoned>>
    BY <1>0, <1>3, <2>1
       DEF UnmarkClosing, At, Slot, CallStates, TerminalsInv, CommandsAreTrue, Working, ClosingIsOwned
  <2>3. /\ call' \in [Calls -> CallStates] /\ call'[c].pc = "done" /\ call'[c].op = "close"
        /\ call'[c].slot = NoCall /\ \A d \in Calls : d # c => call'[d] = call[d]
    BY <1>0, <2>2, GotoMoves DEF Steps
  <2>4. ~stopping => session = s
    BY <2>2 DEF TerminalsInv, UsedIsMapped, Working, Closes, Slot
  <2>5. TerminalsTypeOK'
    BY <1>0, <2>2, <2>3 DEF TerminalsTypeOK, CallStates, Ops, Steps
  <2>6. NoProcessIsLost' /\ MessagesAreWhole' /\ TypistsAreTrue'
    BY <2>2, <2>3 DEF TerminalsInv, NoProcessIsLost, MessagesAreWhole, TypistsAreTrue, Live
  <2>7. ProcessesAreTrue'
    BY <2>2, <2>3 DEF TerminalsInv, ProcessesAreTrue, At
  <2>8. CommandsAreTrue' /\ ExitIsTrue'
    BY <1>0, <2>2, <2>3 DEF TerminalsInv, CommandsAreTrue, ExitIsTrue, Working, Slot
  <2>9. SlotsAreFresh'
    BY <1>0, <2>2, <2>3 DEF TerminalsInv, SlotsAreFresh, Fresh, Slot
  <2>10. LocksAreTrue'
    BY <1>0, <2>2, <2>3, SMTT(30) DEF TerminalsInv, LocksAreTrue, Held, Slot, Live, TerminalsTypeOK
  <2>11. ClosingIsOwned'
    BY <1>0, <2>2, <2>3 DEF TerminalsInv, ClosingIsOwned, Closes, Held, At, Slot
  <2>12. UsedIsMapped'
    BY <1>0, <2>2, <2>3, <2>4 DEF TerminalsInv, UsedIsMapped, Working, Closes, Held, At, Slot
  <2> QED
    BY <2>5, <2>6, <2>7, <2>8, <2>9, <2>10, <2>11, <2>12 DEF TerminalsInv
<1>4. CASE RemoveSlot(c)
  <2>1. PICK s : s = Slot(c)
    OBVIOUS
  <2>2. /\ call[c].pc = "remove" /\ call[c].slot = s /\ s \in Calls /\ s \in closing
        /\ ~Held(s) /\ terminal[s] = NoCall /\ Goto(c, "done")
        /\ session' = IF session = s THEN NoCall ELSE session
        /\ UNCHANGED <<stopping, holder, terminal, closing, closed, process, typist, input, exit, abandoned>>
    BY <1>0, <1>4, <2>1
       DEF RemoveSlot, Slot, CallStates, TerminalsInv, CommandsAreTrue, Working, ClosingIsOwned, Closes
  <2>3. /\ call' \in [Calls -> CallStates] /\ call'[c].pc = "done" /\ call'[c].op = call[c].op
        /\ call'[c].slot = NoCall /\ \A d \in Calls : d # c => call'[d] = call[d]
    BY <1>0, <2>2, GotoMoves DEF Steps
  <2>4. TerminalsTypeOK'
    BY <1>0, <2>2, <2>3 DEF TerminalsTypeOK, CallStates, Ops, Steps
  <2>5. NoProcessIsLost' /\ MessagesAreWhole' /\ TypistsAreTrue'
    BY <1>0, <2>2, <2>3 DEF TerminalsInv, NoProcessIsLost, MessagesAreWhole, TypistsAreTrue, Live
  <2>6. ProcessesAreTrue'
    BY <2>2, <2>3 DEF TerminalsInv, ProcessesAreTrue, At
  <2>7. CommandsAreTrue' /\ ExitIsTrue'
    BY <1>0, <2>2, <2>3 DEF TerminalsInv, CommandsAreTrue, ExitIsTrue, Working, Slot
  <2>8. SlotsAreFresh'
    BY <1>0, <2>2, <2>3 DEF TerminalsInv, SlotsAreFresh, Fresh, Slot
  <2>9. LocksAreTrue'
    BY <1>0, <2>2, <2>3 DEF TerminalsInv, LocksAreTrue, Held, Slot, Live, TerminalsTypeOK
  <2>10. ClosingIsOwned'
    BY <1>0, <2>2, <2>3 DEF TerminalsInv, ClosingIsOwned, Closes, Held, At, Slot
  <2>11. UsedIsMapped'
    BY <1>0, <2>2, <2>3 DEF TerminalsInv, UsedIsMapped, ClosingIsOwned, Working, Closes, Held, At, Slot
  <2> QED
    BY <2>4, <2>5, <2>6, <2>7, <2>8, <2>9, <2>10, <2>11 DEF TerminalsInv
<1> QED
  BY <1>1, <1>2, <1>3, <1>4 DEF CloseStep

(* The steps of a message preserve the invariant.                          *)
LEMMA WriteKeepsTerminalsInv ==
  ASSUME TerminalsInv, NEW c \in Calls, BeginWrite(c) \/ WriteStep(c)
  PROVE  TerminalsInv'
<1>0. TerminalsTypeOK /\ NoCall \notin Calls /\ call[c] \in CallStates /\ call \in [Calls -> CallStates]
  BY DEF TerminalsInv, NoCall, Calls, TerminalsTypeOK, CallStates, Ops, Steps
<1>1. CASE BeginWrite(c)
  <2>1. PICK r0 : r0 = [NewCall EXCEPT !.op = "write", !.slot = session]
    OBVIOUS
  <2>2. PICK pc \in {"done", "lock"} : pc = IF session \in closing \cup {NoCall} THEN "done" ELSE "lock"
    OBVIOUS
  <2>3. PICK r : r = Moved(r0, pc)
    OBVIOUS
  <2>4. r0 \in CallStates /\ r0.slot = session /\ r0.op = "write"
    BY <1>0, <2>1 DEF NewCall, CallStates, TerminalsTypeOK, Ops, Steps
  <2>5. /\ r \in CallStates /\ r.op = "write" /\ r.pc = pc /\ r.slot \in {NoCall, session}
        /\ r.pc = "lock" => r.slot = session /\ session # NoCall
    BY <2>2, <2>3, <2>4, MovesOn DEF Steps
  <2>6. /\ call' = [call EXCEPT ![c] = r] /\ call[c].pc = "new"
        /\ UNCHANGED <<session, stopping, holder, terminal, closing, closed, process, typist, input, exit, abandoned>>
    BY <1>1, <2>1, <2>2, <2>3 DEF BeginWrite, New, NewCall
  <2> QED
    BY <2>2, <2>5, <2>6, CallKeepsTerminalsInv
<1>2. CASE FindProcess(c)
  <2>1. PICK s : s = Slot(c)
    OBVIOUS
  <2>2. /\ call[c].op = "write" /\ call[c].pc = "lock" /\ call[c].slot = s /\ s \in Calls /\ Working(c)
        /\ UNCHANGED <<session, stopping, holder, terminal, closing, closed, process, typist, input, exit, abandoned>>
    BY <1>0, <1>2, <2>1 DEF FindProcess, At, Slot, CallStates, TerminalsInv, CommandsAreTrue, Working
  <2>3. CASE Goto(c, "done")
    <3>1. PICK r : r = Moved(call[c], "done")
      OBVIOUS
    <3>2. r \in CallStates /\ r.pc = "done" /\ r.slot = NoCall
      BY <1>0, <3>1, MovesOn DEF Steps
    <3>3. call' = [call EXCEPT ![c] = r]
      BY <2>3, <3>1 DEF Goto
    <3> QED
      BY <2>2, <3>2, <3>3, CallKeepsTerminalsInv
  <2>4. CASE HasLive(s) /\ call' = [call EXCEPT ![c].pc = "typing", ![c].target = terminal[s]]
    <3>1. PICK r : r = [call[c] EXCEPT !.pc = "typing", !.target = terminal[s]]
      OBVIOUS
    <3>2. /\ r \in CallStates /\ r.pc = "typing" /\ r.slot = call[c].slot /\ r.op = "write"
          /\ r.target # NoCall /\ r.slot # NoCall
      BY <1>0, <2>2, <2>4, <3>1 DEF HasLive, CallStates, TerminalsTypeOK, Ops, Steps
    <3>3. call' = [call EXCEPT ![c] = r]
      BY <2>4, <3>1
    <3> QED
      BY <2>2, <3>2, <3>3, CallKeepsTerminalsInv
  <2> QED
    BY <1>2, <2>1, <2>3, <2>4 DEF FindProcess
<1>3. CASE Paste(c) \/ Submit(c)
  <2>1. PICK p : p = call[c].target
    OBVIOUS
  <2>2. /\ call[c].op = "write" /\ call[c].pc \in {"typing", "pasted"} /\ p \in Calls /\ Slot(c) # NoCall
        /\ UNCHANGED <<session, stopping, holder, terminal, closing, closed, process, exit, abandoned>>
    BY <1>0, <1>3, <2>1 DEF Paste, Submit, At, CallStates, TerminalsInv, CommandsAreTrue, Working
  <2>3. PICK pc \in {"pasted", "done"} :
          /\ Goto(c, pc)
          /\ typist' \in [Calls -> Calls \cup {NoCall}] /\ input' \in [Calls -> Calls \cup {NoCall}]
          /\ \A q \in Calls : q # p => typist'[q] = typist[q] /\ input'[q] = input[q]
          /\ pc = "pasted" => typist'[p] = c /\ input'[p] = c
          /\ typist[p] \in {NoCall, c} \/ (typist' = typist /\ input' = input)
    <3>1. CASE Paste(c)
      BY <1>0, <2>1, <2>2, <3>1, SMTT(30) DEF Paste, TerminalsTypeOK
    <3>2. CASE Submit(c)
      <4>1. /\ Goto(c, "done") /\ typist' = [typist EXCEPT ![p] = NoCall] /\ typist[p] = c
            /\ input' = [input EXCEPT ![p] = NoCall] \/ input' = input
        BY <2>1, <3>2 DEF Submit, At, TerminalsInv, TypistsAreTrue
      <4> QED
        BY <1>0, <2>2, <4>1 DEF TerminalsTypeOK
    <3> QED
      BY <1>3, <3>1, <3>2
  <2>4. /\ call' \in [Calls -> CallStates] /\ call'[c].pc = pc /\ call'[c].op = "write"
        /\ pc = "done" => call'[c].slot = NoCall
        /\ pc = "pasted" => call'[c].slot = call[c].slot /\ call'[c].target = p
        /\ \A d \in Calls : d # c => call'[d] = call[d]
    BY <1>0, <2>1, <2>2, <2>3, GotoMoves DEF Steps
  <2>5. TerminalsTypeOK'
    BY <1>0, <2>2, <2>3, <2>4 DEF TerminalsTypeOK, CallStates, Ops, Steps
  <2>6. MessagesAreWhole' /\ TypistsAreTrue'
    <3>1. ASSUME NEW d \in Calls, call'[d].pc = "pasted"
          PROVE  typist'[call'[d].target] = d /\ input'[call'[d].target] = d
      <4>1. CASE d = c
        BY <2>3, <2>4, <3>1, <4>1
      <4>2. CASE d # c
        <5>1. /\ call'[d] = call[d] /\ call[d].target \in Calls
              /\ typist[call[d].target] = d /\ input[call[d].target] = d
          BY <1>0, <2>4, <3>1, <4>2
             DEF TerminalsInv, TypistsAreTrue, MessagesAreWhole, CommandsAreTrue, CallStates
        <5> QED
          BY <1>0, <2>3, <4>2, <5>1
      <4> QED
        BY <4>1, <4>2
    <3> QED
      BY <3>1 DEF MessagesAreWhole, TypistsAreTrue
  <2>7. NoProcessIsLost'
    BY <2>2, <2>4 DEF TerminalsInv, NoProcessIsLost, Live
  <2>8. ProcessesAreTrue'
    BY <2>2, <2>3, <2>4 DEF TerminalsInv, ProcessesAreTrue, At
  <2>9. CommandsAreTrue' /\ ExitIsTrue'
    BY <1>0, <2>2, <2>3, <2>4 DEF TerminalsInv, CommandsAreTrue, ExitIsTrue, Working, Slot
  <2>10. SlotsAreFresh'
    BY <1>0, <2>2, <2>3, <2>4 DEF TerminalsInv, SlotsAreFresh, Fresh, Slot
  <2>11. LocksAreTrue'
    BY <1>0, <2>2, <2>3, <2>4, SMTT(30) DEF TerminalsInv, LocksAreTrue, Held, Slot, Live, TerminalsTypeOK
  <2>12. ClosingIsOwned'
    BY <1>0, <2>2, <2>3, <2>4 DEF TerminalsInv, ClosingIsOwned, Closes, Held, At, Slot
  <2>13. UsedIsMapped'
    BY <1>0, <2>2, <2>3, <2>4 DEF TerminalsInv, UsedIsMapped, Working, Closes, Held, At, Slot
  <2> QED
    BY <2>5, <2>6, <2>7, <2>8, <2>9, <2>10, <2>11, <2>12, <2>13 DEF TerminalsInv
<1> QED
  BY <1>1, <1>2, <1>3 DEF WriteStep

(* The exit of the application, and a process that ends by itself,         *)
(* preserve the invariant.                                                 *)
LEMMA ExitKeepsTerminalsInv ==
  ASSUME TerminalsInv, BeginExit \/ ExitStep \/ \E p \in Calls : ProcessEnds(p)
  PROVE  TerminalsInv'
<1>0. TerminalsTypeOK /\ NoCall \notin Calls
  BY DEF TerminalsInv, NoCall, Calls
<1>1. CASE BeginExit
  <2>1. /\ exit.pc = "open" /\ stopping' = TRUE /\ exit' = [exit EXCEPT !.pc = "drain"]
        /\ UNCHANGED <<session, holder, terminal, closing, closed, process, typist, input, call, abandoned>>
    BY <1>1 DEF BeginExit
  <2>2. exit' \in [pc: {"open", "drain", "close", "done"}, slot: Calls \cup {NoCall}] /\ exit'.pc = "drain" /\ exit'.slot = exit.slot
    BY <1>0, <2>1 DEF TerminalsTypeOK
  <2>3. TerminalsTypeOK'
    BY <1>0, <2>1, <2>2 DEF TerminalsTypeOK
  <2>4. NoProcessIsLost' /\ MessagesAreWhole' /\ TypistsAreTrue'
    BY <2>1, <2>2 DEF TerminalsInv, NoProcessIsLost, MessagesAreWhole, TypistsAreTrue, Live
  <2>5. ProcessesAreTrue' /\ CommandsAreTrue' /\ ExitIsTrue'
    BY <2>1, <2>2 DEF TerminalsInv, ProcessesAreTrue, CommandsAreTrue, ExitIsTrue, Working, Slot, At
  <2>6. SlotsAreFresh' /\ UsedIsMapped'
    BY <2>1, <2>2 DEF TerminalsInv, SlotsAreFresh, UsedIsMapped, Fresh, Slot
  <2>7. LocksAreTrue' /\ ClosingIsOwned'
    BY <2>1 DEF TerminalsInv, LocksAreTrue, ClosingIsOwned, Closes, Held, At, Slot, Live
  <2> QED
    BY <2>3, <2>4, <2>5, <2>6, <2>7 DEF TerminalsInv
<1>2. CASE DrainSessions
  <2>1. /\ exit.pc = "drain" /\ session' = NoCall
        /\ exit' = [pc |-> IF session = NoCall THEN "done" ELSE "close", slot |-> session]
        /\ UNCHANGED <<stopping, holder, terminal, closing, closed, process, typist, input, call, abandoned>>
    BY <1>2 DEF DrainSessions
  <2>2. /\ exit' \in [pc: {"open", "drain", "close", "done"}, slot: Calls \cup {NoCall}] /\ exit'.slot = session
        /\ exit'.pc = IF session = NoCall THEN "done" ELSE "close"
    BY <1>0, <2>1 DEF TerminalsTypeOK
  <2>3. stopping
    BY <2>1 DEF TerminalsInv, ExitIsTrue
  <2>4. TerminalsTypeOK'
    BY <1>0, <2>1, <2>2 DEF TerminalsTypeOK
  <2>5. NoProcessIsLost' /\ MessagesAreWhole' /\ TypistsAreTrue'
    BY <2>1, <2>2 DEF TerminalsInv, NoProcessIsLost, MessagesAreWhole, TypistsAreTrue, Live
  <2>6. ProcessesAreTrue' /\ CommandsAreTrue' /\ ExitIsTrue'
    BY <2>1, <2>2 DEF TerminalsInv, ProcessesAreTrue, CommandsAreTrue, ExitIsTrue, Working, Slot, At
  <2>7. SlotsAreFresh' /\ UsedIsMapped'
    BY <1>0, <2>1, <2>2, <2>3 DEF TerminalsInv, SlotsAreFresh, UsedIsMapped, Fresh, Slot
  <2>8. LocksAreTrue' /\ ClosingIsOwned'
    BY <2>1 DEF TerminalsInv, LocksAreTrue, ClosingIsOwned, Closes, Held, At, Slot, Live
  <2> QED
    BY <2>4, <2>5, <2>6, <2>7, <2>8 DEF TerminalsInv
<1>3. ASSUME process' \in [Calls -> {"none", "live", "dead"}], closed' \subseteq Calls, abandoned' \subseteq Calls,
             \A p \in Calls : process'[p] = process[p] \/ (process[p] # "none" /\ process'[p] = "dead"),
             \A p \in closed' : process'[p] = "dead", abandoned \subseteq abandoned',
             exit' = exit \/ /\ exit' = [exit EXCEPT !.pc = "done"] /\ exit.pc = "close"
                             /\ \A p \in Calls : p = terminal[exit.slot] /\ Live(p)' => p \in abandoned',
             UNCHANGED <<session, stopping, holder, terminal, closing, typist, input, call>>
      PROVE  TerminalsInv'
  <2>1. /\ exit' \in [pc: {"open", "drain", "close", "done"}, slot: Calls \cup {NoCall}] /\ exit'.slot = exit.slot
        /\ exit'.pc = exit.pc \/ (exit'.pc = "done" /\ exit.pc = "close")
    BY <1>0, <1>3 DEF TerminalsTypeOK
  <2>2. \A p \in Calls : Live(p)' => Live(p)
    BY <1>3 DEF Live
  <2>3. TerminalsTypeOK'
    BY <1>0, <1>3, <2>1 DEF TerminalsTypeOK
  <2>4. NoProcessIsLost'
    <3> SUFFICES ASSUME NEW p \in Calls, Live(p)', p \notin abandoned', call[p].pc # "spawned",
                        ~(session # NoCall /\ terminal[session] = p)
                 PROVE  exit'.pc = "close" /\ terminal[exit'.slot] = p
      BY <1>3 DEF NoProcessIsLost
    <3>1. exit.pc = "close" /\ terminal[exit.slot] = p
      BY <1>3, <2>2 DEF TerminalsInv, NoProcessIsLost
    <3> QED
      BY <1>0, <1>3, <3>1
  <2>5. MessagesAreWhole' /\ TypistsAreTrue' /\ CommandsAreTrue' /\ ExitIsTrue'
    BY <1>3, <2>1
       DEF TerminalsInv, MessagesAreWhole, TypistsAreTrue, CommandsAreTrue, ExitIsTrue, Working, Slot
  <2>6. ProcessesAreTrue'
    <3>1. \A s \in Calls : terminal[s] # NoCall => terminal[s] \in Calls
      BY <1>0 DEF TerminalsTypeOK
    <3> QED
      BY <1>3, <3>1 DEF TerminalsInv, ProcessesAreTrue, At
  <2>7. SlotsAreFresh' /\ UsedIsMapped' /\ ClosingIsOwned'
    BY <1>3, <2>1
       DEF TerminalsInv, SlotsAreFresh, UsedIsMapped, ClosingIsOwned, Fresh, Slot, Working, Closes, Held, At
  <2>8. LocksAreTrue'
    <3>1. \A s \in Calls : terminal[s] # NoCall => terminal[s] \in Calls
      BY <1>0 DEF TerminalsTypeOK
    <3>2. \A d \in Calls : call[d].pc = "spawned" => Slot(d) \in Calls
      BY <1>0 DEF TerminalsInv, CommandsAreTrue, Working, Slot, TerminalsTypeOK
    <3> QED
      BY <1>3, <2>2, <3>1, <3>2 DEF TerminalsInv, LocksAreTrue, Held, Slot
  <2> QED
    BY <2>3, <2>4, <2>5, <2>6, <2>7, <2>8 DEF TerminalsInv
<1>4. CASE CloseDrained
  <2>1. PICK p : p = terminal[exit.slot]
    OBVIOUS
  <2>2. /\ exit.pc = "close" /\ exit' = [exit EXCEPT !.pc = "done"]
        /\ IF p = NoCall THEN UNCHANGED <<process, closed, abandoned>> ELSE Killed(p)
        /\ UNCHANGED <<session, stopping, holder, terminal, closing, typist, input, call>>
    BY <1>4, <2>1 DEF CloseDrained
  <2>3. /\ p \in Calls \cup {NoCall} /\ (p # NoCall => process[p] # "none")
        /\ process \in [Calls -> {"none", "live", "dead"}] /\ closed \subseteq Calls /\ abandoned \subseteq Calls
        /\ \A q \in closed : process[q] = "dead"
    BY <1>0, <2>1, <2>2 DEF TerminalsInv, TerminalsTypeOK, ExitIsTrue, ProcessesAreTrue
  <2>4. CASE p = NoCall
    BY <1>0, <1>3, <2>1, <2>2, <2>3, <2>4
  <2>5. CASE p # NoCall
    <3>1. CASE process' = [process EXCEPT ![p] = "dead"] /\ closed' = closed \cup {p} /\ UNCHANGED abandoned
      <4>1. ~Live(p)'
        BY <2>3, <2>5, <3>1 DEF Live
      <4> QED
        BY <1>3, <2>1, <2>2, <2>3, <2>5, <3>1, <4>1
    <3>2. CASE UNCHANGED <<process, closed>> /\ abandoned' = abandoned \cup {p}
      BY <1>3, <2>1, <2>2, <2>3, <2>5, <3>2
    <3> QED
      BY <2>2, <2>5, <3>1, <3>2 DEF Killed
  <2> QED
    BY <2>4, <2>5
<1>5. CASE \E p \in Calls : ProcessEnds(p)
  <2>1. PICK p \in Calls : /\ process[p] = "live" /\ process' = [process EXCEPT ![p] = "dead"]
                           /\ UNCHANGED <<session, stopping, holder, terminal, closing, closed, typist, input, call, exit, abandoned>>
    BY <1>5 DEF ProcessEnds, Live
  <2>2. /\ process \in [Calls -> {"none", "live", "dead"}] /\ closed \subseteq Calls /\ abandoned \subseteq Calls
        /\ \A q \in closed : process[q] = "dead"
    BY <1>0 DEF TerminalsInv, TerminalsTypeOK, ProcessesAreTrue
  <2> QED
    BY <1>3, <2>1, <2>2
<1> QED
  BY <1>1, <1>2, <1>4, <1>5 DEF ExitStep

(* The inductive invariant of the terminals of an agent.                   *)
THEOREM TerminalsInvariant == TerminalsSpec => []TerminalsInv
<1>1. TerminalsInit => TerminalsInv
  <2> SUFFICES ASSUME TerminalsInit
               PROVE  TerminalsInv
    OBVIOUS
  <2> USE DEF TerminalsInit, NewCall, NoCall, Calls
  <2>1. TerminalsTypeOK
    BY DEF TerminalsTypeOK
  <2>2. NoProcessIsLost /\ MessagesAreWhole /\ TypistsAreTrue /\ ProcessesAreTrue
    BY DEF NoProcessIsLost, MessagesAreWhole, TypistsAreTrue, ProcessesAreTrue, Live
  <2>3. CommandsAreTrue /\ ExitIsTrue /\ SlotsAreFresh /\ UsedIsMapped
    BY DEF CommandsAreTrue, ExitIsTrue, SlotsAreFresh, UsedIsMapped, Fresh, Working, Slot
  <2>4. LocksAreTrue /\ ClosingIsOwned
    BY DEF LocksAreTrue, ClosingIsOwned, Held, Closes, At, Slot
  <2> QED
    BY <2>1, <2>2, <2>3, <2>4 DEF TerminalsInv
<1>2. TerminalsInv /\ [TerminalsNext]_terminalVars => TerminalsInv'
  <2> SUFFICES ASSUME TerminalsInv, [TerminalsNext]_terminalVars
               PROVE  TerminalsInv'
    OBVIOUS
  <2>1. CASE \E c \in Calls : BeginStart(c) \/ StartStep(c)
    BY <2>1, StartKeepsTerminalsInv
  <2>2. CASE \E c \in Calls : BeginClose(c) \/ CloseStep(c) \/ RemoveSlot(c)
    BY <2>2, CloseKeepsTerminalsInv
  <2>3. CASE \E c \in Calls : BeginWrite(c) \/ WriteStep(c)
    BY <2>3, WriteKeepsTerminalsInv
  <2>4. CASE BeginExit \/ ExitStep \/ \E c \in Calls : ProcessEnds(c)
    BY <2>4, ExitKeepsTerminalsInv
  <2>5. CASE UNCHANGED terminalVars
    BY <2>5
       DEF terminalVars, TerminalsInv, TerminalsTypeOK, NoProcessIsLost, MessagesAreWhole, ProcessesAreTrue,
       CommandsAreTrue, ExitIsTrue, SlotsAreFresh, LocksAreTrue, ClosingIsOwned, UsedIsMapped, TypistsAreTrue,
       Fresh, Working, Slot, Held, Closes, At, Live
  <2> QED
    BY <2>1, <2>2, <2>3, <2>4, <2>5 DEF TerminalsNext
<1> QED
  BY <1>1, <1>2, PTL DEF TerminalsSpec

(* However the commands of the user interface and the exit overlap: an     *)
(* agent has one process, none is out of reach or survives the exit unless *)
(* closing it was tried in vain, and a message is whole at its Enter.      *)
THEOREM TerminalsAreSafe == TerminalsSpec => []TerminalSafety
<1>1. TerminalsInv => TerminalSafety
  <2> SUFFICES ASSUME TerminalsInv
               PROVE  OneProcessPerAgent /\ ShutdownLeavesNothing
    BY DEF TerminalsInv, TerminalSafety
  <2>0. TerminalsTypeOK /\ NoCall \notin Calls
    BY DEF TerminalsInv, NoCall, Calls
  <2>1. OneProcessPerAgent
    <3> SUFFICES ASSUME ~stopping
                 PROVE  Cardinality({p \in Calls : Live(p)} \ abandoned) <= 1
      BY DEF OneProcessPerAgent
    <3>1. exit.pc = "open"
      BY DEF TerminalsInv, ExitIsTrue
    <3>2. ASSUME NEW p \in Calls, Live(p), p \notin abandoned
          PROVE  session \in Calls /\ ((call[p].pc = "spawned" /\ Slot(p) = session) \/ terminal[session] = p)
      <4>1. CASE call[p].pc = "spawned"
        <5>1. Slot(p) # NoCall /\ holder[Slot(p)] = p
          BY <4>1 DEF TerminalsInv, CommandsAreTrue, LocksAreTrue, Working
        <5> QED
          BY <2>0, <4>1, <5>1 DEF TerminalsInv, UsedIsMapped, Working, Held, TerminalsTypeOK
      <4>2. CASE call[p].pc # "spawned"
        BY <2>0, <3>1, <3>2, <4>2 DEF TerminalsInv, NoProcessIsLost, TerminalsTypeOK
      <4> QED
        BY <4>1, <4>2
    <3>3. ASSUME NEW p \in Calls, NEW q \in Calls, Live(p), p \notin abandoned, Live(q), q \notin abandoned
          PROVE  p = q
      BY <2>0, <3>2, <3>3 DEF TerminalsInv, LocksAreTrue
    <3>4. \A p, q \in {p \in Calls : Live(p)} \ abandoned : p = q
      BY <3>3
    <3> QED
      BY <3>4, AtMostOne
  <2>2. ShutdownLeavesNothing
    <3> SUFFICES ASSUME exit.pc = "done", \A c \in Calls : call[c].pc \in {"new", "done"},
                        NEW p \in Calls, Live(p)
                 PROVE  p \in abandoned
      BY DEF ShutdownLeavesNothing
    <3> QED
      BY <2>0 DEF TerminalsInv, NoProcessIsLost, ExitIsTrue
  <2> QED
    BY <2>1, <2>2
<1> QED
  BY <1>1, TerminalsInvariant, PTL

-----------------------------------------------------------------------------
(* The smallest number of a set.                                           *)

Below == {p \in Nat \X Nat : p[1] < p[2]}
LEMMA BelowIsWellFounded == IsWellFoundedOn(Below, Nat)
<1>1. Below = OpToRel(<, Nat)
  BY DEF Below, OpToRel
<1> QED
  BY <1>1, NatLessThanWellFounded

LEMMA LeastNatural ==
  ASSUME NEW S \in SUBSET Nat, S # {}
  PROVE  \E n \in S : \A m \in S : n <= m
<1>1. \E n \in S : \A m \in S : ~ (<<m, n>> \in Below)
  BY BelowIsWellFounded, WFMin, Zenon
<1>2. \A m, n \in S : m < n => <<m, n>> \in Below
  BY DEF Below
<1>3. PICK n \in S : \A m \in S : ~ (<<m, n>> \in Below)
  BY <1>1
<1>4. \A m \in S : ~ (m < n)
  BY <1>2, <1>3
<1> QED
  BY <1>4

-----------------------------------------------------------------------------
(* The choice of items.                                                    *)

(* The recursion of ItemsAt has a result.                                  *)
LEMMA ItemsAtRuns ==
  ASSUME NEW T, NEW items \in Seq(T), NEW S
  PROVE  \E f : /\ f[0] = <<>> /\ ItemsAt(items, S) = f[Len(items)]
                /\ \A n \in 1 .. Len(items) : f[n] = IF n \in S THEN Append(f[n - 1], items[n]) ELSE f[n - 1]
<1> DEFINE step(f, n) == IF n \in S THEN Append(f[n - 1], items[n]) ELSE f[n - 1]
           Upto(n) == \E f : f = [k \in 0 .. n |-> IF k = 0 THEN <<>> ELSE step(f, k)]
           Missing == {n \in Nat : ~ Upto(n)}
<1>1. ASSUME Missing # {}
      PROVE  FALSE
  <2>1. PICK n \in Missing : \A m \in Missing : n <= m
    <3> HIDE DEF Upto
    <3> QED
      BY <1>1, LeastNatural
  <2>2. CASE n = 0
    <3> DEFINE f == [k \in 0 .. 0 |-> <<>>]
    <3>1. f = [k \in 0 .. n |-> IF k = 0 THEN <<>> ELSE step(f, k)]
      BY <2>2
    <3> QED
      BY <2>1, <3>1
  <2>3. CASE n # 0
    <3>1. n - 1 \in Nat /\ n \in Nat
      BY <2>1, <2>3
    <3>2. Upto(n - 1)
      <4> HIDE DEF Upto
      <4> QED
        BY <2>1, <3>1
    <3>3. PICK g : g = [k \in 0 .. (n - 1) |-> IF k = 0 THEN <<>> ELSE step(g, k)]
      BY <3>2
    <3> DEFINE f == [k \in 0 .. n |-> IF k = n THEN step(g, n) ELSE g[k]]
    <3>4. \A k \in 0 .. n - 1 : f[k] = g[k]
      BY <3>1
    <3>5. f[n] = step(f, n)
      BY <3>1, <2>3, <3>4
    <3>6. \A k \in 0 .. n - 1 : g[k] = IF k = 0 THEN <<>> ELSE step(g, k)
      BY <3>3
    <3>7. \A k \in 0 .. n - 1 : f[k] = IF k = 0 THEN <<>> ELSE step(f, k)
      BY <3>1, <3>4, <3>6
    <3>8. \A k \in 0 .. n : f[k] = IF k = 0 THEN <<>> ELSE step(f, k)
      <4>1. \A k \in 0 .. n : k = n \/ k \in 0 .. n - 1
        BY <3>1
      <4> HIDE DEF f, step
      <4> QED
        BY <2>3, <3>5, <3>7, <4>1
    <3>9. f = [k \in 0 .. n |-> IF k = 0 THEN <<>> ELSE step(f, k)]
      <4>1. f = [k \in 0 .. n |-> f[k]]
        OBVIOUS
      <4> HIDE DEF f
      <4> QED
        BY <3>8, <4>1
    <3> QED
      BY <2>1, <3>9
  <2> QED
    BY <2>2, <2>3
<1>2. Upto(Len(items))
  <2> HIDE DEF Upto
  <2> QED
    BY <1>1
<1> DEFINE f == CHOOSE f : f = [n \in 0 .. Len(items) |-> IF n = 0 THEN <<>> ELSE step(f, n)]
<1>3. f = [n \in 0 .. Len(items) |-> IF n = 0 THEN <<>> ELSE step(f, n)]
  BY <1>2
<1>4. ItemsAt(items, S) = f[Len(items)]
  BY DEF ItemsAt
<1> HIDE DEF f
<1>5. f[0] = <<>> /\ \A n \in 1 .. Len(items) : f[n] = step(f, n)
  <2>1. Len(items) \in Nat /\ 0 \in 0 .. Len(items) /\ \A n \in 1 .. Len(items) : n \in 0 .. Len(items) /\ n # 0
    OBVIOUS
  <2> HIDE DEF step
  <2> QED
    BY <1>3, <2>1
<1> QED
  BY <1>4, <1>5

(* The items of q and where each of them is among items. *)
Selects(place, q, items, S) ==
  /\ place \in [DOMAIN q -> S \cap DOMAIN items]
  /\ \A k \in DOMAIN q : q[k] = items[place[k]]
  /\ \A j, k \in DOMAIN q : j < k => place[j] < place[k]
  /\ \A i \in S \cap DOMAIN items : \E k \in DOMAIN q : place[k] = i

(* The result holds the items at the places in S, in their order.          *)
LEMMA ItemsAtAre ==
  ASSUME NEW T, NEW items \in Seq(T), NEW S
  PROVE  ItemsAt(items, S) \in Seq(T) /\ \E place : Selects(place, ItemsAt(items, S), items, S)
<1> DEFINE Good(q, n) == /\ q \in Seq(T)
                         /\ \E place \in [1 .. Len(q) -> S \cap (1 .. n)] :
                              /\ \A k \in 1 .. Len(q) : q[k] = items[place[k]]
                              /\ \A j, k \in 1 .. Len(q) : j < k => place[j] < place[k]
                              /\ \A i \in S \cap (1 .. n) : \E k \in 1 .. Len(q) : place[k] = i
<1>1. PICK f : /\ f[0] = <<>> /\ ItemsAt(items, S) = f[Len(items)]
               /\ \A n \in 1 .. Len(items) : f[n] = IF n \in S THEN Append(f[n - 1], items[n]) ELSE f[n - 1]
  BY ItemsAtRuns
<1>0. Len(items) \in Nat
  OBVIOUS
<1> DEFINE Missing == {n \in 0 .. Len(items) : ~ Good(f[n], n)}
<1>2. ASSUME Missing # {}
      PROVE  FALSE
  <2>1. PICK n \in Missing : \A m \in Missing : n <= m
    <3>1. Missing \in SUBSET Nat
      BY <1>0
    <3> HIDE DEF Missing
    <3> QED
      BY <1>2, <3>1, LeastNatural
  <2>2. CASE n = 0
    <3> DEFINE place == [k \in 1 .. 0 |-> 0]
    <3>1. /\ f[n] = <<>> /\ f[n] \in Seq(T) /\ Len(f[n]) = 0 /\ S \cap (1 .. n) = {}
      <4>1. f[n] = <<>>
        BY <1>1, <2>2
      <4> QED
        BY <2>2, <4>1
    <3>2. place \in [1 .. Len(f[n]) -> S \cap (1 .. n)]
      BY <3>1
    <3>3. /\ \A k \in 1 .. Len(f[n]) : f[n][k] = items[place[k]]
          /\ \A j, k \in 1 .. Len(f[n]) : j < k => place[j] < place[k]
          /\ \A i \in S \cap (1 .. n) : \E k \in 1 .. Len(f[n]) : place[k] = i
      <4>1. 1 .. Len(f[n]) = {}
        BY <3>1
      <4> HIDE DEF place
      <4> QED
        BY <3>1, <4>1
    <3> HIDE DEF place
    <3>4. Good(f[n], n)
      BY <3>1, <3>2, <3>3
    <3> HIDE DEF Good
    <3> QED
      BY <2>1, <3>4
  <2>3. CASE n # 0
    <3>1. n \in 1 .. Len(items) /\ n - 1 \in 0 .. Len(items) /\ items[n] \in T
      BY <2>1, <2>3
    <3>2. Good(f[n - 1], n - 1)
      <4> HIDE DEF Good
      <4> QED
        BY <2>1, <3>1
    <3> DEFINE q == f[n - 1]
    <3>3. q \in Seq(T) /\ Len(q) \in Nat
      BY <3>2
    <3>4. PICK place \in [1 .. Len(q) -> S \cap (1 .. n - 1)] :
                              /\ \A k \in 1 .. Len(q) : q[k] = items[place[k]]
                              /\ \A j, k \in 1 .. Len(q) : j < k => place[j] < place[k]
                              /\ \A i \in S \cap (1 .. n - 1) : \E k \in 1 .. Len(q) : place[k] = i
      BY <3>2
    <3>5. f[n] = IF n \in S THEN Append(q, items[n]) ELSE q
      BY <1>1, <3>1
    <3> HIDE DEF q
    <3>6. CASE n \notin S
      <4>1. f[n] = q /\ S \cap (1 .. n) = S \cap (1 .. n - 1)
        BY <3>1, <3>5, <3>6
      <4>2. Good(f[n], n)
        BY <3>3, <3>4, <4>1
      <4> QED
        BY <2>1, <4>2
    <3>7. CASE n \in S
      <4> DEFINE r == Append(q, items[n])
                 to == [k \in 1 .. Len(q) + 1 |-> IF k = Len(q) + 1 THEN n ELSE place[k]]
      <4>1. f[n] = r /\ r \in Seq(T) /\ Len(r) = Len(q) + 1 /\ r[Len(q) + 1] = items[n]
            /\ \A k \in 1 .. Len(q) : r[k] = q[k]
        BY <3>1, <3>3, <3>5, <3>7
      <4> HIDE DEF r
      <4>2. /\ \A k \in 1 .. Len(q) : to[k] = place[k] /\ place[k] \in S /\ place[k] \in 1 .. n - 1
            /\ to[Len(q) + 1] = n /\ to = [k \in 1 .. Len(q) + 1 |-> to[k]]
        BY <3>3, <3>4
      <4> HIDE DEF to
      <4>3. to \in [1 .. Len(r) -> S \cap (1 .. n)]
        <5>1. \A k \in 1 .. Len(q) + 1 : to[k] \in S \cap (1 .. n)
          <6>1. n \in S \cap (1 .. n) /\ \A m \in 1 .. n - 1 : m \in 1 .. n
            BY <3>1, <3>7
          <6>2. \A k \in 1 .. Len(q) + 1 : k = Len(q) + 1 \/ k \in 1 .. Len(q)
            BY <3>3
          <6> QED
            BY <4>2, <6>1, <6>2
        <5> QED
          BY <4>1, <4>2, <5>1
      <4>0. \A k \in 1 .. Len(r) : k = Len(q) + 1 \/ k \in 1 .. Len(q)
        BY <3>3, <4>1
      <4>4. \A k \in 1 .. Len(r) : r[k] = items[to[k]]
        <5> SUFFICES ASSUME NEW k \in 1 .. Len(r)
                     PROVE  r[k] = items[to[k]]
          OBVIOUS
        <5>1. CASE k = Len(q) + 1
          BY <4>1, <4>2, <5>1
        <5>2. CASE k \in 1 .. Len(q)
          <6>1. q[k] = items[place[k]] /\ r[k] = q[k] /\ to[k] = place[k]
            BY <3>4, <4>1, <4>2, <5>2
          <6> QED
            BY <6>1
        <5> QED
          BY <4>0, <5>1, <5>2
      <4>5. \A j, k \in 1 .. Len(r) : j < k => to[j] < to[k]
        <5> SUFFICES ASSUME NEW j \in 1 .. Len(r), NEW k \in 1 .. Len(r), j < k
                     PROVE  to[j] < to[k]
          OBVIOUS
        <5>1. j \in 1 .. Len(q)
          BY <3>3, <4>1
        <5>2. CASE k = Len(q) + 1
          <6>1. to[j] \in 1 .. n - 1
            BY <4>2, <5>1
          <6>2. to[k] = n /\ n \in Nat
            BY <3>1, <4>2, <5>2
          <6> QED
            BY <6>1, <6>2
        <5>3. CASE k \in 1 .. Len(q)
          BY <3>4, <4>2, <5>1, <5>3
        <5> QED
          BY <4>0, <5>2, <5>3
      <4>6. \A i \in S \cap (1 .. n) : \E k \in 1 .. Len(r) : to[k] = i
        <5>1. \A i \in S \cap (1 .. n) : i = n \/ i \in S \cap (1 .. n - 1)
          BY <3>1
        <5>2. Len(q) + 1 \in 1 .. Len(r) /\ \A k \in 1 .. Len(q) : k \in 1 .. Len(r)
          BY <3>3, <4>1
        <5> SUFFICES ASSUME NEW i \in S \cap (1 .. n)
                     PROVE  \E k \in 1 .. Len(r) : to[k] = i
          OBVIOUS
        <5>3. CASE i = n
          BY <4>2, <5>2, <5>3
        <5>4. CASE i \in S \cap (1 .. n - 1)
          <6>1. PICK k \in 1 .. Len(q) : place[k] = i
            BY <3>4, <5>4
          <6> QED
            BY <4>2, <5>2, <6>1
        <5> QED
          BY <5>1, <5>3, <5>4
      <4>7. Good(r, n)
        BY <4>1, <4>3, <4>4, <4>5, <4>6
      <4>8. Good(f[n], n)
        <5> HIDE DEF Good
        <5> QED
          BY <4>1, <4>7
      <4> QED
        BY <2>1, <4>8
    <3> QED
      BY <3>6, <3>7
  <2> QED
    BY <2>2, <2>3
<1>3. Good(f[Len(items)], Len(items))
  <2> HIDE DEF Good
  <2>1. Len(items) \in 0 .. Len(items)
    OBVIOUS
  <2> QED
    BY <1>2, <2>1
<1>4. Good(ItemsAt(items, S), Len(items))
  <2> HIDE DEF Good
  <2> QED
    BY <1>1, <1>3
<1> DEFINE q == ItemsAt(items, S)
<1>5. DOMAIN items = 1 .. Len(items) /\ q \in Seq(T) /\ DOMAIN q = 1 .. Len(q)
  BY <1>4
<1>6. PICK place \in [1 .. Len(q) -> S \cap (1 .. Len(items))] :
        /\ \A k \in 1 .. Len(q) : q[k] = items[place[k]]
        /\ \A j, k \in 1 .. Len(q) : j < k => place[j] < place[k]
        /\ \A i \in S \cap (1 .. Len(items)) : \E k \in 1 .. Len(q) : place[k] = i
  BY <1>4
<1> HIDE DEF q, Missing, Good
<1>7. place \in [DOMAIN q -> S \cap DOMAIN items]
  BY <1>5
<1>8. Selects(place, q, items, S)
  BY <1>5, <1>6, <1>7 DEF Selects
<1> QED
  BY <1>5, <1>8 DEF q

-----------------------------------------------------------------------------
(* What the desktop shows.                                                 *)

Run(ids) == \A j \in DOMAIN ids : ids[j] = ids[1] + j - 1
ShownIn(items) == UNION {Range(items[i].ids) : i \in DOMAIN items}

(* A timeline is a row of runs of consecutive events.  A run of several is *)
(* text that came in live.                                                 *)
RunsAreText(items) == \A i \in DOMAIN items :
  /\ Run(items[i].ids)
  /\ Len(items[i].ids) > 1 => items[i].live /\ \A j \in DOMAIN items[i].ids : IsText(items[i].ids[j])
Ascending(items) == \A i, j \in DOMAIN items : i < j => LastId(items[i]) < items[j].ids[1]

(* What comes in next is beyond all that came in, and what a snapshot has  *)
(* brought from there on is without a hole.                                *)
LiveBehind(items, next) == \A i \in DOMAIN items : items[i].live => LastId(items[i]) < next
NoHole(items, next) == \A i \in DOMAIN items : \A e \in next .. LastId(items[i]) :
                         \E j \in DOMAIN items : items[j].ids[1] = e
TimelineOK(items, next) == /\ items \in Seq(Items) /\ RunsAreText(items) /\ Ascending(items)
                           /\ LiveBehind(items, next) /\ NoHole(items, next)

(* A run is an interval. *)
LEMMA RunSpans ==
  ASSUME NEW ids \in Seq(Events) \ {<<>>}, Run(ids)
  PROVE  /\ Len(ids) \in Nat \ {0} /\ DOMAIN ids = 1 .. Len(ids)
         /\ ids[1] \in Events /\ ids[Len(ids)] \in Events
         /\ ids[Len(ids)] = ids[1] + Len(ids) - 1
         /\ Range(ids) = ids[1] .. ids[Len(ids)]
<1>1. Len(ids) \in Nat \ {0} /\ DOMAIN ids = 1 .. Len(ids) /\ ids[1] \in Events /\ ids[Len(ids)] \in Events
  OBVIOUS
<1>2. Events \subseteq Nat
  BY DEF Events
<1>3. \A j \in 1 .. Len(ids) : ids[j] = ids[1] + j - 1
  BY <1>1 DEF Run
<1>4. Range(ids) = {ids[j] : j \in 1 .. Len(ids)}
  BY <1>1 DEF Range
<1> DEFINE n == Len(ids)
           a == ids[1]
           z == ids[Len(ids)]
<1>5. n \in Nat \ {0} /\ a \in Nat /\ z \in Nat
  BY <1>1, <1>2
<1>6. z = a + n - 1
  BY <1>1, <1>3
<1>7. \A e \in a .. z : e - a + 1 \in 1 .. n /\ a + (e - a + 1) - 1 = e
  <2> HIDE DEF a, n, z
  <2> QED
    BY <1>5, <1>6
<1>8. \A j \in 1 .. n : a + j - 1 \in a .. z
  <2> HIDE DEF a, n, z
  <2> QED
    BY <1>5, <1>6
<1>9. Range(ids) = a .. z
  <2>1. ASSUME NEW e \in a .. z
        PROVE  e \in Range(ids)
    <3>1. e - a + 1 \in 1 .. Len(ids) /\ ids[e - a + 1] = e
      BY <1>3, <1>7
    <3> QED
      BY <1>4, <3>1
  <2>2. ASSUME NEW j \in 1 .. Len(ids)
        PROVE  ids[j] \in a .. z
    BY <1>3, <1>8
  <2> QED
    BY <1>4, <2>1, <2>2
<1> QED
  BY <1>1, <1>6, <1>9

(* The items of a timeline are intervals. *)
LEMMA ItemSpans ==
  ASSUME NEW items \in Seq(Items), RunsAreText(items), NEW i \in DOMAIN items
  PROVE  /\ items[i].ids \in Seq(Events) \ {<<>>} /\ items[i].live \in BOOLEAN
         /\ items[i].ids[1] \in Events /\ LastId(items[i]) \in Events /\ items[i].ids[1] <= LastId(items[i])
         /\ Range(items[i].ids) = items[i].ids[1] .. LastId(items[i])
         /\ ~ items[i].live => LastId(items[i]) = items[i].ids[1]
         /\ items[i].ids[1] # LastId(items[i]) =>
              items[i].live /\ \A e \in Range(items[i].ids) : IsText(e)
<1> DEFINE ids == items[i].ids
<1>1. ids \in Seq(Events) \ {<<>>} /\ items[i].live \in BOOLEAN
  <2>1. items[i] \in Items
    OBVIOUS
  <2> QED
    BY <2>1 DEF Items
<1>2. Run(ids) /\ (Len(ids) > 1 => items[i].live /\ \A j \in DOMAIN ids : IsText(ids[j])) /\ LastId(items[i]) = ids[Len(ids)]
  BY DEF RunsAreText, LastId
<1> HIDE DEF ids
<1>3. /\ Len(ids) \in Nat \ {0} /\ DOMAIN ids = 1 .. Len(ids)
      /\ ids[1] \in Events /\ ids[Len(ids)] \in Events
      /\ ids[Len(ids)] = ids[1] + Len(ids) - 1
      /\ Range(ids) = ids[1] .. ids[Len(ids)]
  BY <1>1, <1>2, RunSpans
<1>4. Events \subseteq Nat
  BY DEF Events
<1>5. ids[1] <= ids[Len(ids)] /\ (ids[1] # ids[Len(ids)] => Len(ids) > 1)
  <2> DEFINE n == Len(ids)
             a == ids[1]
             z == ids[Len(ids)]
  <2>1. n \in Nat \ {0} /\ a \in Nat /\ z = a + n - 1
    BY <1>3, <1>4
  <2> HIDE DEF n, a, z
  <2>2. a <= z /\ (a # z => n > 1)
    BY <2>1
  <2> QED
    BY <2>2 DEF n, a, z
<1>6. ~ items[i].live => ids[Len(ids)] = ids[1]
  BY <1>2, <1>3, <1>4
<1>7. Range(ids) = {ids[j] : j \in DOMAIN ids}
  BY DEF Range
<1> QED
  BY <1>1, <1>2, <1>3, <1>5, <1>6, <1>7 DEF ids

(* A timeline stays as good when more has come in. *)
LEMMA LaterTimeline ==
  ASSUME NEW items, NEW next \in Nat, TimelineOK(items, next), NEW later \in Nat, next <= later
  PROVE  TimelineOK(items, later)
<1>1. items \in Seq(Items) /\ RunsAreText(items) /\ Ascending(items) /\ Events \subseteq Nat
  BY DEF TimelineOK, Events
<1>2. \A i \in DOMAIN items : LastId(items[i]) \in Nat
  BY <1>1, ItemSpans
<1>3. LiveBehind(items, later)
  BY <1>2 DEF TimelineOK, LiveBehind
<1>4. NoHole(items, later)
  BY <1>2 DEF TimelineOK, NoHole
<1> QED
  BY <1>1, <1>3, <1>4 DEF TimelineOK

(* A text that continues the last item. *)
Continues(items, ids) ==
  LET last == items[Len(items)]
  IN /\ items # <<>> /\ last.live /\ log[last.ids[1]] = "text" /\ log[ids[1]] = "text"
     /\ ids[Len(ids)] = LastId(last) + 1

(* The result of addTimelineItem. *)
LEMMA AddedIs ==
  ASSUME NEW items, NEW ids
  PROVE  /\ Continues(items, ids) =>
              Added(items, ids) = [items EXCEPT ![Len(items)].ids = items[Len(items)].ids \o ids]
         /\ ~ Continues(items, ids) /\ (\E i \in DOMAIN items : items[i].ids[1] = ids[1]) => Added(items, ids) = items
         /\ ~ Continues(items, ids) /\ ~ (\E i \in DOMAIN items : items[i].ids[1] = ids[1]) =>
              Added(items, ids) = Append(items, Item(ids, TRUE))
BY DEF Added, Continues

(* A run that continues an item is a single fragment, and makes it longer. *)
LEMMA ContinuedRun ==
  ASSUME NEW items, NEW next \in Nat, TimelineOK(items, next),
         NEW ids \in Seq(Events) \ {<<>>}, Run(ids), next <= ids[1], Continues(items, ids)
  PROVE  LET L == Len(items) N == Added(items, ids) IN
         /\ L \in DOMAIN items /\ N \in Seq(Items) /\ DOMAIN N = DOMAIN items
         /\ \A i \in DOMAIN items : i # L => N[i] = items[i]
         /\ N[L].live /\ N[L].ids[1] = items[L].ids[1] /\ LastId(N[L]) = ids[1] /\ ids[1] = LastId(items[L]) + 1
         /\ ids[Len(ids)] = ids[1] /\ Run(N[L].ids) /\ \A j \in DOMAIN N[L].ids : IsText(N[L].ids[j])
<1> DEFINE L == Len(items)
           N == Added(items, ids)
           old == items[L].ids
<1>1. items \in Seq(Items) /\ RunsAreText(items) /\ LiveBehind(items, next) /\ Events \subseteq Nat
  BY DEF TimelineOK, Events
<1>2. /\ items # <<>> /\ items[L].live /\ IsText(old[1]) /\ IsText(ids[1])
      /\ ids[Len(ids)] = LastId(items[L]) + 1 /\ LastId(items[L]) = old[Len(old)]
  BY DEF Continues, IsText, LastId
<1>3. L \in DOMAIN items /\ L \in Nat
  BY <1>1, <1>2
<1>4. /\ old \in Seq(Events) \ {<<>>} /\ Run(old) /\ LastId(items[L]) < next
      /\ (Len(old) > 1 => \A j \in DOMAIN old : IsText(old[j]))
  BY <1>1, <1>2, <1>3, ItemSpans DEF RunsAreText, LiveBehind
<1>5. N = [items EXCEPT ![L].ids = old \o ids]
  BY AddedIs
<1> HIDE DEF N, old, L
<1>6. /\ Len(old) \in Nat \ {0} /\ DOMAIN old = 1 .. Len(old) /\ old[1] \in Nat /\ old[Len(old)] \in Nat
      /\ old[Len(old)] = old[1] + Len(old) - 1
  BY <1>1, <1>4, RunSpans
<1>7. /\ Len(ids) \in Nat \ {0} /\ DOMAIN ids = 1 .. Len(ids) /\ ids[1] \in Nat /\ ids[Len(ids)] \in Nat
      /\ ids[Len(ids)] = ids[1] + Len(ids) - 1
  BY <1>1, RunSpans
<1>8. Len(ids) = 1 /\ ids[1] = old[Len(old)] + 1
  <2> DEFINE a == ids[1]
             n == Len(ids)
             z == ids[Len(ids)]
             y == old[Len(old)]
  <2>1. a \in Nat /\ n \in Nat \ {0} /\ z = a + n - 1 /\ y \in Nat /\ z = y + 1 /\ y < next /\ next <= a
    BY <1>2, <1>4, <1>6, <1>7
  <2> HIDE DEF a, n, z, y
  <2>2. n = 1 /\ a = y + 1
    BY <2>1
  <2> QED
    BY <2>2 DEF a, n, y
<1> DEFINE new == old \o ids
<1>9. /\ new \in Seq(Events) \ {<<>>} /\ Len(new) = Len(old) + 1 /\ DOMAIN new = 1 .. Len(old) + 1
      /\ \A j \in 1 .. Len(old) : new[j] = old[j]
      /\ new[Len(old) + 1] = ids[1]
  <2>1. old \in Seq(Events) /\ ids \in Seq(Events) /\ Len(ids) = 1 /\ Len(old) \in Nat \ {0}
    BY <1>4, <1>6, <1>8
  <2>2. new \in Seq(Events) /\ Len(new) = Len(old) + 1 /\ \A j \in 1 .. Len(old) : new[j] = old[j]
    <3>1. /\ new \in Seq(Events) /\ Len(new) = Len(old) + Len(ids)
          /\ \A j \in 1 .. Len(old) + Len(ids) : new[j] = IF j <= Len(old) THEN old[j] ELSE ids[j - Len(old)]
      BY <2>1, ConcatProperties
    <3> HIDE DEF new
    <3> QED
      BY <2>1, <3>1
  <2>3. new[Len(old) + 1] = ids[1]
    BY <2>1
  <2>4. new # <<>> /\ DOMAIN new = 1 .. Len(old) + 1
    <3> HIDE DEF new
    <3> QED
      BY <2>1, <2>2
  <2> QED
    BY <2>2, <2>3, <2>4
<1> HIDE DEF new
<1>10. new[1] = old[1] /\ new[Len(new)] = ids[1]
  BY <1>6, <1>9
<1>11. Run(new)
  <2>1. \A j \in 1 .. Len(old) : old[j] = old[1] + j - 1
    BY <1>4, <1>6 DEF Run
  <2>2. \A j \in 1 .. Len(old) : new[j] = new[1] + j - 1
    BY <1>9, <1>10, <2>1
  <2>3. new[Len(old) + 1] = new[1] + (Len(old) + 1) - 1
    <3> DEFINE a == old[1]
               n == Len(old)
               y == old[Len(old)]
    <3>1. a \in Nat /\ n \in Nat /\ y = a + n - 1
      BY <1>6
    <3> HIDE DEF a, n, y
    <3>2. y + 1 = a + (n + 1) - 1
      BY <3>1
    <3> QED
      BY <1>8, <1>9, <1>10, <3>2 DEF a, n, y
  <2>4. \A j \in DOMAIN new : j \in 1 .. Len(old) \/ j = Len(old) + 1
    BY <1>6, <1>9
  <2> QED
    BY <2>2, <2>3, <2>4 DEF Run
<1>12. \A j \in DOMAIN new : IsText(new[j])
  <2>1. \A j \in 1 .. Len(old) : IsText(old[j])
    <3>1. CASE Len(old) = 1
      BY <1>2, <3>1
    <3>2. CASE Len(old) > 1
      BY <1>4, <1>6, <3>2
    <3> QED
      BY <1>6, <3>1, <3>2
  <2>2. \A j \in DOMAIN new : j \in 1 .. Len(old) \/ j = Len(old) + 1
    BY <1>6, <1>9
  <2> QED
    BY <1>2, <1>9, <2>1, <2>2
<1>13. N \in Seq(Items) /\ DOMAIN N = DOMAIN items /\ \A i \in DOMAIN items : i # L => N[i] = items[i]
  <2>1. items[L] \in Items
    BY <1>1, <1>3
  <2>2. [items[L] EXCEPT !.ids = new] \in Items
    BY <1>9, <2>1 DEF Items
  <2>3. N = [items EXCEPT ![L] = [items[L] EXCEPT !.ids = new]]
    BY <1>5 DEF new
  <2> QED
    BY <1>1, <1>3, <2>2, <2>3
<1>14. N[L] = [items[L] EXCEPT !.ids = new]
  BY <1>1, <1>3, <1>5 DEF new
<1>15. N[L].ids = new /\ N[L].live = items[L].live
  <2>1. items[L] \in Items
    BY <1>1, <1>3
  <2> QED
    BY <1>14, <2>1 DEF Items
<1> QED
  BY <1>2, <1>3, <1>8, <1>10, <1>11, <1>12, <1>13, <1>15 DEF LastId, N, old, L

(* What every way to add a run of events leaves: a good timeline, which    *)
(* shows what it showed and the first of them.                             *)
AddedWell(items, ids, N) ==
  /\ TimelineOK(N, ids[Len(ids)] + 1)
  /\ ShownIn(items) \cup {ids[1]} \subseteq ShownIn(N)

(* A fragment that continues the last item. *)
LEMMA ContinuedWell ==
  ASSUME NEW items, NEW next \in Nat, TimelineOK(items, next),
         NEW ids \in Seq(Events) \ {<<>>}, Run(ids), next <= ids[1], Continues(items, ids)
  PROVE  AddedWell(items, ids, Added(items, ids))
<1> DEFINE L == Len(items)
           N == Added(items, ids)
           z == ids[1]
<1>1. /\ L \in DOMAIN items /\ N \in Seq(Items) /\ DOMAIN N = DOMAIN items
      /\ \A i \in DOMAIN items : i # L => N[i] = items[i]
      /\ N[L].live /\ N[L].ids[1] = items[L].ids[1] /\ LastId(N[L]) = z /\ z = LastId(items[L]) + 1
      /\ ids[Len(ids)] = z /\ Run(N[L].ids) /\ \A j \in DOMAIN N[L].ids : IsText(N[L].ids[j])
  BY ContinuedRun
<1> HIDE DEF N
<1>2. /\ items \in Seq(Items) /\ RunsAreText(items) /\ Ascending(items)
      /\ LiveBehind(items, next) /\ NoHole(items, next) /\ DOMAIN items = 1 .. L /\ L \in Nat
  BY DEF TimelineOK
<1>3. z \in Nat /\ Events \subseteq Nat
  BY DEF Events
<1>4. \A i \in DOMAIN items : /\ items[i].ids[1] \in Nat /\ LastId(items[i]) \in Nat
                              /\ Range(items[i].ids) = items[i].ids[1] .. LastId(items[i])
                              /\ items[i].live \in BOOLEAN
  BY <1>2, <1>3, ItemSpans
<1>5. \A i \in DOMAIN items : N[i].ids[1] = items[i].ids[1]
  BY <1>1
<1>6. RunsAreText(N)
  BY <1>1, <1>2 DEF RunsAreText
<1>7. \A i \in DOMAIN N : Range(N[i].ids) = N[i].ids[1] .. LastId(N[i])
  BY <1>1, <1>6, ItemSpans
<1>8. Ascending(N)
  <2> SUFFICES ASSUME NEW i \in DOMAIN items, NEW j \in DOMAIN items, i < j
               PROVE  LastId(N[i]) < N[j].ids[1]
    BY <1>1 DEF Ascending
  <2>1. i # L
    BY <1>2
  <2> QED
    BY <1>1, <1>2, <1>5, <2>1 DEF Ascending
<1>9. LiveBehind(N, z + 1)
  <2> SUFFICES ASSUME NEW i \in DOMAIN items, N[i].live
               PROVE  LastId(N[i]) < z + 1
    BY <1>1 DEF LiveBehind
  <2>1. CASE i = L
    BY <1>1, <1>3, <2>1
  <2>2. CASE i # L
    <3>1. LastId(items[i]) < next /\ N[i] = items[i] /\ LastId(items[i]) \in Nat
      BY <1>1, <1>2, <1>4, <2>2 DEF LiveBehind
    <3> QED
      BY <1>3, <3>1
  <2> QED
    BY <2>1, <2>2
<1>10. NoHole(N, z + 1)
  <2> SUFFICES ASSUME NEW i \in DOMAIN items, NEW e \in z + 1 .. LastId(N[i])
               PROVE  \E j \in DOMAIN items : N[j].ids[1] = e
    BY <1>1 DEF NoHole
  <2>1. i # L
    BY <1>1, <1>3
  <2>2. e \in next .. LastId(items[i])
    BY <1>1, <1>3, <1>4, <2>1
  <2>3. \E j \in DOMAIN items : items[j].ids[1] = e
    BY <1>2, <2>2 DEF NoHole
  <2> QED
    BY <1>5, <2>3
<1>11. \A i \in DOMAIN items : Range(items[i].ids) \subseteq Range(N[i].ids)
  <2> SUFFICES ASSUME NEW i \in DOMAIN items
               PROVE  Range(items[i].ids) \subseteq Range(N[i].ids)
    OBVIOUS
  <2>1. CASE i = L
    <3>1. LastId(items[L]) \in Nat /\ items[L].ids[1] \in Nat /\ LastId(N[L]) = LastId(items[L]) + 1
      BY <1>1, <1>4
    <3>2. items[L].ids[1] .. LastId(items[L]) \subseteq items[L].ids[1] .. LastId(items[L]) + 1
      BY <3>1
    <3> QED
      BY <1>1, <1>4, <1>5, <1>7, <2>1, <3>1, <3>2
  <2>2. CASE i # L
    BY <1>1, <2>2
  <2> QED
    BY <2>1, <2>2
<1>12. z \in Range(N[L].ids)
  <2>1. items[L].ids[1] \in Nat /\ LastId(items[L]) \in Nat /\ items[L].ids[1] <= LastId(items[L])
    BY <1>1, <1>2, <1>3, ItemSpans
  <2>2. z \in items[L].ids[1] .. z
    BY <1>1, <1>3, <2>1
  <2> QED
    BY <1>1, <1>7, <2>2
<1>13. ShownIn(items) \cup {z} \subseteq ShownIn(N)
  <2>1. ShownIn(items) \subseteq ShownIn(N)
    <3> SUFFICES ASSUME NEW i \in DOMAIN items, NEW e \in Range(items[i].ids)
                 PROVE  e \in ShownIn(N)
      BY DEF ShownIn
    <3>1. i \in DOMAIN N /\ e \in Range(N[i].ids)
      BY <1>1, <1>11
    <3> QED
      BY <3>1 DEF ShownIn
  <2>2. z \in ShownIn(N)
    BY <1>1, <1>12 DEF ShownIn
  <2> QED
    BY <2>1, <2>2
<1>14. TimelineOK(N, ids[Len(ids)] + 1)
  BY <1>1, <1>6, <1>8, <1>9, <1>10 DEF TimelineOK
<1> QED
  BY <1>13, <1>14 DEF AddedWell, N

(* A run that is shown already, as far as its first event goes. *)
LEMMA ShownAlreadyWell ==
  ASSUME NEW items, NEW next \in Nat, TimelineOK(items, next),
         NEW ids \in Seq(Events) \ {<<>>}, Run(ids), next <= ids[1],
         NEW i \in DOMAIN items, items[i].ids[1] = ids[1]
  PROVE  AddedWell(items, ids, items)
<1>1. Events \subseteq Nat /\ items \in Seq(Items) /\ RunsAreText(items)
  BY DEF Events, TimelineOK
<1>2. Len(ids) \in Nat \ {0} /\ ids[1] \in Nat /\ ids[Len(ids)] \in Nat /\ ids[Len(ids)] = ids[1] + Len(ids) - 1
  BY <1>1, RunSpans
<1>3. ids[Len(ids)] + 1 \in Nat /\ next <= ids[Len(ids)] + 1
  BY <1>2
<1>4. TimelineOK(items, ids[Len(ids)] + 1)
  BY <1>3, LaterTimeline
<1>5. ids[1] \in Range(items[i].ids)
  <2>1. /\ items[i].ids[1] \in Nat /\ LastId(items[i]) \in Nat /\ items[i].ids[1] <= LastId(items[i])
        /\ Range(items[i].ids) = items[i].ids[1] .. LastId(items[i])
    BY <1>1, ItemSpans
  <2> QED
    BY <2>1
<1>6. ids[1] \in ShownIn(items)
  BY <1>5 DEF ShownIn
<1> QED
  BY <1>4, <1>6 DEF AddedWell

(* A run that is new. *)
LEMMA AppendedWell ==
  ASSUME NEW items, NEW next \in Nat, TimelineOK(items, next),
         NEW ids \in Seq(Events) \ {<<>>}, Run(ids), next <= ids[1],
         Len(ids) > 1 => \A j \in DOMAIN ids : IsText(ids[j]),
         \A i \in DOMAIN items : items[i].ids[1] # ids[1]
  PROVE  AddedWell(items, ids, Append(items, Item(ids, TRUE)))
<1> DEFINE L == Len(items)
           N == Append(items, Item(ids, TRUE))
           a == ids[1]
           z == ids[Len(ids)]
<1>1. /\ items \in Seq(Items) /\ RunsAreText(items) /\ Ascending(items)
      /\ LiveBehind(items, next) /\ NoHole(items, next) /\ DOMAIN items = 1 .. L /\ L \in Nat
  BY DEF TimelineOK
<1>2. Events \subseteq Nat
  BY DEF Events
<1>3. a \in Nat /\ z \in Nat /\ a <= z /\ Range(ids) = a .. z
  <2>1. Len(ids) \in Nat \ {0} /\ a \in Nat /\ z \in Nat /\ z = a + Len(ids) - 1 /\ Range(ids) = a .. z
    BY <1>2, RunSpans
  <2> QED
    BY <2>1
<1>4. Item(ids, TRUE) \in Items /\ Item(ids, TRUE).ids = ids /\ Item(ids, TRUE).live
  BY DEF Items, Item
<1>5. /\ N \in Seq(Items) /\ Len(N) = L + 1 /\ N[L + 1] = Item(ids, TRUE)
      /\ \A i \in 1 .. L : N[i] = items[i]
  <2>1. N \in Seq(Items) /\ Len(N) = L + 1 /\ N[L + 1] = Item(ids, TRUE)
    <3>0. \A seq, elt : seq \in Seq(Items) /\ elt \in Items =>
            /\ Append(seq, elt) \in Seq(Items) /\ Len(Append(seq, elt)) = Len(seq) + 1
            /\ Append(seq, elt)[Len(seq) + 1] = elt
      OBVIOUS
    <3> QED
      BY <1>1, <1>4, <3>0
  <2>2. \A i \in 1 .. L : N[i] = items[i]
    BY <1>1, <1>4, AppendProperties
  <2> QED
    BY <2>1, <2>2
<1>6. DOMAIN N = 1 .. L + 1
  BY <1>5
<1> HIDE DEF N, a, z
<1>7. \A i \in 1 .. L : LastId(items[i]) \in Nat /\ LastId(items[i]) < a
  <2> SUFFICES ASSUME NEW i \in 1 .. L
               PROVE  LastId(items[i]) \in Nat /\ LastId(items[i]) < a
    OBVIOUS
  <2>1. LastId(items[i]) \in Nat
    BY <1>1, <1>2, ItemSpans
  <2>2. a \notin next .. LastId(items[i])
    BY <1>1 DEF NoHole, a
  <2> QED
    BY <1>3, <2>1, <2>2 DEF a
<1>8. LastId(N[L + 1]) = z /\ N[L + 1].ids = ids /\ N[L + 1].live
  BY <1>4, <1>5 DEF LastId, z
<1>9. \A i \in 1 .. L + 1 : i \in 1 .. L \/ i = L + 1
  BY <1>1
<1>10. RunsAreText(N)
  <2>2. /\ Run(N[L + 1].ids)
        /\ Len(N[L + 1].ids) > 1 => N[L + 1].live /\ \A j \in DOMAIN N[L + 1].ids : IsText(N[L + 1].ids[j])
    BY <1>8
  <2>3. \A i \in DOMAIN N : i \in 1 .. L \/ i = L + 1
    BY <1>6, <1>9
  <2> QED
    <3> SUFFICES ASSUME NEW i \in DOMAIN N
                 PROVE  /\ Run(N[i].ids)
                        /\ Len(N[i].ids) > 1 => N[i].live /\ \A j \in DOMAIN N[i].ids : IsText(N[i].ids[j])
      BY DEF RunsAreText
    <3>1. CASE i \in 1 .. L
      <4>1. N[i] = items[i] /\ i \in DOMAIN items
        BY <1>1, <1>5, <3>1
      <4>2. /\ Run(items[i].ids)
            /\ Len(items[i].ids) > 1 => items[i].live /\ \A j \in DOMAIN items[i].ids : IsText(items[i].ids[j])
        BY <1>1, <4>1 DEF RunsAreText
      <4> QED
        BY <4>1, <4>2
    <3>2. CASE i = L + 1
      BY <2>2, <3>2
    <3> QED
      BY <2>3, <3>1, <3>2
<1>11. Ascending(N)
  <2> SUFFICES ASSUME NEW i \in 1 .. L + 1, NEW j \in 1 .. L + 1, i < j
               PROVE  LastId(N[i]) < N[j].ids[1]
    BY <1>6 DEF Ascending
  <2>1. i \in 1 .. L
    BY <1>1
  <2>2. CASE j = L + 1
    BY <1>5, <1>7, <1>8, <2>1, <2>2 DEF a
  <2>3. CASE j \in 1 .. L
    BY <1>1, <1>5, <2>1, <2>3 DEF Ascending
  <2> QED
    BY <1>9, <2>2, <2>3
<1>12. LiveBehind(N, z + 1)
  <2> SUFFICES ASSUME NEW i \in 1 .. L + 1
               PROVE  LastId(N[i]) < z + 1
    BY <1>6 DEF LiveBehind
  <2>1. CASE i = L + 1
    BY <1>3, <1>8, <2>1
  <2>2. CASE i \in 1 .. L
    <3>1. LastId(N[i]) \in Nat /\ LastId(N[i]) < a
      BY <1>5, <1>7, <2>2
    <3> QED
      BY <1>3, <3>1
  <2> QED
    BY <1>9, <2>1, <2>2
<1>13. NoHole(N, z + 1)
  <2>1. \A i \in 1 .. L + 1 : z + 1 .. LastId(N[i]) = {}
    <3> SUFFICES ASSUME NEW i \in 1 .. L + 1
                 PROVE  LastId(N[i]) \in Nat /\ LastId(N[i]) <= z
      BY <1>3
    <3>1. CASE i = L + 1
      BY <1>3, <1>8, <3>1
    <3>2. CASE i \in 1 .. L
      <4>1. LastId(N[i]) \in Nat /\ LastId(N[i]) < a
        BY <1>5, <1>7, <3>2
      <4> QED
        BY <1>3, <4>1
    <3> QED
      BY <1>9, <3>1, <3>2
  <2> QED
    BY <1>6, <2>1 DEF NoHole
<1>14. ShownIn(items) \cup {a} \subseteq ShownIn(N)
  <2>1. a \in Range(N[L + 1].ids) /\ L + 1 \in 1 .. L + 1 /\ \A i \in 1 .. L : i \in 1 .. L + 1
    BY <1>1, <1>3, <1>8
  <2>2. a \in ShownIn(N)
    BY <1>6, <2>1 DEF ShownIn
  <2>3. ShownIn(items) \subseteq ShownIn(N)
    BY <1>1, <1>5, <1>6, <2>1 DEF ShownIn
  <2> QED
    BY <2>2, <2>3
<1>15. TimelineOK(N, z + 1)
  BY <1>5, <1>10, <1>11, <1>12, <1>13 DEF TimelineOK
<1> QED
  BY <1>14, <1>15 DEF AddedWell, N, a, z

(* So does addTimelineItem. *)
LEMMA AddedKeeps ==
  ASSUME NEW items, NEW next \in Nat, TimelineOK(items, next),
         NEW ids \in Seq(Events) \ {<<>>}, Run(ids), next <= ids[1],
         Len(ids) > 1 => \A j \in DOMAIN ids : IsText(ids[j])
  PROVE  AddedWell(items, ids, Added(items, ids))
<1>1. CASE Continues(items, ids)
  BY <1>1, ContinuedWell
<1>2. CASE ~ Continues(items, ids) /\ \E i \in DOMAIN items : items[i].ids[1] = ids[1]
  <2>1. PICK i \in DOMAIN items : items[i].ids[1] = ids[1]
    BY <1>2
  <2>2. AddedWell(items, ids, items)
    BY <2>1, ShownAlreadyWell
  <2>3. Added(items, ids) = items
    BY <1>2, AddedIs
  <2> QED
    BY <2>2, <2>3
<1>3. CASE ~ Continues(items, ids) /\ ~ \E i \in DOMAIN items : items[i].ids[1] = ids[1]
  <2>1. AddedWell(items, ids, Append(items, Item(ids, TRUE)))
    BY <1>3, AppendedWell
  <2>2. Added(items, ids) = Append(items, Item(ids, TRUE))
    BY <1>3, AddedIs
  <2> QED
    BY <2>1, <2>2
<1> QED
  BY <1>1, <1>2, <1>3

-----------------------------------------------------------------------------
(* The desktop, as it handles a chunk.                                     *)

Desks == [highest : 0 .. Len(log), pending : Seq({e \in Events : IsText(e)}), timeline : Seq(Items),
          gap : BOOLEAN, timer : BOOLEAN,
          hydration : [phase : {"none", "asked", "read"}, upto : 0 .. Len(log)], lost : BOOLEAN]

(* The first event that may not be in the timeline. *)
Frontier(d) == IF d.pending # <<>> THEN d.pending[1] ELSE d.highest + 1

PendingOK(d) == d.pending # <<>> => Run(d.pending) /\ d.pending[Len(d.pending)] = d.highest

(* What came in since the snapshot was read is shown.                      *)
Fetched(d) == viewing /\ ~ d.gap /\ d.hydration.phase # "asked" =>
                \A e \in d.hydration.upto + 1 .. d.highest : IsText(e) \/ e \in ShownIn(d.timeline)

DeskOK(d) == d \in Desks /\ TimelineOK(d.timeline, Frontier(d)) /\ PendingOK(d) /\ Fetched(d)

(* The fields of a desktop. *)
LEMMA DeskFields ==
  ASSUME log \in Seq(Kinds), NEW d \in Desks
  PROVE  /\ d.highest \in Nat /\ d.highest <= Len(log) /\ Len(log) \in Nat /\ Events \subseteq Nat
         /\ d.pending \in Seq(Events) /\ Len(d.pending) \in Nat /\ DOMAIN d.pending = 1 .. Len(d.pending)
         /\ d.timeline \in Seq(Items) /\ d.gap \in BOOLEAN /\ d.timer \in BOOLEAN /\ d.lost \in BOOLEAN
         /\ d.hydration \in [phase : {"none", "asked", "read"}, upto : 0 .. Len(log)]
         /\ \A j \in DOMAIN d.pending : IsText(d.pending[j])
         /\ d.pending # <<>> => 1 \in DOMAIN d.pending /\ Len(d.pending) \in DOMAIN d.pending
         /\ Frontier(d) \in Nat
<1>1. Len(log) \in Nat
  OBVIOUS
<1>2. Events \subseteq Nat
  BY <1>1 DEF Events
<1>3. /\ d.highest \in 0 .. Len(log) /\ d.pending \in Seq({e \in Events : IsText(e)})
      /\ d.timeline \in Seq(Items) /\ d.gap \in BOOLEAN /\ d.timer \in BOOLEAN /\ d.lost \in BOOLEAN
      /\ d.hydration \in [phase : {"none", "asked", "read"}, upto : 0 .. Len(log)]
  BY DEF Desks
<1> DEFINE Texts == {e \in Events : IsText(e)}
<1>4. d.pending \in Seq(Texts) /\ Texts \subseteq Events
  BY <1>3
<1> HIDE DEF Texts
<1>5. /\ d.pending \in Seq(Events) /\ Len(d.pending) \in Nat /\ DOMAIN d.pending = 1 .. Len(d.pending)
      /\ \A j \in DOMAIN d.pending : d.pending[j] \in Texts
      /\ d.pending # <<>> => 1 \in DOMAIN d.pending /\ Len(d.pending) \in DOMAIN d.pending
  BY <1>4, SeqMonotonic
<1>6. \A j \in DOMAIN d.pending : d.pending[j] \in Nat /\ IsText(d.pending[j])
  BY <1>2, <1>5 DEF Texts
<1>7. Frontier(d) \in Nat
  BY <1>1, <1>3, <1>5, <1>6 DEF Frontier
<1> QED
  BY <1>1, <1>2, <1>3, <1>5, <1>6, <1>7

(* The pending text lies between the frontier and the last event. *)
LEMMA FrontierBehind ==
  ASSUME log \in Seq(Kinds), NEW d \in Desks, PendingOK(d)
  PROVE  /\ Frontier(d) <= d.highest + 1
         /\ d.pending # <<>> => /\ d.pending \in Seq(Events) \ {<<>>} /\ Run(d.pending) /\ Frontier(d) = d.pending[1]
                                /\ d.pending[Len(d.pending)] = d.highest /\ d.highest \in Events
<1>1. d.highest \in Nat /\ d.pending \in Seq(Events) /\ Events \subseteq Nat
  BY DeskFields
<1>2. CASE d.pending = <<>>
  BY <1>1, <1>2 DEF Frontier
<1>3. CASE d.pending # <<>>
  <2>1. d.pending \in Seq(Events) \ {<<>>} /\ Run(d.pending) /\ d.pending[Len(d.pending)] = d.highest
    BY <1>1, <1>3 DEF PendingOK
  <2> DEFINE a == d.pending[1]
             n == Len(d.pending)
             z == d.pending[Len(d.pending)]
  <2>2. n \in Nat \ {0} /\ a \in Nat /\ z = a + n - 1 /\ z \in Events
    BY <1>1, <2>1, RunSpans
  <2> HIDE DEF a, n, z
  <2>3. a <= z + 1
    BY <2>2
  <2> QED
    BY <1>3, <2>1, <2>2, <2>3 DEF Frontier, a, n, z
<1> QED
  BY <1>2, <1>3

(* flushPendingTextDeltas. *)
LEMMA FlushedWell ==
  ASSUME log \in Seq(Kinds), NEW d, DeskOK(d)
  PROVE  LET t == FlushedText(d) IN
         /\ t = [d EXCEPT !.pending = <<>>, !.timeline = t.timeline]
         /\ t.pending = <<>> /\ t.highest = d.highest /\ t.gap = d.gap /\ t.timer = d.timer
         /\ t.hydration = d.hydration /\ t.lost = d.lost
         /\ TimelineOK(t.timeline, d.highest + 1) /\ ShownIn(d.timeline) \subseteq ShownIn(t.timeline)
<1> DEFINE t == FlushedText(d)
<1>1. /\ d \in Desks /\ TimelineOK(d.timeline, Frontier(d)) /\ PendingOK(d)
      /\ d.highest \in Nat /\ Frontier(d) \in Nat /\ Frontier(d) <= d.highest + 1
  BY DeskFields, FrontierBehind DEF DeskOK
<1>2. CASE d.pending = <<>>
  <2>1. t = d
    BY <1>2 DEF FlushedText
  <2>2. d = [d EXCEPT !.pending = <<>>, !.timeline = d.timeline]
    BY <1>1, <1>2 DEF Desks
  <2>3. TimelineOK(d.timeline, d.highest + 1)
    BY <1>1, <1>2 DEF Frontier
  <2> HIDE DEF t
  <2> QED
    BY <1>2, <2>1, <2>2, <2>3 DEF t
<1>3. CASE d.pending # <<>>
  <2> DEFINE N == Added(d.timeline, d.pending)
  <2>1. t = [d EXCEPT !.pending = <<>>, !.timeline = N]
    BY <1>3 DEF FlushedText
  <2>2. /\ d.pending \in Seq(Events) \ {<<>>} /\ Run(d.pending) /\ Frontier(d) = d.pending[1]
        /\ d.pending[Len(d.pending)] = d.highest /\ \A j \in DOMAIN d.pending : IsText(d.pending[j])
    BY <1>1, <1>3, FrontierBehind, DeskFields
  <2>3. AddedWell(d.timeline, d.pending, N)
    <3> HIDE DEF N
    <3>1. Frontier(d) <= d.pending[1]
      BY <1>1, <2>2
    <3> QED
      BY <1>1, <2>2, <3>1, AddedKeeps DEF N
  <2> HIDE DEF N
  <2>4. /\ TimelineOK(N, d.highest + 1) /\ ShownIn(d.timeline) \subseteq ShownIn(N)
    BY <2>2, <2>3 DEF AddedWell
  <2>5. /\ t.pending = <<>> /\ t.timeline = N /\ t.highest = d.highest /\ t.gap = d.gap /\ t.timer = d.timer
        /\ t.hydration = d.hydration /\ t.lost = d.lost
    BY <1>1, <2>1 DEF Desks
  <2> HIDE DEF t
  <2> QED
    BY <2>1, <2>4, <2>5 DEF t
<1> QED
  BY <1>2, <1>3

(* Frames of which none is missing, or which follow a gap, leave a good    *)
(* desktop.                                                                *)
HandledWell(d, f, t) ==
  /\ DeskOK(t)
  /\ f = d.highest + 1 => t.highest = f /\ t.gap = d.gap /\ t.timer = d.timer /\ t.lost = d.lost
  /\ f = Gap => t.gap /\ t.timer /\ t.lost
  /\ (d.gap => t.gap) /\ (d.timer => t.timer) /\ (d.lost => t.lost)

(* The next fragment of a text. *)
FragmentHandled(d, f) == [d EXCEPT !.pending = Append(@, f), !.highest = f]

LEMMA FragmentWell ==
  ASSUME log \in Seq(Kinds), NEW d, DeskOK(d), NEW f \in Events, f > d.highest, IsText(f),
         f = d.highest + 1 \/ (d.gap /\ d.highest = 0)
  PROVE  HandledWell(d, f, FragmentHandled(d, f))
<1> DEFINE t == [d EXCEPT !.pending = Append(@, f), !.highest = f]
<1>1. /\ d \in Desks /\ TimelineOK(d.timeline, Frontier(d)) /\ PendingOK(d) /\ Fetched(d)
      /\ d.highest \in Nat /\ Frontier(d) \in Nat /\ Frontier(d) <= d.highest + 1 /\ Events \subseteq Nat
      /\ d.pending \in Seq(Events) /\ Len(d.pending) \in Nat
  BY DeskFields, FrontierBehind DEF DeskOK
<1>2. f \in Nat /\ f # 0 /\ f <= Len(log) /\ Len(log) \in Nat
  <2>1. f \in 1 .. Len(log) /\ Len(log) \in Nat
    BY DEF Events
  <2> QED
    BY <2>1
<1> DEFINE Texts == {e \in Events : IsText(e)}
<1>3. d.pending \in Seq(Texts) /\ f \in Texts
  BY <1>1 DEF Desks
<1> DEFINE q == Append(d.pending, f)
<1>4. /\ q \in Seq(Texts) /\ Len(q) = Len(d.pending) + 1 /\ q # <<>> /\ q[Len(q)] = f /\ DOMAIN q = 1 .. Len(q)
      /\ \A j \in 1 .. Len(d.pending) : q[j] = d.pending[j]
  <2> HIDE DEF Texts
  <2>1. q \in Seq(Texts) /\ Len(q) = Len(d.pending) + 1 /\ q # <<>>
    BY <1>3
  <2>2. q[Len(d.pending) + 1] = f
    BY <1>3
  <2>3. \A j \in 1 .. Len(d.pending) : q[j] = d.pending[j]
    BY <1>3
  <2>4. DOMAIN q = 1 .. Len(q)
    <3> HIDE DEF q
    <3> QED
      BY <2>1
  <2> QED
    BY <2>1, <2>2, <2>3, <2>4
<1>5. /\ t.pending = q /\ t.highest = f /\ t.timeline = d.timeline /\ t.gap = d.gap /\ t.timer = d.timer
      /\ t.hydration = d.hydration /\ t.lost = d.lost
  BY <1>1 DEF Desks
<1>6. t \in Desks
  <2>1. f \in 0 .. Len(log)
    BY <1>2
  <2> HIDE DEF q
  <2>2. t = [d EXCEPT !.pending = q, !.highest = f]
    BY DEF q
  <2> QED
    BY <1>1, <1>4, <2>1, <2>2 DEF Desks
<1> HIDE DEF t, q, Texts
<1>7. Run(q) /\ Frontier(d) <= q[1] /\ q[1] \in Nat /\ (d.pending # <<>> => q[1] = Frontier(d))
  <2>1. CASE d.pending = <<>>
    <3>1. Len(q) = 1 /\ q[1] = f
      BY <1>4, <2>1
    <3>2. Run(q)
      <4>0. DOMAIN q = 1 .. 1
        BY <1>4, <3>1
      <4>1. \A j \in DOMAIN q : j = 1
        BY <4>0
      <4>2. f = f + 1 - 1
        BY <1>2
      <4> QED
        BY <3>1, <4>1, <4>2 DEF Run
    <3> QED
      BY <1>1, <1>2, <2>1, <3>1, <3>2
  <2>2. CASE d.pending # <<>>
    <3> DEFINE p == d.pending
               n == Len(p)
               a == p[1]
    <3>1. /\ p \in Seq(Events) \ {<<>>} /\ Run(p) /\ Frontier(d) = p[1] /\ p[Len(p)] = d.highest /\ d.highest \in Events
      BY <1>1, <2>2, FrontierBehind
    <3>2. Len(p) \in Nat \ {0} /\ p[1] \in Nat /\ d.highest = p[1] + Len(p) - 1 /\ DOMAIN p = 1 .. Len(p)
      BY <1>1, <3>1, RunSpans
    <3>3. d.highest # 0
      <4>1. \A e \in Events : e # 0
        BY DEF Events
      <4> QED
        BY <3>1, <4>1
    <3>4. \A j \in 1 .. Len(p) : p[j] = p[1] + j - 1
      BY <3>1, <3>2 DEF Run
    <3> HIDE DEF p, n, a
    <3>5. q[1] = p[1]
      BY <1>4, <3>2 DEF p
    <3>6. f = a + (n + 1) - 1
      <4>1. f = d.highest + 1 /\ n \in Nat /\ a \in Nat /\ d.highest = a + n - 1
        BY <3>2, <3>3 DEF n, a
      <4> QED
        BY <4>1
    <3>7. \A j \in DOMAIN q : j \in 1 .. Len(p) \/ j = Len(p) + 1
      BY <1>4, <3>2 DEF p
    <3>8. Run(q)
      <4> SUFFICES ASSUME NEW j \in DOMAIN q
                   PROVE  q[j] = q[1] + j - 1
        BY DEF Run
      <4>1. CASE j \in 1 .. Len(p)
        BY <1>4, <3>4, <3>5, <4>1 DEF p
      <4>2. CASE j = Len(p) + 1
        BY <1>4, <3>5, <3>6, <4>2 DEF p, n, a
      <4> QED
        BY <3>7, <4>1, <4>2
    <3> QED
      BY <1>1, <3>1, <3>2, <3>5, <3>8 DEF p
  <2> QED
    BY <2>1, <2>2
<1>8. Frontier(t) = q[1]
  BY <1>4, <1>5 DEF Frontier
<1>9. TimelineOK(t.timeline, Frontier(t))
  BY <1>1, <1>5, <1>7, <1>8, LaterTimeline
<1>10. PendingOK(t)
  BY <1>4, <1>5, <1>7 DEF PendingOK
<1>11. Fetched(t)
  <2> SUFFICES ASSUME viewing, ~ t.gap, t.hydration.phase # "asked",
                      NEW e \in t.hydration.upto + 1 .. t.highest
               PROVE  IsText(e) \/ e \in ShownIn(t.timeline)
    BY DEF Fetched
  <2>1. CASE e = f
    BY <2>1
  <2>2. CASE e # f
    <3>0. d.hydration.upto \in Nat
      <4>1. d.hydration \in [phase : {"none", "asked", "read"}, upto : 0 .. Len(log)]
        BY <1>1, DeskFields
      <4> QED
        BY <1>2, <4>1
    <3>1. e \in d.hydration.upto + 1 .. d.highest
      BY <1>1, <1>2, <1>5, <2>2, <3>0
    <3> QED
      BY <1>1, <1>5, <3>1 DEF Fetched
  <2> QED
    BY <2>1, <2>2
<1>12. DeskOK(t)
  BY <1>6, <1>9, <1>10, <1>11 DEF DeskOK
<1>13. f # Gap
  BY <1>2 DEF Gap
<1>14. HandledWell(d, f, t)
  BY <1>5, <1>12, <1>13 DEF HandledWell
<1> QED
  BY <1>14 DEF t, FragmentHandled

(* The next event that is no text. *)
OtherHandled(d, f) ==
  [FlushedText(d) EXCEPT !.timeline = Added(@, <<f>>), !.highest = f,
                         !.hydration = IF log[f] = "plan" THEN [phase |-> "asked", upto |-> 0] ELSE @]

LEMMA OtherWell ==
  ASSUME log \in Seq(Kinds), NEW d, DeskOK(d), NEW f \in Events, f > d.highest, ~ IsText(f),
         f = d.highest + 1 \/ (d.gap /\ d.highest = 0)
  PROVE  HandledWell(d, f, OtherHandled(d, f))
<1> DEFINE t == FlushedText(d)
           N == Added(t.timeline, <<f>>)
           h == IF log[f] = "plan" THEN [phase |-> "asked", upto |-> 0] ELSE d.hydration
           u == [t EXCEPT !.timeline = N, !.highest = f,
                          !.hydration = IF log[f] = "plan" THEN [phase |-> "asked", upto |-> 0] ELSE @]
<1>1. /\ d \in Desks /\ TimelineOK(d.timeline, Frontier(d)) /\ PendingOK(d) /\ Fetched(d)
      /\ d.highest \in Nat /\ Events \subseteq Nat
      /\ d.hydration \in [phase : {"none", "asked", "read"}, upto : 0 .. Len(log)]
  BY DeskFields DEF DeskOK
<1>2. f \in Nat /\ f # 0 /\ f <= Len(log) /\ Len(log) \in Nat
  <2>1. f \in 1 .. Len(log) /\ Len(log) \in Nat
    BY DEF Events
  <2> QED
    BY <2>1
<1>3. /\ t = [d EXCEPT !.pending = <<>>, !.timeline = t.timeline]
      /\ t.pending = <<>> /\ t.highest = d.highest /\ t.gap = d.gap /\ t.timer = d.timer
      /\ t.hydration = d.hydration /\ t.lost = d.lost
      /\ TimelineOK(t.timeline, d.highest + 1) /\ ShownIn(d.timeline) \subseteq ShownIn(t.timeline)
  BY FlushedWell
<1> HIDE DEF t
<1>4. AddedWell(t.timeline, <<f>>, N)
  <2> DEFINE ids == <<f>>
  <2>1. ids \in Seq(Events) \ {<<>>} /\ Len(ids) = 1 /\ ids[1] = f /\ DOMAIN ids = 1 .. 1
    OBVIOUS
  <2> HIDE DEF ids
  <2>2. Run(ids)
    BY <1>2, <2>1 DEF Run
  <2>3. d.highest + 1 <= ids[1] /\ d.highest + 1 \in Nat
    BY <1>1, <1>2, <2>1
  <2>4. ~ (Len(ids) > 1)
    BY <2>1
  <2>5. AddedWell(t.timeline, ids, Added(t.timeline, ids))
    BY <1>3, <2>1, <2>2, <2>3, <2>4, AddedKeeps
  <2> QED
    BY <2>5 DEF ids
<1> HIDE DEF N
<1>5. /\ TimelineOK(N, f + 1) /\ ShownIn(t.timeline) \cup {f} \subseteq ShownIn(N)
  <2>1. <<f>>[1] = f /\ <<f>>[Len(<<f>>)] = f
    OBVIOUS
  <2> QED
    BY <1>4, <2>1 DEF AddedWell
<1>6. t \in Desks
  <2>1. t.timeline \in Seq(Items)
    BY <1>3 DEF TimelineOK
  <2>2. <<>> \in Seq({e \in Events : IsText(e)})
    OBVIOUS
  <2> QED
    BY <1>1, <1>3, <2>1, <2>2 DEF Desks
<1>7. /\ u.pending = <<>> /\ u.highest = f /\ u.timeline = N /\ u.gap = d.gap /\ u.timer = d.timer
      /\ u.hydration = h /\ u.lost = d.lost
  BY <1>3, <1>6 DEF Desks
<1>8. h \in [phase : {"none", "asked", "read"}, upto : 0 .. Len(log)]
  BY <1>1, <1>2
<1>9. u \in Desks
  <2>1. u = [t EXCEPT !.timeline = N, !.highest = f, !.hydration = h]
    BY <1>3, <1>6 DEF Desks
  <2>2. N \in Seq(Items) /\ f \in 0 .. Len(log)
    BY <1>2, <1>5 DEF TimelineOK
  <2> HIDE DEF u, h
  <2> QED
    BY <1>6, <1>8, <2>1, <2>2 DEF Desks
<1>10. (h.phase = "asked" /\ h.upto = 0) \/ h = d.hydration
  OBVIOUS
<1> HIDE DEF u, h
<1>11. TimelineOK(u.timeline, Frontier(u)) /\ PendingOK(u)
  BY <1>5, <1>7 DEF Frontier, PendingOK
<1>12. Fetched(u)
  <2> SUFFICES ASSUME viewing, ~ u.gap, u.hydration.phase # "asked",
                      NEW e \in u.hydration.upto + 1 .. u.highest
               PROVE  IsText(e) \/ e \in ShownIn(u.timeline)
    BY DEF Fetched
  <2>0. u.hydration = d.hydration
    BY <1>7, <1>10
  <2>1. CASE e = f
    BY <1>5, <1>7, <2>1
  <2>2. CASE e # f
    <3>0. d.hydration.upto \in Nat
      BY <1>1, <1>2
    <3>1. e \in d.hydration.upto + 1 .. d.highest
      BY <1>1, <1>2, <1>7, <2>0, <2>2, <3>0
    <3> QED
      BY <1>1, <1>3, <1>5, <1>7, <2>0, <3>1 DEF Fetched
  <2> QED
    BY <2>1, <2>2
<1>13. DeskOK(u)
  BY <1>9, <1>11, <1>12 DEF DeskOK
<1>14. f # Gap
  BY <1>2 DEF Gap
<1>15. HandledWell(d, f, u)
  BY <1>7, <1>13, <1>14 DEF HandledWell
<1> QED
  BY <1>15 DEF OtherHandled, u, N, t

(* A gap. *)
LEMMA BehindWell ==
  ASSUME log \in Seq(Kinds), NEW d, DeskOK(d), NEW f, f # d.highest + 1
  PROVE  HandledWell(d, f, Behind(d))
<1> DEFINE t == Behind(d)
<1>1. d \in Desks /\ TimelineOK(d.timeline, Frontier(d)) /\ PendingOK(d)
  BY DEF DeskOK
<1>2. /\ t \in Desks /\ t.pending = d.pending /\ t.highest = d.highest /\ t.timeline = d.timeline
      /\ t.hydration = d.hydration /\ t.gap = TRUE /\ t.timer = TRUE /\ t.lost = TRUE
  BY <1>1 DEF Desks, Behind
<1> HIDE DEF t
<1>3. Frontier(t) = Frontier(d)
  BY <1>2 DEF Frontier
<1>4. DeskOK(t)
  BY <1>1, <1>2, <1>3 DEF DeskOK, PendingOK, Fetched
<1>5. HandledWell(d, f, t)
  BY <1>2, <1>4 DEF HandledWell
<1> QED
  BY <1>5 DEF t

LEMMA HandledKeeps ==
  ASSUME log \in Seq(Kinds), NEW d, DeskOK(d), NEW f \in Events \cup {Gap}, d.gap \/ f <= d.highest + 1
  PROVE  HandledWell(d, f, Handled(d, f))
<1>1. d.highest \in Nat /\ Events \subseteq Nat /\ d \in Desks
  BY DeskFields DEF DeskOK
<1>2. f \in Nat /\ Gap = 0
  BY <1>1 DEF Gap
<1>3. CASE f = Gap \/ (d.highest > 0 /\ f > d.highest + 1)
  <2>1. Handled(d, f) = Behind(d)
    BY <1>3 DEF Handled
  <2>2. f # d.highest + 1
    BY <1>1, <1>2, <1>3
  <2> QED
    BY <2>1, <2>2, BehindWell
<1>4. CASE ~ (f = Gap \/ (d.highest > 0 /\ f > d.highest + 1)) /\ f <= d.highest
  <2>1. Handled(d, f) = d
    BY <1>4 DEF Handled
  <2>2. f # d.highest + 1
    BY <1>1, <1>2, <1>4
  <2> QED
    BY <1>4, <2>1, <2>2 DEF HandledWell
<1>5. CASE ~ (f = Gap \/ (d.highest > 0 /\ f > d.highest + 1)) /\ ~ (f <= d.highest)
  <2>1. f \in Events /\ f > d.highest /\ (f = d.highest + 1 \/ (d.gap /\ d.highest = 0))
    BY <1>1, <1>2, <1>5
  <2>2. CASE IsText(f)
    <3>1. Handled(d, f) = FragmentHandled(d, f)
      BY <1>5, <2>2 DEF Handled, FragmentHandled
    <3> QED
      BY <2>1, <2>2, <3>1, FragmentWell
  <2>3. CASE ~ IsText(f)
    <3>1. Handled(d, f) = OtherHandled(d, f)
      BY <1>5, <2>3 DEF Handled, OtherHandled
    <3> QED
      BY <2>1, <2>3, <3>1, OtherWell
  <2> QED
    BY <2>2, <2>3
<1> QED
  BY <1>3, <1>4, <1>5

(* How the desktop reads the frames of a chunk. *)
Handles(after) == /\ after[0] = Desktop
                  /\ \A k \in 1 .. Len(wire) : after[k] = Handled(after[k - 1], wire[k])

(* The recursion of ReadChunk has a result.                                *)
LEMMA ChunkRuns ==
  ASSUME Len(wire) \in Nat, ReadChunk
  PROVE  \E after : /\ Handles(after)
                    /\ \E k \in 1 .. Len(wire) :
                         LET d == after[k]
                         IN /\ highest' = d.highest /\ pending' = d.pending /\ timeline' = d.timeline
                            /\ gap' = d.gap /\ timer' = d.timer /\ hydration' = d.hydration
                            /\ IF d.lost THEN conn' = NoConn /\ wire' = <<>>
                               ELSE wire' = SubSeq(wire, k + 1, Len(wire)) /\ UNCHANGED conn
<1> DEFINE step(f, n) == Handled(f[n - 1], wire[n])
           Upto(n) == \E f : f = [k \in 0 .. n |-> IF k = 0 THEN Desktop ELSE step(f, k)]
           Missing == {n \in Nat : ~ Upto(n)}
<1>1. ASSUME Missing # {}
      PROVE  FALSE
  <2>1. PICK n \in Missing : \A m \in Missing : n <= m
    <3> HIDE DEF Upto
    <3> QED
      BY <1>1, LeastNatural
  <2>2. CASE n = 0
    <3> DEFINE f == [k \in 0 .. 0 |-> Desktop]
    <3>1. f = [k \in 0 .. n |-> IF k = 0 THEN Desktop ELSE step(f, k)]
      BY <2>2
    <3> QED
      BY <2>1, <3>1
  <2>3. CASE n # 0
    <3>1. n - 1 \in Nat /\ n \in Nat
      BY <2>1, <2>3
    <3>2. Upto(n - 1)
      <4> HIDE DEF Upto
      <4> QED
        BY <2>1, <3>1
    <3>3. PICK g : g = [k \in 0 .. (n - 1) |-> IF k = 0 THEN Desktop ELSE step(g, k)]
      BY <3>2
    <3> DEFINE f == [k \in 0 .. n |-> IF k = n THEN step(g, n) ELSE g[k]]
    <3>4. \A k \in 0 .. n - 1 : f[k] = g[k]
      BY <3>1
    <3>5. f[n] = step(f, n)
      BY <3>1, <2>3, <3>4
    <3>6. \A k \in 0 .. n - 1 : g[k] = IF k = 0 THEN Desktop ELSE step(g, k)
      BY <3>3
    <3>7. \A k \in 0 .. n - 1 : f[k] = IF k = 0 THEN Desktop ELSE step(f, k)
      BY <3>1, <3>4, <3>6
    <3>8. \A k \in 0 .. n : f[k] = IF k = 0 THEN Desktop ELSE step(f, k)
      <4>1. \A k \in 0 .. n : k = n \/ k \in 0 .. n - 1
        BY <3>1
      <4> HIDE DEF f, step
      <4> QED
        BY <2>3, <3>5, <3>7, <4>1
    <3>9. f = [k \in 0 .. n |-> IF k = 0 THEN Desktop ELSE step(f, k)]
      <4>1. f = [k \in 0 .. n |-> f[k]]
        OBVIOUS
      <4> HIDE DEF f
      <4> QED
        BY <3>8, <4>1
    <3> QED
      BY <2>1, <3>9
  <2> QED
    BY <2>2, <2>3
<1>2. Upto(Len(wire))
  <2> HIDE DEF Upto
  <2> QED
    BY <1>1
<1> DEFINE f == CHOOSE f : f = [n \in 0 .. Len(wire) |-> IF n = 0 THEN Desktop ELSE step(f, n)]
<1>3. f = [n \in 0 .. Len(wire) |-> IF n = 0 THEN Desktop ELSE step(f, n)]
  BY <1>2
<1>4. \E k \in 1 .. Len(wire) :
        /\ highest' = f[k].highest /\ pending' = f[k].pending /\ timeline' = f[k].timeline
        /\ gap' = f[k].gap /\ timer' = f[k].timer /\ hydration' = f[k].hydration
        /\ IF f[k].lost THEN conn' = NoConn /\ wire' = <<>>
           ELSE wire' = SubSeq(wire, k + 1, Len(wire)) /\ UNCHANGED conn
  BY DEF ReadChunk
<1> HIDE DEF f
<1>5. f[0] = Desktop /\ \A n \in 1 .. Len(wire) : f[n] = step(f, n)
  <2>1. Len(wire) \in Nat /\ 0 \in 0 .. Len(wire) /\ \A n \in 1 .. Len(wire) : n \in 0 .. Len(wire) /\ n # 0
    OBVIOUS
  <2> HIDE DEF step
  <2> QED
    BY <1>3, <2>1
<1>6. Handles(f)
  BY <1>5 DEF Handles
<1> QED
  BY <1>4, <1>6

(* No frame of the first k of w tells of a gap. *)
Clear(w, k) == \A j \in 1 .. k : w[j] # Gap

(* After k frames, the desktop has come k events further, or has given up  *)
(* the connection.                                                         *)
HandledUpTo(after, k) ==
  /\ DeskOK(after[k])
  /\ Clear(wire, k) => after[k].highest = highest + k /\ after[k].gap = gap /\ after[k].timer = timer /\ ~ after[k].lost
  /\ ~ Clear(wire, k) => after[k].gap /\ after[k].timer /\ after[k].lost

LEMMA ChunkHandled ==
  ASSUME log \in Seq(Kinds), wire \in Seq(Events \cup {Gap}), DeskOK(Desktop),
         \A k \in DOMAIN wire : Clear(wire, k) => wire[k] = highest + k,
         NEW after, Handles(after), NEW k \in 0 .. Len(wire)
  PROVE  HandledUpTo(after, k)
<1> DEFINE Missing == {n \in 0 .. Len(wire) : ~ HandledUpTo(after, n)}
<1>1. Len(wire) \in Nat /\ DOMAIN wire = 1 .. Len(wire) /\ \A n \in 1 .. Len(wire) : wire[n] \in Events \cup {Gap}
  OBVIOUS
<1>2. highest \in Nat /\ Desktop.highest = highest /\ Desktop.gap = gap /\ Desktop.timer = timer /\ Desktop.lost = FALSE
  <2>1. Desktop \in Desks /\ Desktop.highest = highest
    BY DEF DeskOK, Desktop
  <2>2. Desktop.highest \in Nat
    BY <2>1, DeskFields
  <2> QED
    BY <2>1, <2>2 DEF Desktop
<1>3. ASSUME Missing # {}
      PROVE  FALSE
  <2>1. PICK n \in Missing : \A m \in Missing : n <= m
    <3>1. Missing \in SUBSET Nat
      BY <1>1
    <3> HIDE DEF Missing
    <3> QED
      BY <1>3, <3>1, LeastNatural
  <2>2. CASE n = 0
    <3>1. after[0] = Desktop /\ Clear(wire, 0) /\ highest + 0 = highest
      BY <1>2 DEF Handles, Clear
    <3>2. HandledUpTo(after, 0)
      BY <1>2, <3>1 DEF HandledUpTo
    <3> QED
      BY <2>1, <2>2, <3>2
  <2>3. CASE n # 0
    <3>1. n \in 1 .. Len(wire) /\ n - 1 \in 0 .. Len(wire) /\ n \in Nat /\ n - 1 \in Nat
      BY <1>1, <2>1, <2>3
    <3>2. HandledUpTo(after, n - 1)
      <4> HIDE DEF HandledUpTo
      <4> QED
        BY <2>1, <3>1
    <3> DEFINE d == after[n - 1]
               f == wire[n]
    <3>3. after[n] = Handled(d, f)
      BY <3>1 DEF Handles
    <3>4. f \in Events \cup {Gap} /\ DeskOK(d)
      BY <1>1, <3>1, <3>2 DEF HandledUpTo
    <3>5. Clear(wire, n) <=> Clear(wire, n - 1) /\ f # Gap
      BY <3>1 DEF Clear
    <3>6. /\ Clear(wire, n - 1) => d.highest = highest + (n - 1) /\ d.gap = gap /\ d.timer = timer /\ ~ d.lost
          /\ ~ Clear(wire, n - 1) => d.gap /\ d.timer /\ d.lost
      BY <3>2 DEF HandledUpTo
    <3>7. Clear(wire, n) => f = highest + n /\ f = d.highest + 1
      BY <1>1, <1>2, <3>1, <3>5, <3>6
    <3>8. d.gap \/ f <= d.highest + 1
      <4>1. CASE Clear(wire, n)
        <5>1. f = d.highest + 1 /\ d.highest \in Nat
          BY <1>2, <3>1, <3>5, <3>6, <3>7, <4>1
        <5> QED
          BY <5>1
      <4>2. CASE ~ Clear(wire, n - 1)
        BY <3>6, <4>2
      <4>3. CASE f = Gap /\ Clear(wire, n - 1)
        BY <1>2, <3>1, <3>6, <4>3 DEF Gap
      <4> QED
        BY <3>5, <4>1, <4>2, <4>3
    <3> HIDE DEF d, f
    <3>9. HandledWell(d, f, after[n])
      BY <3>3, <3>4, <3>8, HandledKeeps
    <3>10. DeskOK(after[n]) /\ (Clear(wire, n) => after[n].highest = highest + n)
      BY <3>7, <3>9 DEF HandledWell
    <3>11. Clear(wire, n) => after[n].gap = gap /\ after[n].timer = timer /\ after[n].lost = d.lost /\ ~ d.lost
      BY <3>5, <3>6, <3>7, <3>9 DEF HandledWell
    <3>12. ~ Clear(wire, n) => after[n].gap /\ after[n].timer /\ after[n].lost
      BY <3>5, <3>6, <3>9 DEF HandledWell
    <3>13. HandledUpTo(after, n)
      BY <3>10, <3>11, <3>12 DEF HandledUpTo
    <3> QED
      BY <2>1, <3>13
  <2> QED
    BY <2>2, <2>3
<1> QED
  BY <1>3

-----------------------------------------------------------------------------
(* The merge of a snapshot.                                                *)

(* The events of the snapshot that a text stands for. *)
Covered(upto) == {e \in 1 .. upto : \E i \in LiveOnly(upto) : LET item == timeline[i] IN
        /\ Unpersisted(item, upto)
        /\ e \in Range(item.ids) \/ (IsText(e) /\ item.ids[1] <= e /\ e <= LastId(item))}

(* What of the snapshot is shown, and what of the timeline is kept. *)
Restored(upto) == ItemsAt(Persisted(upto), (1 .. upto) \ Covered(upto))
Kept(upto) == ItemsAt(timeline, LiveOnly(upto))

LEMMA MergedIs ==
  ASSUME NEW upto
  PROVE  Merged(upto) = Restored(upto) \o Kept(upto)
BY DEF Merged, Restored, Kept, Covered

LEMMA RestoredAre ==
  ASSUME log \in Seq(Kinds), NEW upto \in 0 .. Len(log)
  PROVE  LET R == Restored(upto) IN
         /\ R \in Seq(Items)
         /\ \A k \in DOMAIN R : /\ R[k].ids = <<R[k].ids[1]>> /\ ~ R[k].live
                                /\ R[k].ids[1] \in (1 .. upto) \ Covered(upto) /\ LastId(R[k]) = R[k].ids[1]
         /\ \A j, k \in DOMAIN R : j < k => R[j].ids[1] < R[k].ids[1]
         /\ \A e \in (1 .. upto) \ Covered(upto) : \E k \in DOMAIN R : R[k].ids[1] = e
<1> DEFINE P == Persisted(upto)
           S == (1 .. upto) \ Covered(upto)
           R == ItemsAt(P, S)
<1>1. Len(log) \in Nat /\ upto \in Nat /\ \A e \in 1 .. upto : e \in Events
  <2>1. Len(log) \in Nat
    OBVIOUS
  <2> QED
    BY <2>1 DEF Events
<1>2. P = [e \in 1 .. upto |-> Item(<<e>>, FALSE)]
  BY DEF Persisted
<1>3. \A e \in 1 .. upto : Item(<<e>>, FALSE) \in Items /\ Item(<<e>>, FALSE).ids = <<e>> /\ ~ Item(<<e>>, FALSE).live
  <2> SUFFICES ASSUME NEW e \in 1 .. upto
               PROVE  <<e>> \in Seq(Events) \ {<<>>}
    BY DEF Items, Item
  <2> QED
    BY <1>1
<1>4. P \in Seq(Items) /\ DOMAIN P = 1 .. upto
  <2> HIDE DEF P
  <2>1. P \in [1 .. upto -> Items]
    BY <1>2, <1>3
  <2>2. \A f : f \in [1 .. upto -> Items] => f \in Seq(Items)
    BY <1>1
  <2> QED
    BY <2>1, <2>2
<1> HIDE DEF P, S
<1>5. R \in Seq(Items)
  BY <1>4, ItemsAtAre
<1>6. PICK place : Selects(place, R, P, S)
  BY <1>4, ItemsAtAre
<1>7. S \cap DOMAIN P = S
  BY <1>4 DEF S
<1> HIDE DEF R
<1>8. \A k \in DOMAIN R : place[k] \in S /\ place[k] \in 1 .. upto /\ R[k] = P[place[k]]
  BY <1>4, <1>6 DEF Selects
<1>9. \A k \in DOMAIN R : R[k].ids = <<place[k]>> /\ ~ R[k].live
  BY <1>2, <1>3, <1>8
<1>10. \A k \in DOMAIN R : R[k].ids[1] = place[k] /\ LastId(R[k]) = place[k]
  <2> SUFFICES ASSUME NEW k \in DOMAIN R
               PROVE  R[k].ids[1] = place[k] /\ R[k].ids[Len(R[k].ids)] = place[k]
    BY DEF LastId
  <2>1. \A p : <<p>>[1] = p /\ Len(<<p>>) = 1
    OBVIOUS
  <2>2. R[k].ids = <<place[k]>>
    BY <1>9
  <2> QED
    BY <2>1, <2>2
<1>11. \A e \in S : \E k \in DOMAIN R : R[k].ids[1] = e
  BY <1>6, <1>7, <1>10 DEF Selects
<1>12. \A j, k \in DOMAIN R : j < k => R[j].ids[1] < R[k].ids[1]
  BY <1>6, <1>10 DEF Selects
<1>13. \A k \in DOMAIN R : /\ R[k].ids = <<R[k].ids[1]>> /\ ~ R[k].live
                           /\ R[k].ids[1] \in S /\ LastId(R[k]) = R[k].ids[1]
  BY <1>8, <1>9, <1>10
<1> QED
  BY <1>5, <1>11, <1>12, <1>13 DEF Restored, R, S, P

LEMMA KeptAre ==
  ASSUME timeline \in Seq(Items), NEW upto
  PROVE  Kept(upto) \in Seq(Items) /\ \E place : Selects(place, Kept(upto), timeline, LiveOnly(upto))
BY ItemsAtAre DEF Kept

(* An event of the snapshot that is not covered is before the items kept.  *)
LEMMA RestoredFirst ==
  ASSUME log \in Seq(Kinds), timeline \in Seq(Items), RunsAreText(timeline),
         NEW upto \in 0 .. Len(log), NEW e \in (1 .. upto) \ Covered(upto), NEW i \in LiveOnly(upto)
  PROVE  e < timeline[i].ids[1]
<1>1. Len(log) \in Nat /\ upto \in Nat /\ e \in Nat /\ e <= upto /\ Events \subseteq Nat
  <2>1. Len(log) \in Nat
    OBVIOUS
  <2> QED
    BY <2>1 DEF Events
<1>2. i \in DOMAIN timeline /\ (timeline[i].ids[1] > upto \/ Unpersisted(timeline[i], upto))
  BY DEF LiveOnly
<1>3. /\ timeline[i].ids[1] \in Nat /\ LastId(timeline[i]) \in Nat
      /\ Range(timeline[i].ids) = timeline[i].ids[1] .. LastId(timeline[i])
  BY <1>1, <1>2, ItemSpans
<1>4. CASE timeline[i].ids[1] > upto
  BY <1>1, <1>3, <1>4
<1>5. CASE Unpersisted(timeline[i], upto)
  <2>1. LastId(timeline[i]) > upto
    BY <1>5 DEF Unpersisted
  <2>2. e \notin Range(timeline[i].ids)
    BY <1>5 DEF Covered
  <2> QED
    BY <1>1, <1>3, <2>1, <2>2
<1> QED
  BY <1>2, <1>4, <1>5

(* An event from the frontier on is not covered, for what is live lies     *)
(* before it.                                                              *)
LEMMA NothingCoveredBeyond ==
  ASSUME log \in Seq(Kinds), NEW next \in Nat, TimelineOK(timeline, next),
         NEW upto \in 0 .. Len(log), NEW e \in Covered(upto)
  PROVE  e < next
<1>1. timeline \in Seq(Items) /\ RunsAreText(timeline) /\ LiveBehind(timeline, next)
  BY DEF TimelineOK
<1>2. Len(log) \in Nat /\ upto \in Nat /\ e \in Nat /\ Events \subseteq Nat
  <2>1. Len(log) \in Nat
    OBVIOUS
  <2> QED
    BY <2>1 DEF Events, Covered
<1>3. PICK i \in LiveOnly(upto) :
        /\ Unpersisted(timeline[i], upto)
        /\ e \in Range(timeline[i].ids) \/ (IsText(e) /\ timeline[i].ids[1] <= e /\ e <= LastId(timeline[i]))
  BY DEF Covered
<1>4. i \in DOMAIN timeline /\ timeline[i].live
  BY <1>3 DEF LiveOnly, Unpersisted
<1>5. /\ timeline[i].ids[1] \in Nat /\ LastId(timeline[i]) \in Nat
      /\ Range(timeline[i].ids) = timeline[i].ids[1] .. LastId(timeline[i])
  BY <1>1, <1>2, <1>4, ItemSpans
<1>6. e <= LastId(timeline[i])
  BY <1>2, <1>3, <1>5
<1>7. LastId(timeline[i]) < next
  BY <1>1, <1>4 DEF LiveBehind
<1> QED
  BY <1>2, <1>5, <1>6, <1>7

(* The merged timeline is as good as the one before. *)
LEMMA MergedWell ==
  ASSUME log \in Seq(Kinds), NEW next \in Nat \ {0}, TimelineOK(timeline, next), NEW upto \in 0 .. Len(log)
  PROVE  TimelineOK(Merged(upto), next)
<1> DEFINE R == Restored(upto)
           K == Kept(upto)
           M == R \o K
           r == Len(R)
           S == (1 .. upto) \ Covered(upto)
<1>0. Len(log) \in Nat /\ upto \in Nat /\ Events \subseteq Nat
  <2>1. Len(log) \in Nat
    OBVIOUS
  <2> QED
    BY <2>1 DEF Events
<1>1. /\ timeline \in Seq(Items) /\ RunsAreText(timeline) /\ Ascending(timeline)
      /\ LiveBehind(timeline, next) /\ NoHole(timeline, next)
  BY DEF TimelineOK
<1>2. /\ R \in Seq(Items)
      /\ \A k \in DOMAIN R : /\ R[k].ids = <<R[k].ids[1]>> /\ ~ R[k].live
                             /\ R[k].ids[1] \in S /\ LastId(R[k]) = R[k].ids[1]
      /\ \A j, k \in DOMAIN R : j < k => R[j].ids[1] < R[k].ids[1]
      /\ \A e \in S : \E k \in DOMAIN R : R[k].ids[1] = e
  BY RestoredAre
<1>3. K \in Seq(Items)
  BY <1>1, KeptAre
<1>4. PICK place : Selects(place, K, timeline, LiveOnly(upto))
  BY <1>1, KeptAre
<1>5. /\ \A i \in LiveOnly(upto) : i \in DOMAIN timeline
      /\ \A k \in DOMAIN K : place[k] \in LiveOnly(upto) /\ K[k] = timeline[place[k]]
      /\ \A j, k \in DOMAIN K : j < k => place[j] < place[k]
      /\ \A i \in LiveOnly(upto) : \E k \in DOMAIN K : place[k] = i
  <2>1. \A i \in LiveOnly(upto) : i \in DOMAIN timeline
    BY DEF LiveOnly
  <2> HIDE DEF K
  <2> QED
    BY <1>4, <2>1 DEF Selects
<1>6. \A e \in S : e \in Nat /\ e <= upto /\ \A i \in LiveOnly(upto) : e < timeline[i].ids[1]
  <2>1. \A e \in S : \A i \in LiveOnly(upto) : e < timeline[i].ids[1]
    BY <1>1, RestoredFirst
  <2> QED
    BY <1>0, <2>1
<1>7. Merged(upto) = M
  BY MergedIs
<1> HIDE DEF R, K
<1>8. /\ M \in Seq(Items) /\ r \in Nat /\ DOMAIN M = 1 .. r + Len(K) /\ DOMAIN R = 1 .. r /\ DOMAIN K = 1 .. Len(K)
      /\ Len(K) \in Nat
      /\ \A k \in 1 .. r + Len(K) : M[k] = IF k <= r THEN R[k] ELSE K[k - r]
  <2>1. /\ M \in Seq(Items) /\ Len(M) = Len(R) + Len(K)
        /\ \A k \in 1 .. Len(R) + Len(K) : M[k] = IF k <= Len(R) THEN R[k] ELSE K[k - Len(R)]
    BY <1>2, <1>3, ConcatProperties
  <2>2. r \in Nat /\ DOMAIN R = 1 .. r /\ DOMAIN K = 1 .. Len(K) /\ Len(K) \in Nat
    BY <1>2, <1>3
  <2>3. DOMAIN M = 1 .. Len(M)
    <3> HIDE DEF M
    <3> QED
      BY <2>1
  <2> QED
    BY <2>1, <2>2, <2>3
<1> HIDE DEF M, r, S
(* Each item of the result is of one kind or the other. *)
<1>9. \A k \in DOMAIN M : \/ k \in DOMAIN R /\ k <= r /\ M[k] = R[k]
                          \/ k - r \in DOMAIN K /\ k > r /\ M[k] = K[k - r]
  BY <1>8
<1>10. /\ \A k \in DOMAIN R : k \in DOMAIN M /\ M[k] = R[k]
       /\ \A k \in DOMAIN K : k + r \in DOMAIN M /\ M[k + r] = K[k]
  <2>1. \A k \in DOMAIN R : k \in DOMAIN M /\ M[k] = R[k]
    BY <1>8
  <2>2. \A k \in DOMAIN K : k + r \in DOMAIN M /\ k + r - r = k /\ ~ (k + r <= r)
    BY <1>8
  <2> QED
    BY <1>8, <2>1, <2>2
<1>11. RunsAreText(M)
  <2> SUFFICES ASSUME NEW k \in DOMAIN M
               PROVE  /\ Run(M[k].ids)
                      /\ Len(M[k].ids) > 1 => M[k].live /\ \A j \in DOMAIN M[k].ids : IsText(M[k].ids[j])
    BY DEF RunsAreText
  <2>1. CASE k \in DOMAIN R /\ k <= r /\ M[k] = R[k]
    <3> DEFINE e == R[k].ids[1]
    <3>1. M[k].ids = <<e>> /\ e \in Nat
      BY <1>2, <1>6, <2>1
    <3> HIDE DEF e
    <3>2. Run(<<e>>)
      <4>1. \A j \in DOMAIN <<e>> : j = 1
        OBVIOUS
      <4>2. <<e>>[1] = e /\ e = e + 1 - 1
        BY <3>1
      <4> QED
        BY <4>1, <4>2 DEF Run
    <3>3. ~ (Len(<<e>>) > 1)
      OBVIOUS
    <3> QED
      BY <3>1, <3>2, <3>3
  <2>2. CASE k - r \in DOMAIN K /\ M[k] = K[k - r]
    <3>1. PICK i \in DOMAIN timeline : M[k] = timeline[i]
      BY <1>5, <2>2
    <3> QED
      BY <1>1, <3>1 DEF RunsAreText
  <2> QED
    BY <1>9, <2>1, <2>2
<1>12. Ascending(M)
  <2> SUFFICES ASSUME NEW j \in DOMAIN M, NEW k \in DOMAIN M, j < k
               PROVE  LastId(M[j]) < M[k].ids[1]
    BY DEF Ascending
  <2>1. CASE k \in DOMAIN R /\ k <= r /\ M[k] = R[k]
    <3>1. j \in DOMAIN R /\ M[j] = R[j]
      BY <1>8, <2>1
    <3> QED
      BY <1>2, <2>1, <3>1
  <2>2. CASE k - r \in DOMAIN K /\ k > r /\ M[k] = K[k - r]
    <3>1. place[k - r] \in LiveOnly(upto) /\ M[k] = timeline[place[k - r]]
      BY <1>5, <2>2
    <3>2. CASE j \in DOMAIN R /\ M[j] = R[j]
      BY <1>2, <1>6, <3>1, <3>2
    <3>3. CASE j - r \in DOMAIN K /\ M[j] = K[j - r]
      <4>1. j - r < k - r
        BY <1>8, <2>2, <3>3
      <4>2. place[j - r] \in LiveOnly(upto) /\ M[j] = timeline[place[j - r]] /\ place[j - r] < place[k - r]
        BY <1>5, <2>2, <3>3, <4>1
      <4> QED
        BY <1>1, <1>5, <3>1, <4>2 DEF Ascending
    <3> QED
      BY <1>9, <3>2, <3>3
  <2> QED
    BY <1>9, <2>1, <2>2
<1>13. LiveBehind(M, next)
  <2> SUFFICES ASSUME NEW k \in DOMAIN M, M[k].live
               PROVE  LastId(M[k]) < next
    BY DEF LiveBehind
  <2>1. ~ (k \in DOMAIN R /\ M[k] = R[k])
    BY <1>2
  <2>2. k - r \in DOMAIN K /\ M[k] = K[k - r]
    BY <1>9, <2>1
  <2>3. PICK i \in DOMAIN timeline : M[k] = timeline[i]
    BY <1>5, <2>2
  <2> QED
    BY <1>1, <2>3 DEF LiveBehind
<1>14. NoHole(M, next)
  <2> SUFFICES ASSUME NEW k \in DOMAIN M, NEW e \in next .. LastId(M[k])
               PROVE  \E j \in DOMAIN M : M[j].ids[1] = e
    BY DEF NoHole
  <2>0. LastId(M[k]) \in Events
    BY <1>8, <1>11, ItemSpans
  <2>1. e \in Nat \ {0} /\ next <= e
    <3> DEFINE z == LastId(M[k])
    <3>1. z \in Nat /\ e \in next .. z
      BY <1>0, <2>0
    <3> HIDE DEF z
    <3> QED
      BY <3>1
  <2>2. e \notin Covered(upto)
    BY <2>1, NothingCoveredBeyond
  <2>3. CASE e <= upto
    <3>1. e \in S
      BY <1>0, <2>1, <2>2, <2>3 DEF S
    <3> QED
      BY <1>2, <1>10, <3>1
  <2>4. CASE e > upto
    <3>1. ~ (k \in DOMAIN R /\ M[k] = R[k])
      BY <1>0, <1>2, <1>6, <2>1, <2>4
    <3>2. k - r \in DOMAIN K /\ M[k] = K[k - r]
      BY <1>9, <3>1
    <3>3. PICK i \in DOMAIN timeline : M[k] = timeline[i]
      BY <1>5, <3>2
    <3>4. PICK j \in DOMAIN timeline : timeline[j].ids[1] = e
      BY <1>1, <3>3 DEF NoHole
    <3>5. j \in LiveOnly(upto)
      BY <2>4, <3>4 DEF LiveOnly
    <3>6. PICK p \in DOMAIN K : place[p] = j
      BY <1>5, <3>5
    <3> QED
      BY <1>5, <1>10, <3>4, <3>6
  <2> QED
    BY <1>0, <2>1, <2>3, <2>4
<1>15. TimelineOK(M, next)
  BY <1>8, <1>11, <1>12, <1>13, <1>14 DEF TimelineOK
<1> QED
  BY <1>7, <1>15

(* No event but text is lost by the merge. *)
LEMMA MergedShows ==
  ASSUME log \in Seq(Kinds), timeline \in Seq(Items), RunsAreText(timeline), NEW upto \in 0 .. Len(log),
         NEW e \in Events, ~ IsText(e), e <= upto \/ e \in ShownIn(timeline)
  PROVE  e \in ShownIn(Merged(upto))
<1> DEFINE R == Restored(upto)
           K == Kept(upto)
           M == R \o K
<1>1. Len(log) \in Nat /\ upto \in Nat /\ Events \subseteq Nat /\ e \in Nat /\ e >= 1
  <2>1. Len(log) \in Nat
    OBVIOUS
  <2> QED
    BY <2>1 DEF Events
<1>2. /\ R \in Seq(Items)
      /\ \A k \in DOMAIN R : R[k].ids = <<R[k].ids[1]>>
      /\ \A i \in (1 .. upto) \ Covered(upto) : \E k \in DOMAIN R : R[k].ids[1] = i
  BY RestoredAre
<1>3. K \in Seq(Items)
  BY KeptAre
<1>4. PICK place : Selects(place, K, timeline, LiveOnly(upto))
  BY KeptAre
<1>5. Merged(upto) = M
  BY MergedIs
<1> HIDE DEF R, K
<1>6. /\ \A k \in DOMAIN R : k \in DOMAIN M /\ M[k] = R[k]
      /\ \A k \in DOMAIN K : \E m \in DOMAIN M : M[m] = K[k]
  <2>1. /\ M \in Seq(Items) /\ Len(M) = Len(R) + Len(K)
        /\ \A k \in 1 .. Len(R) + Len(K) : M[k] = IF k <= Len(R) THEN R[k] ELSE K[k - Len(R)]
    BY <1>2, <1>3, ConcatProperties
  <2>2. Len(R) \in Nat /\ DOMAIN R = 1 .. Len(R) /\ DOMAIN K = 1 .. Len(K) /\ Len(K) \in Nat
    BY <1>2, <1>3
  <2> HIDE DEF M
  <2>3. DOMAIN M = 1 .. Len(R) + Len(K)
    BY <2>1
  <2>4. \A k \in DOMAIN R : k \in DOMAIN M /\ M[k] = R[k]
    BY <2>1, <2>2, <2>3
  <2>5. \A k \in DOMAIN K : k + Len(R) \in DOMAIN M /\ M[k + Len(R)] = K[k]
    <3> SUFFICES ASSUME NEW k \in DOMAIN K
                 PROVE  k + Len(R) \in DOMAIN M /\ M[k + Len(R)] = K[k]
      OBVIOUS
    <3>1. k + Len(R) \in 1 .. Len(R) + Len(K) /\ ~ (k + Len(R) <= Len(R)) /\ k + Len(R) - Len(R) = k
      BY <2>2
    <3> QED
      BY <2>1, <2>3, <3>1
  <2> QED
    BY <2>4, <2>5
<1> HIDE DEF M
<1>7. \A i \in LiveOnly(upto) : i \in DOMAIN timeline /\ Range(timeline[i].ids) \subseteq ShownIn(M)
  <2> SUFFICES ASSUME NEW i \in LiveOnly(upto)
               PROVE  i \in DOMAIN timeline /\ Range(timeline[i].ids) \subseteq ShownIn(M)
    OBVIOUS
  <2>1. i \in DOMAIN timeline
    BY DEF LiveOnly
  <2>2. PICK k \in DOMAIN K : K[k] = timeline[i]
    BY <1>4, <2>1 DEF Selects
  <2>3. PICK m \in DOMAIN M : M[m] = timeline[i]
    BY <1>6, <2>2
  <2> QED
    BY <2>1, <2>3 DEF ShownIn
<1>8. CASE e <= upto
  <2>1. CASE e \in Covered(upto)
    <3>1. PICK i \in LiveOnly(upto) :
            /\ Unpersisted(timeline[i], upto)
            /\ e \in Range(timeline[i].ids) \/ (IsText(e) /\ timeline[i].ids[1] <= e /\ e <= LastId(timeline[i]))
      BY <2>1 DEF Covered
    <3> QED
      BY <1>5, <1>7, <3>1
  <2>2. CASE e \notin Covered(upto)
    <3>1. PICK k \in DOMAIN R : R[k].ids[1] = e
      BY <1>1, <1>2, <1>8, <2>2
    <3>2. k \in DOMAIN M /\ M[k].ids = <<e>>
      BY <1>2, <1>6, <3>1
    <3>3. e \in Range(<<e>>)
      <4>1. 1 \in DOMAIN <<e>> /\ <<e>>[1] = e
        OBVIOUS
      <4> QED
        BY <4>1 DEF Range
    <3> QED
      BY <1>5, <3>2, <3>3 DEF ShownIn
  <2> QED
    BY <2>1, <2>2
<1>9. CASE e > upto
  <2>1. PICK i \in DOMAIN timeline : e \in Range(timeline[i].ids)
    BY <1>1, <1>9 DEF ShownIn
  <2>2. /\ timeline[i].ids[1] \in Nat /\ Range(timeline[i].ids) = timeline[i].ids[1] .. LastId(timeline[i])
        /\ timeline[i].ids[1] = LastId(timeline[i])
    BY <1>1, <2>1, ItemSpans
  <2>3. i \in LiveOnly(upto)
    BY <1>1, <1>9, <2>1, <2>2 DEF LiveOnly
  <2> QED
    BY <1>5, <1>7, <2>1, <2>3
<1> QED
  BY <1>1, <1>8, <1>9

-----------------------------------------------------------------------------
(* The connection.                                                         *)

Conns(n) == [phase : {"none", "asked", "replaying", "live"}, last : 0 .. n, mark : 0 .. n,
             queue : Seq(1 .. n), dropped : 0 .. n, full : BOOLEAN]

(* The last event before those in the queue. *)
Base(c) == IF c.phase = "replaying" THEN c.mark ELSE c.last

(* Between the last event that the desktop has, h, and the last that was   *)
(* stored, n, the events are on the wire w, in the queue or in the store,  *)
(* each once and in order, unless a gap is told or will be.                *)
Idle(c, w) == c.phase \in {"none", "asked"} => w = <<>> /\ c.queue = <<>> /\ c.dropped = 0 /\ ~ c.full
Written(c, w, h) == c.phase # "none" /\ Clear(w, Len(w)) => c.last = h + Len(w)
OnWire(w, h) == \A k \in DOMAIN w : Clear(w, k) => w[k] = h + k
Queued(c, n) == Base(c) + Len(c.queue) = n /\ \A j \in DOMAIN c.queue : c.queue[j] = Base(c) + j
Wired(c, w, h, n) ==
  /\ c \in Conns(n) /\ Len(c.queue) <= QueueSize /\ w \in Seq(0 .. n)
  /\ Idle(c, w) /\ (c.phase = "replaying" => c.last <= c.mark)
  /\ Written(c, w, h) /\ OnWire(w, h)
  /\ c.phase \in {"replaying", "live"} /\ Clear(w, Len(w)) /\ c.dropped = 0 => Queued(c, n)

(* What SubSeq leaves of a sequence after k of its elements. *)
LEMMA WithoutFirst ==
  ASSUME NEW T, NEW s \in Seq(T), NEW k \in 0 .. Len(s)
  PROVE  LET v == SubSeq(s, k + 1, Len(s)) IN
         /\ v \in Seq(T) /\ Len(v) = Len(s) - k /\ \A j \in 1 .. Len(s) - k : v[j] = s[k + j]
<1> DEFINE v == SubSeq(s, k + 1, Len(s))
           z == Len(s)
<1>1. z \in Nat /\ k \in Nat /\ k <= z /\ k + 1 \in Int /\ \A i \in 1 .. z : s[i] \in T
  OBVIOUS
<1>2. \A i \in k + 1 .. z : i \in 1 .. z
  <2> HIDE DEF z
  <2> QED
    BY <1>1
<1>3. /\ v \in Seq(T) /\ Len(v) = IF k + 1 <= z THEN z - (k + 1) + 1 ELSE 0
      /\ \A j \in 1 .. z - (k + 1) + 1 : v[j] = s[k + 1 + j - 1]
  <2>1. \A i \in k + 1 .. Len(s) : s[i] \in T
    BY <1>1, <1>2
  <2> QED
    BY <1>1, <2>1, SubSeqProperties
<1> HIDE DEF v, z
<1>4. (IF k + 1 <= z THEN z - (k + 1) + 1 ELSE 0) = z - k
  <2>1. CASE k = z
    BY <1>1, <2>1
  <2>2. CASE k + 1 <= z
    BY <1>1, <2>2
  <2> QED
    BY <1>1, <2>1, <2>2
<1>5. z - (k + 1) + 1 = z - k /\ \A j \in 1 .. z - k : k + 1 + j - 1 = k + j
  BY <1>1
<1> QED
  BY <1>3, <1>4, <1>5 DEF v, z

(* And what it takes. *)
LEMMA FirstOnes ==
  ASSUME NEW T, NEW s \in Seq(T), NEW k \in 0 .. Len(s)
  PROVE  LET v == SubSeq(s, 1, k) IN
         /\ v \in Seq(T) /\ Len(v) = k /\ \A j \in 1 .. k : v[j] = s[j]
<1> DEFINE v == SubSeq(s, 1, k)
           z == Len(s)
<1>1. z \in Nat /\ k \in Nat /\ k <= z /\ 1 \in Int /\ \A i \in 1 .. z : s[i] \in T
  OBVIOUS
<1>2. /\ v \in Seq(T) /\ Len(v) = IF 1 <= k THEN k - 1 + 1 ELSE 0
      /\ \A j \in 1 .. k - 1 + 1 : v[j] = s[1 + j - 1]
  <2>1. \A i \in 1 .. k : s[i] \in T
    BY <1>1
  <2> QED
    BY <1>1, <2>1, SubSeqProperties
<1> HIDE DEF v, z
<1>3. (IF 1 <= k THEN k - 1 + 1 ELSE 0) = k /\ k - 1 + 1 = k /\ \A j \in 1 .. k : 1 + j - 1 = j
  BY <1>1
<1> QED
  BY <1>2, <1>3 DEF v

(* More frames are clear only if those before them are. *)
LEMMA ClearDown ==
  ASSUME NEW w, NEW k \in Nat, NEW m \in Nat, m <= k, Clear(w, k)
  PROVE  Clear(w, m)
BY DEF Clear

(* A closed connection. *)
LEMMA ClosedWired ==
  ASSUME NEW n \in Nat, NEW h
  PROVE  Wired(NoConn, <<>>, h, n)
<1> USE BoundsAssumption
<1>1. NoConn \in Conns(n) /\ NoConn.queue = <<>> /\ NoConn.phase = "none" /\ NoConn.dropped = 0 /\ ~ NoConn.full
  BY DEF NoConn, Conns
<1>2. <<>> \in Seq(0 .. n) /\ Len(<<>>) = 0 /\ DOMAIN <<>> = {}
  OBVIOUS
<1>3. Len(NoConn.queue) <= QueueSize
  BY <1>1, <1>2
<1> QED
  BY <1>1, <1>2, <1>3 DEF Wired, Idle, Written, OnWire

(* A new connection asks for what follows the last event of the desktop.   *)
LEMMA AskedWired ==
  ASSUME NEW n \in Nat, NEW h \in 0 .. n
  PROVE  Wired([NoConn EXCEPT !.phase = "asked", !.last = h], <<>>, h, n)
<1> DEFINE c == [NoConn EXCEPT !.phase = "asked", !.last = h]
<1> USE BoundsAssumption
<1>0. NoConn \in Conns(n) /\ NoConn.queue = <<>> /\ NoConn.dropped = 0 /\ ~ NoConn.full
  BY DEF NoConn, Conns
<1>1. c \in Conns(n) /\ c.queue = <<>> /\ c.phase = "asked" /\ c.dropped = 0 /\ ~ c.full /\ c.last = h
  <2>1. c \in Conns(n)
    BY <1>0 DEF Conns
  <2> QED
    BY <1>0, <2>1 DEF Conns
<1>2. <<>> \in Seq(0 .. n) /\ Len(<<>>) = 0 /\ DOMAIN <<>> = {}
  OBVIOUS
<1> HIDE DEF c
<1>3. Len(c.queue) <= QueueSize
  BY <1>1, <1>2
<1>4. h = h + 0
  OBVIOUS
<1>5. Wired(c, <<>>, h, n)
  BY <1>1, <1>2, <1>3, <1>4 DEF Wired, Idle, Written, OnWire
<1> QED
  BY <1>5 DEF c

(* It is accepted. *)
LEMMA AcceptedWired ==
  ASSUME NEW n \in Nat, NEW h \in 0 .. n, NEW c, NEW w, Wired(c, w, h, n), c.phase = "asked"
  PROVE  Wired([c EXCEPT !.phase = "replaying", !.mark = n], w, h, n)
<1> DEFINE d == [c EXCEPT !.phase = "replaying", !.mark = n]
<1>1. c \in Conns(n) /\ w = <<>> /\ c.queue = <<>> /\ c.dropped = 0 /\ ~ c.full /\ c.last = h + Len(w)
  <2>1. w = <<>> /\ Clear(<<>>, 0) /\ Len(<<>>) = 0
    BY DEF Wired, Idle, Clear
  <2> QED
    BY <2>1 DEF Wired, Idle, Written
<1>2. /\ d \in Conns(n) /\ d.queue = <<>> /\ d.phase = "replaying" /\ d.dropped = 0
      /\ d.last = c.last /\ d.mark = n
  <2>1. n \in 0 .. n
    OBVIOUS
  <2>2. d \in Conns(n)
    BY <1>1, <2>1 DEF Conns
  <2> QED
    BY <1>1, <2>2 DEF Conns
<1>3. Len(<<>>) = 0 /\ DOMAIN <<>> = {} /\ <<>> \in Seq(0 .. n) /\ h + 0 = h
  OBVIOUS
<1> HIDE DEF d
<1>4. Queued(d, n)
  <2>1. n + 0 = n
    OBVIOUS
  <2> QED
    BY <1>2, <1>3, <2>1 DEF Queued, Base
<1>5. Wired(d, w, h, n)
  BY <1>1, <1>2, <1>3, <1>4 DEF Wired, Idle, Written, OnWire
<1> QED
  BY <1>5 DEF d

(* An event is stored while nothing is sent. *)
LEMMA StoredWired ==
  ASSUME NEW n \in Nat, NEW h, NEW c, NEW w, Wired(c, w, h, n), c.phase \in {"none", "asked"}
  PROVE  Wired(c, w, h, n + 1)
<1>1. /\ c \in Conns(n) /\ Len(c.queue) <= QueueSize /\ w \in Seq(0 .. n) /\ w = <<>>
      /\ c.queue = <<>> /\ c.dropped = 0 /\ ~ c.full
  BY DEF Wired, Idle
<1>2. c \in Conns(n + 1)
  <2>1. <<>> \in Seq(1 .. n + 1)
    OBVIOUS
  <2>2. 0 .. n \subseteq 0 .. n + 1
    OBVIOUS
  <2>3. c.last \in 0 .. n + 1 /\ c.mark \in 0 .. n + 1 /\ c.dropped \in 0 .. n + 1
    BY <1>1, <2>2 DEF Conns
  <2> QED
    BY <1>1, <2>1, <2>3 DEF Conns
<1>3. <<>> \in Seq(0 .. n + 1)
  OBVIOUS
<1> QED
  BY <1>1, <1>2, <1>3 DEF Wired

(* The first k frames are read. *)
LEMMA ReadWired ==
  ASSUME NEW n \in Nat, NEW h \in Nat, NEW c, NEW w, Wired(c, w, h, n),
         NEW k \in 1 .. Len(w), Clear(w, k)
  PROVE  Wired(c, SubSeq(w, k + 1, Len(w)), h + k, n)
<1> DEFINE v == SubSeq(w, k + 1, Len(w))
<1>1. /\ c \in Conns(n) /\ Len(c.queue) <= QueueSize /\ w \in Seq(0 .. n) /\ Idle(c, w)
      /\ (c.phase = "replaying" => c.last <= c.mark) /\ Written(c, w, h) /\ OnWire(w, h)
      /\ c.phase \in {"replaying", "live"} /\ Clear(w, Len(w)) /\ c.dropped = 0 => Queued(c, n)
      /\ c.last \in Nat
  BY DEF Wired, Conns
<1>2. Len(w) \in Nat /\ DOMAIN w = 1 .. Len(w) /\ k \in Nat /\ k >= 1 /\ k <= Len(w)
  BY <1>1
<1>3. /\ v \in Seq(0 .. n) /\ Len(v) = Len(w) - k /\ \A j \in 1 .. Len(w) - k : v[j] = w[k + j]
  <2>1. k \in 0 .. Len(w)
    BY <1>2
  <2> QED
    BY <1>1, <2>1, WithoutFirst
<1> HIDE DEF v
<1>4. Len(v) \in Nat /\ DOMAIN v = 1 .. Len(w) - k
  BY <1>2, <1>3
<1>5. w # <<>> /\ c.phase \in {"replaying", "live"}
  <2>1. w # <<>>
    BY <1>2
  <2> QED
    BY <1>1, <2>1 DEF Idle, Conns
<1>6. \A m \in 0 .. Len(w) - k : Clear(v, m) <=> Clear(w, k + m)
  <2> SUFFICES ASSUME NEW m \in 0 .. Len(w) - k
               PROVE  Clear(v, m) <=> Clear(w, k + m)
    OBVIOUS
  <2>1. ASSUME Clear(v, m), NEW j \in 1 .. k + m
        PROVE  w[j] # Gap
    <3>1. CASE j <= k
      BY <1>2, <3>1 DEF Clear
    <3>2. CASE j > k
      <4>1. j - k \in 1 .. m /\ j - k \in 1 .. Len(w) - k /\ k + (j - k) = j
        BY <1>2, <3>2
      <4> QED
        BY <1>3, <2>1, <4>1 DEF Clear
    <3> QED
      BY <1>2, <3>1, <3>2
  <2>2. ASSUME Clear(w, k + m), NEW j \in 1 .. m
        PROVE  v[j] # Gap
    <3>1. j \in 1 .. Len(w) - k /\ k + j \in 1 .. k + m
      BY <1>2
    <3> QED
      BY <1>3, <2>2, <3>1 DEF Clear
  <2> QED
    BY <2>1, <2>2 DEF Clear
<1>7. Clear(v, Len(v)) => Clear(w, Len(w))
  <2>1. Len(v) \in 0 .. Len(w) - k /\ k + Len(v) = Len(w)
    BY <1>2, <1>3
  <2> QED
    BY <1>6, <2>1
<1>8. OnWire(v, h + k)
  <2> SUFFICES ASSUME NEW j \in DOMAIN v, Clear(v, j)
               PROVE  v[j] = h + k + j
    BY DEF OnWire
  <2>1. j \in 0 .. Len(w) - k /\ j \in 1 .. Len(w) - k /\ k + j \in DOMAIN w
    BY <1>2, <1>4
  <2>2. w[k + j] = h + (k + j)
    BY <1>1, <1>6, <2>1 DEF OnWire
  <2>3. h + (k + j) = h + k + j
    BY <1>2, <2>1
  <2> QED
    BY <1>3, <2>1, <2>2, <2>3
<1>9. Written(c, v, h + k)
  <2> SUFFICES ASSUME Clear(v, Len(v))
               PROVE  c.last = h + k + Len(v)
    BY DEF Written
  <2>1. c.last = h + Len(w)
    BY <1>1, <1>5, <1>7 DEF Written
  <2> QED
    BY <1>2, <1>3, <2>1
<1>10. Idle(c, v)
  BY <1>5 DEF Idle
<1>11. Wired(c, v, h + k, n)
  BY <1>1, <1>3, <1>7, <1>8, <1>9, <1>10 DEF Wired
<1> QED
  BY <1>11 DEF v

(* A new event is put into the queue. *)
LEMMA EnqueuedWired ==
  ASSUME NEW n \in Nat, NEW h, NEW c, NEW w, Wired(c, w, h, n), c.phase \in {"replaying", "live"}, NEW kind
  PROVE  /\ Wired(Enqueued(c, n + 1, kind), w, h, n + 1)
         /\ Enqueued(c, n + 1, kind).phase = c.phase /\ Enqueued(c, n + 1, kind).full = c.full
<1> DEFINE d == Enqueued(c, n + 1, kind)
           N == 1 .. n + 1
<1>1. /\ c \in Conns(n) /\ Len(c.queue) <= QueueSize /\ w \in Seq(0 .. n)
      /\ (c.phase = "replaying" => c.last <= c.mark) /\ Written(c, w, h) /\ OnWire(w, h)
      /\ Clear(w, Len(w)) /\ c.dropped = 0 => Queued(c, n)
  BY DEF Wired
<1>2. /\ c.queue \in Seq(1 .. n) /\ c.dropped \in 0 .. n /\ c.last \in 0 .. n /\ c.mark \in 0 .. n
      /\ Len(c.queue) \in Nat /\ QueueSize \in Nat \ {0}
  BY <1>1, BoundsAssumption DEF Conns
<1>3. w \in Seq(0 .. n + 1) /\ c.queue \in Seq(N)
  <2>1. 0 .. n \subseteq 0 .. n + 1 /\ 1 .. n \subseteq N
    OBVIOUS
  <2> HIDE DEF N
  <2> QED
    BY <1>1, <1>2, <2>1, SeqMonotonic
<1>4. c \in Conns(n + 1) /\ c.dropped + 1 \in 0 .. n + 1 /\ n + 1 \in N
  <2>1. 0 .. n \subseteq 0 .. n + 1
    OBVIOUS
  <2>2. c.last \in 0 .. n + 1 /\ c.mark \in 0 .. n + 1 /\ c.dropped \in 0 .. n + 1 /\ c.dropped + 1 \in 0 .. n + 1
    BY <1>2, <2>1
  <2> QED
    BY <1>1, <1>3, <2>2 DEF Conns
(* The next three are the ways in which the queue may change. *)
<1>5. ASSUME NEW e \in Conns(n + 1), Len(e.queue) <= QueueSize, e.phase = c.phase, e.last = c.last, e.mark = c.mark,
             e.full = c.full, e.dropped # 0 \/ (Clear(w, Len(w)) => Queued(e, n + 1))
      PROVE  Wired(e, w, h, n + 1)
  BY <1>1, <1>3, <1>5 DEF Wired, Idle, Written
<1>6. ASSUME NEW q \in Seq(N), Len(q) <= QueueSize
      PROVE  LET e == [c EXCEPT !.queue = q, !.dropped = @ + 1] IN
             Wired(e, w, h, n + 1) /\ e.phase = c.phase /\ e.full = c.full
  <2> DEFINE e == [c EXCEPT !.queue = q, !.dropped = @ + 1]
  <2>1. e \in Conns(n + 1)
    BY <1>4 DEF Conns
  <2>2. /\ e.queue = q /\ e.phase = c.phase /\ e.last = c.last /\ e.mark = c.mark /\ e.full = c.full
        /\ e.dropped = c.dropped + 1 /\ e.dropped # 0
    BY <1>2, <1>4 DEF Conns
  <2> HIDE DEF e
  <2>3. Wired(e, w, h, n + 1)
    BY <1>5, <1>6, <2>1, <2>2
  <2> QED
    BY <2>2, <2>3 DEF e
<1>7. CASE kind = "huge"
  <2>1. d = [c EXCEPT !.queue = c.queue, !.dropped = @ + 1]
    BY <1>1, <1>7 DEF Enqueued, Conns
  <2> HIDE DEF d, N
  <2> QED
    BY <1>1, <1>3, <1>6, <2>1 DEF d
<1>8. CASE kind # "huge" /\ ~ (Len(c.queue) < QueueSize)
  <2> DEFINE q == Append(Tail(c.queue), n + 1)
  <2>1. d = [c EXCEPT !.queue = q, !.dropped = @ + 1]
    BY <1>8 DEF Enqueued
  <2>2. q \in Seq(N) /\ Len(q) <= QueueSize
    <3> HIDE DEF N
    <3>1. c.queue # <<>>
      BY <1>2, <1>8
    <3>2. Tail(c.queue) \in Seq(N) /\ Len(Tail(c.queue)) = Len(c.queue) - 1
      BY <1>3, <3>1
    <3>3. q \in Seq(N) /\ Len(q) = Len(Tail(c.queue)) + 1
      BY <1>4, <3>2
    <3> HIDE DEF q
    <3> QED
      BY <1>1, <1>2, <3>2, <3>3
  <2> HIDE DEF d, q, N
  <2> QED
    BY <1>6, <2>1, <2>2 DEF d
<1>9. CASE kind # "huge" /\ Len(c.queue) < QueueSize
  <2> DEFINE q == Append(c.queue, n + 1)
  <2>1. d = [c EXCEPT !.queue = q]
    BY <1>9 DEF Enqueued
  <2>2. /\ q \in Seq(N) /\ Len(q) = Len(c.queue) + 1 /\ DOMAIN q = 1 .. Len(c.queue) + 1
        /\ q[Len(c.queue) + 1] = n + 1 /\ \A j \in 1 .. Len(c.queue) : q[j] = c.queue[j]
    <3> HIDE DEF N
    <3>1. q \in Seq(N) /\ Len(q) = Len(c.queue) + 1
      BY <1>3, <1>4
    <3>2. q[Len(c.queue) + 1] = n + 1
      BY <1>3, <1>4
    <3>3. \A j \in 1 .. Len(c.queue) : q[j] = c.queue[j]
      BY <1>3, <1>4
    <3>4. DOMAIN q = 1 .. Len(q)
      <4> HIDE DEF q
      <4> QED
        BY <3>1
    <3> QED
      BY <3>1, <3>2, <3>3, <3>4
  <2> HIDE DEF q
  <2>3. d \in Conns(n + 1)
    BY <1>4, <2>1, <2>2 DEF Conns
  <2>4. /\ d.queue = q /\ d.phase = c.phase /\ d.last = c.last /\ d.mark = c.mark /\ d.full = c.full
        /\ d.dropped = c.dropped
    BY <1>4, <2>1 DEF Conns
  <2> HIDE DEF d, N
  <2>5. d.dropped # 0 \/ (Clear(w, Len(w)) => Queued(d, n + 1))
    <3> SUFFICES ASSUME d.dropped = 0, Clear(w, Len(w))
                 PROVE  Queued(d, n + 1)
      OBVIOUS
    <3>1. Base(c) + Len(c.queue) = n /\ \A j \in DOMAIN c.queue : c.queue[j] = Base(c) + j
      BY <1>1, <2>4 DEF Queued
    <3>2. Base(d) = Base(c) /\ Base(c) \in Nat
      BY <1>2, <2>4 DEF Base
    <3> DEFINE b == Base(c)
               z == Len(c.queue)
    <3>0. b \in Nat /\ z \in Nat /\ b + z = n
      BY <1>2, <3>1, <3>2
    <3>3. Base(d) + Len(q) = n + 1
      <4>1. b + (z + 1) = n + 1
        <5> HIDE DEF b, z
        <5> QED
          BY <3>0
      <4> QED
        BY <2>2, <3>2, <4>1
    <3>4. \A j \in DOMAIN q : q[j] = Base(d) + j
      <4> SUFFICES ASSUME NEW j \in DOMAIN q
                   PROVE  q[j] = Base(d) + j
        OBVIOUS
      <4>1. CASE j = Len(c.queue) + 1
        <5>1. n + 1 = b + (z + 1)
          <6> HIDE DEF b, z
          <6> QED
            BY <3>0
        <5> QED
          BY <2>2, <3>2, <4>1, <5>1
      <4>2. CASE j \in 1 .. Len(c.queue)
        BY <1>2, <2>2, <3>1, <3>2, <4>2
      <4>3. j \in 1 .. (z + 1)
        BY <2>2
      <4>4. j = z + 1 \/ j \in 1 .. z
        <5> HIDE DEF b, z
        <5> QED
          BY <3>0, <4>3
      <4> QED
        BY <4>1, <4>2, <4>4
    <3> QED
      BY <2>4, <3>3, <3>4 DEF Queued
  <2>6. Len(q) <= QueueSize
    BY <1>2, <1>9, <2>2
  <2>7. Wired(d, w, h, n + 1)
    BY <1>5, <2>3, <2>4, <2>5, <2>6
  <2> QED
    BY <2>4, <2>7 DEF d
<1> QED
  BY <1>7, <1>8, <1>9

(* The first k events of the queue are written, after a gap if some were   *)
(* dropped.                                                                *)
LEMMA FlushedWired ==
  ASSUME NEW n \in Nat, NEW h \in Nat, NEW c, NEW w, Wired(c, w, h, n), c.phase = "live",
         NEW k \in 0 .. Len(c.queue), NEW full \in BOOLEAN
  PROVE  Wired(Flushed(c, k, full), w \o (IF c.dropped > 0 THEN <<Gap>> ELSE <<>>) \o SubSeq(c.queue, 1, k), h, n)
<1> DEFINE f == Flushed(c, k, full)
           g == IF c.dropped > 0 THEN <<Gap>> ELSE <<>>
           s == SubSeq(c.queue, 1, k)
           x == w \o g
           v == x \o s
           r == SubSeq(c.queue, k + 1, Len(c.queue))
           l == IF k = 0 THEN c.last ELSE c.queue[k]
           T == 0 .. n
<1>1. /\ c \in Conns(n) /\ Len(c.queue) <= QueueSize /\ w \in Seq(T) /\ Written(c, w, h) /\ OnWire(w, h)
      /\ Clear(w, Len(w)) /\ c.dropped = 0 => Queued(c, n)
  BY DEF Wired
<1>2. /\ c.queue \in Seq(1 .. n) /\ c.dropped \in Nat /\ c.last \in 0 .. n /\ Len(c.queue) \in Nat
      /\ k \in Nat /\ k <= Len(c.queue) /\ QueueSize \in Nat
  BY <1>1, BoundsAssumption DEF Conns
<1>3. /\ s \in Seq(1 .. n) /\ Len(s) = k /\ \A j \in 1 .. k : s[j] = c.queue[j]
  BY <1>2, FirstOnes
<1>4. /\ r \in Seq(1 .. n) /\ Len(r) = Len(c.queue) - k /\ \A j \in 1 .. Len(c.queue) - k : r[j] = c.queue[k + j]
  BY <1>2, WithoutFirst
<1>5. l \in 0 .. n
  <2>1. k # 0 => c.queue[k] \in 1 .. n
    BY <1>2
  <2>2. 1 .. n \subseteq 0 .. n
    OBVIOUS
  <2> QED
    BY <1>2, <2>1, <2>2
<1>6. /\ f \in Conns(n) /\ f.phase = "live" /\ f.dropped = 0 /\ f.last = l /\ f.queue = r
  <2>1. f = [c EXCEPT !.queue = r, !.dropped = 0, !.full = full, !.last = l]
    BY <1>1 DEF Flushed, Conns
  <2>2. 0 \in 0 .. n
    OBVIOUS
  <2> HIDE DEF f, r, l
  <2>3. f \in Conns(n)
    BY <1>1, <1>4, <1>5, <2>1, <2>2 DEF Conns
  <2> QED
    BY <1>1, <2>1, <2>3 DEF Conns
<1> HIDE DEF f, r, s
<1>7. g \in Seq(T) /\ (c.dropped > 0 => Len(g) = 1 /\ g[1] = Gap) /\ (~ (c.dropped > 0) => g = <<>> /\ Len(g) = 0)
  <2>1. Gap \in T
    BY DEF Gap
  <2> HIDE DEF T
  <2> QED
    BY <2>1
<1>8. s \in Seq(T)
  <2>1. 1 .. n \subseteq T
    OBVIOUS
  <2> HIDE DEF T
  <2> QED
    BY <1>3, <2>1, SeqMonotonic
<1> HIDE DEF g, T
<1>9. /\ x \in Seq(T) /\ Len(x) = Len(w) + Len(g)
      /\ \A j \in 1 .. Len(w) + Len(g) : x[j] = IF j <= Len(w) THEN w[j] ELSE g[j - Len(w)]
  BY <1>1, <1>7, ConcatProperties
<1> HIDE DEF x
<1>10. /\ v \in Seq(T) /\ Len(v) = Len(x) + Len(s)
       /\ \A j \in 1 .. Len(x) + Len(s) : v[j] = IF j <= Len(x) THEN x[j] ELSE s[j - Len(x)]
  <2>1. x \in Seq(T) /\ s \in Seq(T)
    BY <1>8, <1>9
  <2> QED
    BY <2>1, ConcatProperties
<1> HIDE DEF v
<1>11. Len(w) \in Nat /\ Len(g) \in Nat /\ DOMAIN w = 1 .. Len(w) /\ DOMAIN v = 1 .. Len(v) /\ Len(v) = Len(w) + Len(g) + k
       /\ Len(v) \in Nat
  BY <1>1, <1>2, <1>3, <1>7, <1>9, <1>10
<1>12. \A j \in 1 .. Len(w) : j \in 1 .. Len(v) /\ v[j] = w[j]
  <2> SUFFICES ASSUME NEW j \in 1 .. Len(w)
               PROVE  j \in 1 .. Len(v) /\ v[j] = w[j]
    OBVIOUS
  <2>1. j \in 1 .. Len(w) + Len(g) /\ j \in 1 .. Len(x) + Len(s) /\ j <= Len(x) /\ j <= Len(w) /\ j \in 1 .. Len(v)
    BY <1>2, <1>3, <1>9, <1>11
  <2> QED
    BY <1>9, <1>10, <2>1
<1>13. \A m \in 0 .. Len(w) : Clear(v, m) => Clear(w, m)
  <2> SUFFICES ASSUME NEW m \in 0 .. Len(w), Clear(v, m), NEW j \in 1 .. m
               PROVE  w[j] # Gap
    BY DEF Clear
  <2>1. j \in 1 .. Len(w)
    BY <1>11
  <2> QED
    BY <1>12, <2>1 DEF Clear
<1>14. CASE c.dropped > 0
  <2>1. v[Len(w) + 1] = Gap /\ Len(w) + 1 \in 1 .. Len(v)
    <3>1. Len(g) = 1 /\ g[1] = Gap
      BY <1>7, <1>14
    <3>2. Len(w) + 1 \in 1 .. Len(w) + Len(g) /\ Len(w) + 1 \in 1 .. Len(x) + Len(s) /\ Len(w) + 1 <= Len(x)
          /\ ~ (Len(w) + 1 <= Len(w)) /\ Len(w) + 1 - Len(w) = 1 /\ Len(w) + 1 \in 1 .. Len(v)
      BY <1>2, <1>3, <1>9, <1>11, <3>1
    <3> QED
      BY <1>9, <1>10, <3>1, <3>2
  <2>2. \A m \in 1 .. Len(v) : Clear(v, m) => m \in 0 .. Len(w) /\ m \in 1 .. Len(w)
    <3> SUFFICES ASSUME NEW m \in 1 .. Len(v), ~ (m <= Len(w))
                 PROVE  ~ Clear(v, m)
      BY <1>11
    <3>1. Len(w) + 1 \in 1 .. m
      BY <1>11
    <3> QED
      BY <2>1, <3>1 DEF Clear
  <2>3. ~ Clear(v, Len(v))
    <3>1. Len(v) \in 1 .. Len(v) /\ ~ (Len(v) <= Len(w))
      BY <1>11, <2>1
    <3> QED
      BY <1>11, <2>2, <3>1
  <2>4. OnWire(v, h)
    <3> SUFFICES ASSUME NEW m \in DOMAIN v, Clear(v, m)
                 PROVE  v[m] = h + m
      BY DEF OnWire
    <3>1. m \in 0 .. Len(w) /\ m \in 1 .. Len(w) /\ Clear(w, m)
      BY <1>11, <1>13, <2>2
    <3> QED
      BY <1>1, <1>11, <1>12, <3>1 DEF OnWire
  <2>5. Wired(f, v, h, n)
    <3>1. Len(r) <= QueueSize
      BY <1>1, <1>2, <1>4
    <3> QED
      BY <1>6, <1>10, <2>3, <2>4, <3>1 DEF Wired, Idle, Written, T
  <2> QED
    BY <2>5 DEF f, v, x, g, s
<1>15. CASE ~ (c.dropped > 0)
  <2>1. c.dropped = 0 /\ Len(g) = 0 /\ Len(x) = Len(w) /\ Len(v) = Len(w) + k
    <3>1. Len(g) = 0
      BY <1>7, <1>15
    <3>2. c.dropped = 0
      BY <1>2, <1>15
    <3>3. Len(w) + 0 = Len(w)
      BY <1>11
    <3> QED
      BY <1>9, <1>11, <3>1, <3>2, <3>3
  <2>2. \A j \in 1 .. k : v[Len(w) + j] = c.queue[j]
    <3> SUFFICES ASSUME NEW j \in 1 .. k
                 PROVE  v[Len(w) + j] = c.queue[j]
      OBVIOUS
    <3>1. Len(w) + j \in 1 .. Len(x) + Len(s) /\ ~ (Len(w) + j <= Len(x)) /\ Len(w) + j - Len(x) = j
      BY <1>2, <1>3, <1>11, <2>1
    <3> QED
      BY <1>3, <1>10, <3>1, SMTT(30)
  <2>3. ASSUME Clear(w, Len(w))
        PROVE  /\ c.last = h + Len(w) /\ c.last + Len(c.queue) = n
               /\ \A j \in 1 .. Len(c.queue) : c.queue[j] = c.last + j
    <3>1. Queued(c, n) /\ Base(c) = c.last /\ DOMAIN c.queue = 1 .. Len(c.queue)
      BY <1>1, <1>2, <2>1, <2>3 DEF Base
    <3> QED
      BY <1>1, <2>3, <3>1 DEF Queued, Written
  <2>4. \A m \in Len(w) .. Len(v) : Clear(v, m) => Clear(w, Len(w))
    <3> SUFFICES ASSUME NEW m \in Len(w) .. Len(v), Clear(v, m)
                 PROVE  Clear(w, Len(w))
      OBVIOUS
    <3>1. m \in Nat /\ Len(w) \in 0 .. Len(w) /\ Len(w) <= m
      BY <1>11
    <3>2. Clear(v, Len(w))
      BY <1>11, <3>1, ClearDown
    <3> QED
      BY <1>13, <3>1, <3>2
  <2>5. OnWire(v, h)
    <3> SUFFICES ASSUME NEW m \in DOMAIN v, Clear(v, m)
                 PROVE  v[m] = h + m
      BY DEF OnWire
    <3>1. CASE m <= Len(w)
      <4>1. m \in 0 .. Len(w) /\ m \in 1 .. Len(w)
        BY <1>11, <3>1
      <4> QED
        BY <1>1, <1>11, <1>12, <1>13, <4>1 DEF OnWire
    <3>2. CASE m > Len(w)
      <4>1. m \in Len(w) .. Len(v) /\ m - Len(w) \in 1 .. k /\ Len(w) + (m - Len(w)) = m /\ m - Len(w) \in 1 .. Len(c.queue)
        BY <1>2, <1>11, <2>1, <3>2
      <4>2. v[m] = c.last + (m - Len(w)) /\ c.last = h + Len(w)
        BY <2>2, <2>3, <2>4, <4>1
      <4> QED
        BY <1>11, <4>1, <4>2
    <3> QED
      BY <1>11, <3>1, <3>2
  <2>6. Clear(v, Len(v)) => /\ l = h + Len(v) /\ l + Len(r) = n
                            /\ \A j \in 1 .. Len(r) : r[j] = l + j
    <3> SUFFICES ASSUME Clear(v, Len(v))
                 PROVE  /\ l = h + Len(v) /\ l + Len(r) = n
                        /\ \A j \in 1 .. Len(r) : r[j] = l + j
      OBVIOUS
    <3>1. Len(v) \in Len(w) .. Len(v)
      BY <1>2, <1>11, <2>1
    <3>2. /\ c.last = h + Len(w) /\ c.last + Len(c.queue) = n
          /\ \A j \in 1 .. Len(c.queue) : c.queue[j] = c.last + j
      BY <2>3, <2>4, <3>1
    <3>3. l = c.last + k
      <4>1. CASE k = 0
        BY <1>2, <4>1
      <4>2. CASE k # 0
        <5>1. k \in 1 .. Len(c.queue)
          BY <1>2, <4>2
        <5> QED
          BY <3>2, <4>2, <5>1
      <4> QED
        BY <4>1, <4>2
    <3> HIDE DEF l
    <3>4. l = h + Len(v) /\ l + Len(r) = n
      <4> DEFINE a == c.last
                 y == Len(w)
                 z == Len(c.queue)
      <4>1. a \in Nat /\ y \in Nat /\ z \in Nat /\ k \in Nat /\ a = h + y /\ a + z = n
        <5>1. a \in Nat
          BY <1>2
        <5>2. y \in Nat /\ z \in Nat /\ k \in Nat
          BY <1>2, <1>11
        <5> QED
          BY <3>2, <5>1, <5>2
      <4>2. Len(v) = y + k /\ Len(r) = z - k
        BY <1>4, <2>1
      <4>3. a + k = h + (y + k) /\ a + k + (z - k) = n
        <5> HIDE DEF a, y, z
        <5> QED
          BY <4>1
      <4> QED
        BY <3>3, <4>2, <4>3
    <3>5. \A j \in 1 .. Len(r) : r[j] = l + j
      <4> SUFFICES ASSUME NEW j \in 1 .. Len(r)
                   PROVE  r[j] = l + j
        OBVIOUS
      <4>1. j \in 1 .. Len(c.queue) - k /\ k + j \in 1 .. Len(c.queue) /\ c.last \in Nat /\ j \in Nat
        BY <1>2, <1>4, SMTT(30)
      <4>2. r[j] = c.last + (k + j)
        BY <1>4, <3>2, <4>1
      <4> QED
        BY <1>2, <3>3, <4>1, <4>2
    <3> QED
      BY <3>4, <3>5
  <2> HIDE DEF l
  <2>7. Clear(v, Len(v)) => Queued(f, n)
    <3>1. DOMAIN r = 1 .. Len(r)
      BY <1>4
    <3>2. Base(f) = l
      BY <1>6 DEF Base
    <3> QED
      BY <1>6, <2>6, <3>1, <3>2 DEF Queued
  <2>8. Wired(f, v, h, n)
    <3>1. Len(r) <= QueueSize
      BY <1>1, <1>2, <1>4
    <3> QED
      BY <1>6, <1>10, <2>5, <2>6, <2>7, <3>1 DEF Wired, Idle, Written, T
  <2> QED
    BY <2>8 DEF f, v, x, g, s
<1> QED
  BY <1>14, <1>15

(* One stored event is replayed. *)
LEMMA ReplayedWired ==
  ASSUME NEW n \in Nat, NEW h \in Nat, NEW c, NEW w, Wired(c, w, h, n), c.phase = "replaying",
         c.last < c.mark, NEW full \in BOOLEAN
  PROVE  Wired([c EXCEPT !.last = @ + 1, !.full = full], Append(w, c.last + 1), h, n)
<1> DEFINE d == [c EXCEPT !.last = @ + 1, !.full = full]
           v == Append(w, c.last + 1)
           T == 0 .. n
<1>1. /\ c \in Conns(n) /\ Len(c.queue) <= QueueSize /\ w \in Seq(T) /\ Written(c, w, h) /\ OnWire(w, h)
      /\ Clear(w, Len(w)) /\ c.dropped = 0 => Queued(c, n)
  BY DEF Wired
<1>2. /\ c.last \in Nat /\ c.mark \in Nat /\ c.last + 1 \in 0 .. n /\ c.last + 1 <= c.mark /\ c.last + 1 # Gap
  <2>1. c.last \in 0 .. n /\ c.mark \in 0 .. n
    BY <1>1 DEF Conns
  <2> QED
    BY <2>1 DEF Gap
<1>3. d \in Conns(n)
  BY <1>1, <1>2 DEF Conns
<1>4. /\ d.phase = "replaying" /\ d.last = c.last + 1 /\ d.mark = c.mark /\ d.queue = c.queue /\ d.dropped = c.dropped
  BY <1>1 DEF Conns
<1> HIDE DEF d
<1>5. /\ v \in Seq(T) /\ Len(v) = Len(w) + 1 /\ v[Len(w) + 1] = c.last + 1 /\ \A j \in 1 .. Len(w) : v[j] = w[j]
      /\ Len(w) \in Nat /\ DOMAIN w = 1 .. Len(w) /\ DOMAIN v = 1 .. Len(w) + 1
  <2> HIDE DEF T
  <2>1. c.last + 1 \in T
    BY <1>2 DEF T
  <2>2. v \in Seq(T) /\ Len(v) = Len(w) + 1
    BY <1>1, <2>1
  <2>3. v[Len(w) + 1] = c.last + 1
    BY <1>1, <2>1
  <2>4. \A j \in 1 .. Len(w) : v[j] = w[j]
    BY <1>1, <2>1
  <2>5. DOMAIN v = 1 .. Len(v)
    <3> HIDE DEF v
    <3> QED
      BY <2>2
  <2> QED
    BY <1>1, <2>2, <2>3, <2>4, <2>5
<1> HIDE DEF v, T
<1>6. \A m \in 0 .. Len(w) + 1 : Clear(v, m) => Clear(w, m) \/ m = Len(w) + 1
  BY <1>5 DEF Clear
<1>7. Clear(v, Len(v)) => Clear(w, Len(w))
  <2> SUFFICES ASSUME Clear(v, Len(v)), NEW j \in 1 .. Len(w)
               PROVE  w[j] # Gap
    BY DEF Clear
  <2>1. j \in 1 .. Len(v)
    BY <1>5
  <2> QED
    BY <1>5, <2>1 DEF Clear
<1>8. Written(d, v, h)
  <2> SUFFICES ASSUME Clear(v, Len(v))
               PROVE  d.last = h + Len(v)
    BY DEF Written
  <2>1. c.last = h + Len(w)
    BY <1>1, <1>7 DEF Written
  <2> QED
    BY <1>2, <1>4, <1>5, <2>1
<1>9. OnWire(v, h)
  <2> SUFFICES ASSUME NEW m \in DOMAIN v, Clear(v, m)
               PROVE  v[m] = h + m
    BY DEF OnWire
  <2>1. CASE m = Len(w) + 1
    <3>1. c.last + 1 = h + Len(v)
      BY <1>4, <1>5, <1>8, <2>1 DEF Written
    <3> QED
      BY <1>5, <2>1, <3>1
  <2>2. CASE m \in 1 .. Len(w)
    <3>1. Clear(w, m)
      BY <1>5, <1>6, <2>2
    <3> QED
      BY <1>1, <1>5, <2>2, <3>1 DEF OnWire
  <2> QED
    BY <1>5, <2>1, <2>2
<1>10. Clear(v, Len(v)) /\ d.dropped = 0 => Queued(d, n)
  BY <1>1, <1>4, <1>7 DEF Queued, Base
<1>11. Wired(d, v, h, n)
  BY <1>1, <1>2, <1>3, <1>4, <1>5, <1>8, <1>9, <1>10 DEF Wired, Idle, T
<1> QED
  BY <1>11 DEF d, v

(* All of them are. *)
LEMMA LiveWired ==
  ASSUME NEW n \in Nat, NEW h, NEW c, NEW w, Wired(c, w, h, n), c.phase = "replaying", ~ (c.last < c.mark)
  PROVE  LET d == [c EXCEPT !.phase = "live"] IN Wired(d, w, h, n) /\ d.phase = "live"
<1> DEFINE d == [c EXCEPT !.phase = "live"]
<1>1. /\ c \in Conns(n) /\ c.last <= c.mark
      /\ Clear(w, Len(w)) /\ c.dropped = 0 => Queued(c, n)
  BY DEF Wired
<1>2. c.last = c.mark
  <2>1. c.last \in 0 .. n /\ c.mark \in 0 .. n
    BY <1>1 DEF Conns
  <2> QED
    BY <1>1, <2>1
<1>3. /\ d \in Conns(n) /\ d.phase = "live" /\ d.last = c.last /\ d.queue = c.queue /\ d.dropped = c.dropped
  <2>1. d \in Conns(n)
    BY <1>1 DEF Conns
  <2> QED
    BY <1>1, <2>1 DEF Conns
<1> HIDE DEF d
<1>4. Queued(c, n) => Queued(d, n)
  BY <1>2, <1>3 DEF Queued, Base
<1>5. Wired(d, w, h, n)
  BY <1>1, <1>3, <1>4 DEF Wired, Idle, Written
<1> QED
  BY <1>3, <1>5 DEF d

(* The socket has drained. *)
LEMMA DrainedWired ==
  ASSUME NEW n \in Nat, NEW h, NEW c, NEW w, Wired(c, w, h, n)
  PROVE  Wired([c EXCEPT !.full = FALSE], w, h, n)
<1> DEFINE d == [c EXCEPT !.full = FALSE]
<1>1. c \in Conns(n)
  BY DEF Wired
<1>2. /\ d \in Conns(n) /\ d.phase = c.phase /\ d.last = c.last /\ d.mark = c.mark /\ d.queue = c.queue
      /\ d.dropped = c.dropped /\ ~ d.full
  BY <1>1 DEF Conns
<1> HIDE DEF d
<1>3. Queued(c, n) => Queued(d, n)
  BY <1>2 DEF Queued, Base
<1>4. Wired(d, w, h, n)
  BY <1>2, <1>3 DEF Wired, Idle, Written
<1> QED
  BY <1>4 DEF d

LEMMA FlushWired ==
  ASSUME NEW n \in Nat, highest \in Nat, NEW c, Wired(c, wire, highest, n), Flush(c)
  PROVE  Wired(conn', wire', highest, n) /\ (conn'.phase = "none" => c.phase = "none")
<1>1. CASE c.full \/ c.phase # "live"
  BY <1>1 DEF Flush
<1>2. CASE ~ (c.full \/ c.phase # "live")
  <2>1. PICK k \in 0 .. Len(c.queue), full \in BOOLEAN :
         /\ conn' = Flushed(c, k, full)
         /\ wire' = wire \o (IF c.dropped > 0 THEN <<Gap>> ELSE <<>>) \o SubSeq(c.queue, 1, k)
    BY <1>2 DEF Flush
  <2>2. Wired(Flushed(c, k, full), wire \o (IF c.dropped > 0 THEN <<Gap>> ELSE <<>>) \o SubSeq(c.queue, 1, k), highest, n)
    BY <1>2, FlushedWired
  <2>3. Flushed(c, k, full).phase = c.phase
    <3>1. c \in Conns(n)
      BY DEF Wired
    <3> QED
      BY <3>1 DEF Flushed, Conns
  <2> QED
    BY <1>2, <2>1, <2>2, <2>3
<1> QED
  BY <1>1, <1>2

-----------------------------------------------------------------------------
(* The stream.                                                             *)

(* A connection that is to be made again is one that is lost. *)
TimerOK == timer => gap /\ conn.phase = "none"

StreamInv ==
  /\ log \in Seq(Kinds) /\ Len(log) <= MaxEvents /\ viewing \in BOOLEAN
  /\ breaks \in 0 .. MaxBreaks /\ switches \in 0 .. MaxSwitches
  /\ DeskOK(Desktop) /\ TimerOK /\ Wired(conn, wire, highest, Len(log))

(* The invariant implies the property. *)
LEMMA StreamInvSafe ==
  ASSUME StreamInv
  PROVE  StreamSafety
<1> DEFINE n == Len(log)
<1>1. /\ log \in Seq(Kinds) /\ n <= MaxEvents /\ viewing \in BOOLEAN /\ n \in Nat
      /\ breaks \in 0 .. MaxBreaks /\ switches \in 0 .. MaxSwitches
      /\ Desktop \in Desks /\ TimelineOK(timeline, Frontier(Desktop)) /\ Fetched(Desktop)
      /\ Wired(conn, wire, highest, n)
  BY DEF StreamInv, DeskOK, Desktop
<1>2. StreamTypeOK
  <2>1. /\ highest \in 0 .. n /\ pending \in Seq({e \in Events : IsText(e)}) /\ timeline \in Seq(Items)
        /\ gap \in BOOLEAN /\ timer \in BOOLEAN
        /\ hydration \in [phase : {"none", "asked", "read"}, upto : 0 .. n]
    BY <1>1 DEF Desks, Desktop
  <2>2. conn \in Conns(n) /\ Len(conn.queue) <= QueueSize /\ wire \in Seq(0 .. n)
    BY <1>1 DEF Wired
  <2>3. conn \in [phase : {"none", "asked", "replaying", "live"}, last : 0 .. Len(log), mark : 0 .. Len(log),
               queue : Seq(Events), dropped : 0 .. Len(log), full : BOOLEAN]
    BY <2>2 DEF Conns, Events
  <2>4. 0 .. n \subseteq Events \cup {Gap}
    BY <1>1 DEF Events, Gap
  <2>5. wire \in Seq(Events \cup {Gap})
    <3> HIDE DEF n
    <3> QED
      BY <2>2, <2>4, SeqMonotonic
  <2> QED
    BY <1>1, <2>1, <2>2, <2>3, <2>5 DEF StreamTypeOK
<1>3. timeline \in Seq(Items) /\ RunsAreText(timeline) /\ Ascending(timeline) /\ Events \subseteq Nat
  BY <1>1 DEF TimelineOK, Events
<1>4. ShownOnceInOrder
  <2> SUFFICES ASSUME NEW i \in DOMAIN timeline
               PROVE  \A k \in 1 .. Len(timeline[i].ids) - 1 : timeline[i].ids[k] < timeline[i].ids[k + 1]
    BY <1>3 DEF ShownOnceInOrder, Ascending
  <2> DEFINE ids == timeline[i].ids
  <2>1. ids \in Seq(Events) \ {<<>>} /\ Run(ids)
    BY <1>3, ItemSpans DEF RunsAreText
  <2> HIDE DEF ids
  <2>2. Len(ids) \in Nat /\ DOMAIN ids = 1 .. Len(ids) /\ ids[1] \in Nat
    BY <1>3, <2>1, RunSpans
  <2>3. \A k \in 1 .. Len(ids) - 1 : ids[k] < ids[k + 1]
    <3> SUFFICES ASSUME NEW k \in 1 .. Len(ids) - 1
                 PROVE  ids[k] < ids[k + 1]
      OBVIOUS
    <3>1. k \in DOMAIN ids /\ k + 1 \in DOMAIN ids /\ k \in Nat
      BY <2>2
    <3>2. ids[k] = ids[1] + k - 1 /\ ids[k + 1] = ids[1] + (k + 1) - 1
      BY <2>1, <3>1 DEF Run
    <3>3. ids[1] + k - 1 < ids[1] + (k + 1) - 1
      BY <2>2, <3>1
    <3> QED
      BY <3>2, <3>3
  <2> QED
    BY <2>3 DEF ids
<1>5. MissingIsFetched
  <2> SUFFICES ASSUME viewing, hydration = NoHydration, ~ gap, NEW e \in 1 .. highest, ~ IsText(e)
               PROVE  e \in Shown
    BY DEF MissingIsFetched
  <2>1. /\ Desktop.hydration.phase # "asked" /\ Desktop.hydration.upto = 0 /\ ~ Desktop.gap
        /\ Desktop.highest = highest /\ Desktop.timeline = timeline
    BY DEF NoHydration, Desktop
  <2>2. e \in 0 + 1 .. highest
    OBVIOUS
  <2>3. e \in ShownIn(timeline)
    BY <1>1, <2>1, <2>2 DEF Fetched
  <2> QED
    BY <2>3 DEF Shown, ShownIn
<1> QED
  BY <1>2, <1>4, <1>5 DEF StreamSafety

(* What the proofs of the steps need of the invariant. *)
LEMMA StreamFacts ==
  ASSUME StreamInv
  PROVE  /\ log \in Seq(Kinds) /\ Len(log) \in Nat /\ highest \in Nat /\ highest \in 0 .. Len(log)
         /\ Desktop \in Desks /\ DeskOK(Desktop) /\ Wired(conn, wire, highest, Len(log)) /\ TimerOK
         /\ timeline \in Seq(Items) /\ TimelineOK(timeline, Frontier(Desktop)) /\ RunsAreText(timeline)
         /\ PendingOK(Desktop) /\ Fetched(Desktop) /\ Frontier(Desktop) \in Nat /\ Frontier(Desktop) <= highest + 1
         /\ hydration \in [phase : {"none", "asked", "read"}, upto : 0 .. Len(log)]
         /\ pending \in Seq(Events) /\ Events \subseteq Nat
         /\ wire \in Seq(Events \cup {Gap}) /\ conn \in Conns(Len(log))
<1>1. log \in Seq(Kinds) /\ DeskOK(Desktop) /\ Wired(conn, wire, highest, Len(log)) /\ TimerOK
  BY DEF StreamInv
<1>2. /\ Desktop \in Desks /\ TimelineOK(Desktop.timeline, Frontier(Desktop)) /\ PendingOK(Desktop) /\ Fetched(Desktop)
      /\ Desktop.timeline = timeline /\ Desktop.highest = highest /\ Desktop.hydration = hydration
      /\ Desktop.pending = pending
  BY <1>1 DEF DeskOK, Desktop
<1>3. /\ highest \in Nat /\ highest <= Len(log) /\ Len(log) \in Nat
      /\ hydration \in [phase : {"none", "asked", "read"}, upto : 0 .. Len(log)]
      /\ Frontier(Desktop) \in Nat /\ Frontier(Desktop) <= highest + 1
      /\ pending \in Seq(Events) /\ Events \subseteq Nat
  BY <1>1, <1>2, DeskFields, FrontierBehind
<1>4. timeline \in Seq(Items) /\ TimelineOK(timeline, Frontier(Desktop)) /\ RunsAreText(timeline)
  BY <1>2 DEF TimelineOK
<1>5. wire \in Seq(Events \cup {Gap})
  <2>1. StreamSafety
    BY StreamInvSafe
  <2> QED
    BY <2>1 DEF StreamSafety, StreamTypeOK
<1>6. conn \in Conns(Len(log))
  BY <1>1 DEF Wired
<1>7. highest \in 0 .. Len(log)
  BY <1>3
<1> QED
  BY <1>1, <1>2, <1>3, <1>4, <1>5, <1>6, <1>7

(* What a desktop shows depends on the log only by the kinds of its events. *)
LEMMA SameDesk ==
  ASSUME UNCHANGED <<log, viewing>>, NEW d, DeskOK(d)
  PROVE  DeskOK(d)'
BY DEF DeskOK, Desks, TimelineOK, Frontier, PendingOK, Fetched, Items, Events, IsText, RunsAreText

(* New events change nothing. *)
LEMMA LongerDesk ==
  ASSUME log \in Seq(Kinds), NEW kind \in Kinds, log' = Append(log, kind), viewing' = viewing, NEW d, DeskOK(d)
  PROVE  log' \in Seq(Kinds) /\ Len(log') = Len(log) + 1 /\ DeskOK(d)'
<1>1. /\ d \in Desks /\ TimelineOK(d.timeline, Frontier(d)) /\ PendingOK(d) /\ Fetched(d)
      /\ d.highest \in Nat /\ Len(log) \in Nat /\ d.highest <= Len(log)
  BY DeskFields DEF DeskOK
<1>2. log' \in Seq(Kinds) /\ Len(log') = Len(log) + 1
  OBVIOUS
<1>3. \A e \in Events : e \in Events' /\ IsText(e)' = IsText(e)
  <2> SUFFICES ASSUME NEW e \in 1 .. Len(log)
               PROVE  e \in 1 .. Len(log) + 1 /\ log'[e] = log[e]
    BY <1>2 DEF Events, IsText
  <2> QED
    BY <1>1
<1>4. Items \subseteq Items'
  <2>1. Events \subseteq Events'
    BY <1>3
  <2>2. Seq(Events) \subseteq Seq(Events')
    BY <2>1, SeqMonotonic
  <2> QED
    BY <2>2 DEF Items
<1>5. d \in Desks'
  <2> DEFINE T == {e \in Events : IsText(e)}
             U == {e \in Events' : IsText(e)'}
  <2>1. T \subseteq U
    BY <1>3
  <2>2. d.pending \in Seq(T) /\ d.timeline \in Seq(Items)
    BY <1>1 DEF Desks
  <2> HIDE DEF T, U
  <2>3. d.pending \in Seq(U) /\ d.timeline \in Seq(Items')
    BY <1>4, <2>1, <2>2, SeqMonotonic
  <2>4. 0 .. Len(log) \subseteq 0 .. Len(log')
    BY <1>1, <1>2
  <2>5. /\ d.highest \in 0 .. Len(log') /\ d.gap \in BOOLEAN /\ d.timer \in BOOLEAN /\ d.lost \in BOOLEAN
        /\ d.hydration \in [phase : {"none", "asked", "read"}, upto : 0 .. Len(log')]
        /\ d = [highest |-> d.highest, pending |-> d.pending, timeline |-> d.timeline, gap |-> d.gap,
                timer |-> d.timer, hydration |-> d.hydration, lost |-> d.lost]
    BY <1>1, <2>4 DEF Desks
  <2> QED
    BY <2>3, <2>5 DEF Desks, U
<1>6. TimelineOK(d.timeline, Frontier(d))'
  <2>1. d.timeline \in Seq(Items) /\ d.timeline \in Seq(Items') /\ RunsAreText(d.timeline)
    BY <1>1, <1>5 DEF TimelineOK, Desks
  <2>2. RunsAreText(d.timeline)'
    <3> SUFFICES ASSUME NEW i \in DOMAIN d.timeline, Len(d.timeline[i].ids) > 1, NEW j \in DOMAIN d.timeline[i].ids
                 PROVE  IsText(d.timeline[i].ids[j])'
      BY <2>1 DEF RunsAreText
    <3>1. IsText(d.timeline[i].ids[j])
      BY <2>1 DEF RunsAreText
    <3>2. d.timeline[i].ids \in Seq(Events)
      BY <2>1, ItemSpans
    <3>3. d.timeline[i].ids[j] \in Events
      BY <3>2
    <3> QED
      BY <1>3, <3>1, <3>3
  <2> QED
    BY <1>1, <2>1, <2>2 DEF TimelineOK, Frontier
<1>7. Fetched(d)'
  <2> SUFFICES ASSUME viewing, ~ d.gap, d.hydration.phase # "asked", NEW e \in d.hydration.upto + 1 .. d.highest
               PROVE  IsText(e)' \/ e \in ShownIn(d.timeline)
    BY DEF Fetched
  <2>1. d.hydration.upto \in Nat
    BY <1>1 DEF Desks
  <2>2. e \in Events
    BY <1>1, <2>1 DEF Events
  <2> QED
    BY <1>1, <1>3, <2>2 DEF Fetched
<1> QED
  BY <1>1, <1>2, <1>5, <1>6, <1>7 DEF DeskOK, PendingOK

(* A step that leaves the desktop in another good state. *)
LEMMA DeskStep ==
  ASSUME StreamInv, UNCHANGED <<log, viewing, breaks, switches>>, NEW d, DeskOK(d), Desktop' = d,
         TimerOK', Wired(conn', wire', highest', Len(log))
  PROVE  StreamInv'
<1>1. DeskOK(d)'
  BY SameDesk
<1>2. DeskOK(Desktop)'
  BY <1>1
<1>3. Wired(conn, wire, highest, Len(log))'
  OBVIOUS
<1> QED
  BY <1>2, <1>3 DEF StreamInv

(* A step of the gateway. *)
LEMMA StreamGatewayStep ==
  ASSUME StreamInv, UNCHANGED <<log, screen, breaks, switches>>,
         Wired(conn', wire', highest, Len(log)), conn'.phase = "none" \/ ~ timer
  PROVE  StreamInv'
<1> USE DEF screen
<1>1. PICK d : d = Desktop
  OBVIOUS
<1>2. Desktop' = d /\ DeskOK(d)
  BY <1>1 DEF Desktop, StreamInv
<1>3. TimerOK'
  BY DEF TimerOK, StreamInv
<1>4. Wired(conn', wire', highest', Len(log))
  OBVIOUS
<1> QED
  BY <1>2, <1>3, <1>4, DeskStep

LEMMA PublishKeepsStream ==
  ASSUME StreamInv, NEW kind \in Kinds, Publish(kind)
  PROVE  StreamInv'
<1> DEFINE n == Len(log)
<1>1. /\ log \in Seq(Kinds) /\ n \in Nat /\ highest \in Nat /\ DeskOK(Desktop) /\ Wired(conn, wire, highest, n) /\ TimerOK
      /\ conn \in Conns(n)
  BY StreamFacts
<1>2. /\ n < MaxEvents /\ log' = Append(log, kind) /\ UNCHANGED <<screen, breaks, switches>>
      /\ IF conn.phase \in {"replaying", "live"} THEN Flush(Enqueued(conn, Len(log'), kind))
         ELSE UNCHANGED <<conn, wire>>
  BY DEF Publish
<1>3. /\ viewing' = viewing /\ highest' = highest /\ Desktop' = Desktop /\ timer' = timer /\ gap' = gap
  BY <1>2 DEF screen, Desktop
<1>4. PICK d : d = Desktop
  OBVIOUS
<1>5. log' \in Seq(Kinds) /\ Len(log') = n + 1 /\ DeskOK(d)'
  BY <1>1, <1>2, <1>3, <1>4, LongerDesk
<1>6. Len(log') <= MaxEvents
  BY <1>1, <1>2, <1>5, BoundsAssumption
<1>7. Wired(conn', wire', highest, n + 1) /\ (conn'.phase = "none" \/ conn.phase # "none")
  <2>1. CASE conn.phase \in {"replaying", "live"}
    <3> DEFINE c == Enqueued(conn, n + 1, kind)
    <3>1. Wired(c, wire, highest, n + 1) /\ c.phase = conn.phase
      BY <1>1, <2>1, EnqueuedWired
    <3>2. Flush(c) /\ n + 1 \in Nat
      BY <1>1, <1>2, <1>5, <2>1
    <3> HIDE DEF c, n
    <3>3. Wired(conn', wire', highest, n + 1)
      BY <1>1, <3>1, <3>2, FlushWired
    <3> QED
      BY <2>1, <3>3
  <2>2. CASE conn.phase \notin {"replaying", "live"}
    <3>1. conn.phase \in {"none", "asked"}
      BY <1>1, <2>2 DEF Conns
    <3>2. Wired(conn, wire, highest, n + 1)
      BY <1>1, <3>1, StoredWired
    <3> QED
      BY <1>2, <2>2, <3>2
  <2> QED
    BY <2>1, <2>2
<1>8. TimerOK'
  BY <1>1, <1>3, <1>7 DEF TimerOK
<1>9. DeskOK(Desktop)'
  BY <1>3, <1>4, <1>5
<1>10. viewing' \in BOOLEAN /\ breaks' \in 0 .. MaxBreaks /\ switches' \in 0 .. MaxSwitches
  BY <1>2, <1>3 DEF StreamInv
<1>11. Wired(conn', wire', highest', Len(log'))
  BY <1>3, <1>5, <1>7
<1> QED
  BY <1>5, <1>6, <1>8, <1>9, <1>10, <1>11 DEF StreamInv

LEMMA ReplayKeepsStream ==
  ASSUME StreamInv, Replay
  PROVE  StreamInv'
<1> DEFINE n == Len(log)
<1>1. n \in Nat /\ highest \in Nat /\ Wired(conn, wire, highest, n) /\ TimerOK
  BY StreamFacts
<1>2. conn.phase = "replaying" /\ ~ timer
  BY <1>1 DEF Replay, TimerOK
<1>3. UNCHANGED <<log, screen, breaks, switches>>
  BY DEF Replay
<1>4. Wired(conn', wire', highest, n)
  <2>1. CASE conn.last < conn.mark
    <3>1. PICK full \in BOOLEAN : conn' = [conn EXCEPT !.last = @ + 1, !.full = full]
      BY <2>1 DEF Replay
    <3>2. wire' = Append(wire, conn.last + 1)
      BY <2>1 DEF Replay
    <3> QED
      BY <1>1, <1>2, <2>1, <3>1, <3>2, ReplayedWired
  <2>2. CASE ~ (conn.last < conn.mark)
    <3> DEFINE c == [conn EXCEPT !.phase = "live"]
    <3>1. Wired(c, wire, highest, n)
      BY <1>1, <1>2, <2>2, LiveWired
    <3>2. Flush(c)
      BY <2>2 DEF Replay
    <3> HIDE DEF c, n
    <3> QED
      BY <1>1, <3>1, <3>2, FlushWired
  <2> QED
    BY <2>1, <2>2
<1> QED
  BY <1>2, <1>3, <1>4, StreamGatewayStep

LEMMA DrainKeepsStream ==
  ASSUME StreamInv, Drain
  PROVE  StreamInv'
<1> DEFINE n == Len(log)
           c == [conn EXCEPT !.full = FALSE]
<1>1. n \in Nat /\ highest \in Nat /\ Wired(conn, wire, highest, n) /\ TimerOK
  BY StreamFacts
<1>2. conn.full /\ Flush(c) /\ UNCHANGED <<log, screen, breaks, switches>>
  BY DEF Drain
<1>3. ~ timer
  BY <1>1, <1>2 DEF TimerOK, Wired, Idle
<1>4. Wired(c, wire, highest, n)
  BY <1>1, DrainedWired
<1> HIDE DEF c
<1>5. Wired(conn', wire', highest, n)
  <2> HIDE DEF n
  <2> QED
    BY <1>1, <1>2, <1>4, FlushWired
<1> QED
  BY <1>2, <1>3, <1>5, StreamGatewayStep

LEMMA AcceptKeepsStream ==
  ASSUME StreamInv, Accept
  PROVE  StreamInv'
<1> DEFINE n == Len(log)
           h == IF gap THEN [phase |-> "asked", upto |-> 0] ELSE hydration
<1>1. /\ n \in Nat /\ highest \in 0 .. n /\ Wired(conn, wire, highest, n) /\ TimerOK /\ Desktop \in Desks
      /\ TimelineOK(timeline, Frontier(Desktop)) /\ PendingOK(Desktop) /\ Fetched(Desktop)
      /\ hydration \in [phase : {"none", "asked", "read"}, upto : 0 .. Len(log)]
  BY StreamFacts
<1>2. /\ conn.phase = "asked" /\ conn' = [conn EXCEPT !.phase = "replaying", !.mark = n]
      /\ gap' = FALSE /\ hydration' = h
      /\ UNCHANGED <<log, wire, viewing, highest, pending, timeline, timer, breaks, switches>>
  BY DEF Accept
<1>3. Wired(conn', wire', highest', n)
  BY <1>1, <1>2, AcceptedWired
<1>4. TimerOK'
  BY <1>1, <1>2 DEF TimerOK
<1>5. PICK d : d = [Desktop EXCEPT !.gap = FALSE, !.hydration = h]
  OBVIOUS
<1>6. h \in [phase : {"none", "asked", "read"}, upto : 0 .. Len(log)] /\ (h.phase # "asked" => h = hydration /\ ~ gap)
  BY <1>1
<1> HIDE DEF h
<1>7. Desktop' = d
  BY <1>2, <1>5 DEF Desktop
<1>8. /\ d \in Desks /\ d.timeline = timeline /\ d.pending = pending /\ d.highest = highest /\ d.hydration = h
  <2>1. d \in Desks
    BY <1>1, <1>5, <1>6 DEF Desks
  <2> QED
    BY <1>5, <2>1 DEF Desktop, Desks
<1>9. Frontier(d) = Frontier(Desktop)
  BY <1>8 DEF Frontier, Desktop
<1>10. PendingOK(d)
  BY <1>1, <1>8 DEF PendingOK, Desktop
<1>11. Fetched(d)
  BY <1>1, <1>6, <1>8 DEF Fetched, Desktop
<1>12. DeskOK(d)
  BY <1>1, <1>8, <1>9, <1>10, <1>11 DEF DeskOK
<1> QED
  BY <1>2, <1>3, <1>4, <1>7, <1>12, DeskStep

LEMMA ReadChunkKeepsStream ==
  ASSUME StreamInv, ReadChunk
  PROVE  StreamInv'
<1> DEFINE n == Len(log)
<1>1. /\ log \in Seq(Kinds) /\ n \in Nat /\ highest \in Nat /\ Wired(conn, wire, highest, n) /\ TimerOK
      /\ DeskOK(Desktop) /\ wire \in Seq(Events \cup {Gap})
  BY StreamFacts
<1>2. UNCHANGED <<log, viewing, breaks, switches>>
  BY DEF ReadChunk
<1>3. Len(wire) \in Nat
  BY <1>1
<1>4. PICK after : /\ Handles(after)
                   /\ \E k \in 1 .. Len(wire) :
                         LET d == after[k]
                         IN /\ highest' = d.highest /\ pending' = d.pending /\ timeline' = d.timeline
                            /\ gap' = d.gap /\ timer' = d.timer /\ hydration' = d.hydration
                            /\ IF d.lost THEN conn' = NoConn /\ wire' = <<>>
                               ELSE wire' = SubSeq(wire, k + 1, Len(wire)) /\ UNCHANGED conn
  BY <1>3, ChunkRuns
<1>5. PICK k \in 1 .. Len(wire) :
                         LET d == after[k]
                         IN /\ highest' = d.highest /\ pending' = d.pending /\ timeline' = d.timeline
                            /\ gap' = d.gap /\ timer' = d.timer /\ hydration' = d.hydration
                            /\ IF d.lost THEN conn' = NoConn /\ wire' = <<>>
                               ELSE wire' = SubSeq(wire, k + 1, Len(wire)) /\ UNCHANGED conn
  BY <1>4
<1>6. OnWire(wire, highest)
  BY <1>1 DEF Wired
<1>7. HandledUpTo(after, k)
  <2>1. k \in 0 .. Len(wire)
    BY <1>3
  <2> QED
    BY <1>1, <1>4, <1>6, <2>1, ChunkHandled DEF OnWire
<1>8. PICK e : e = after[k]
  OBVIOUS
<1>9. /\ DeskOK(e)
      /\ Clear(wire, k) => e.highest = highest + k /\ e.gap = gap /\ e.timer = timer /\ ~ e.lost
      /\ ~ Clear(wire, k) => e.gap /\ e.timer /\ e.lost
  BY <1>7, <1>8 DEF HandledUpTo
<1>10. /\ highest' = e.highest /\ pending' = e.pending /\ timeline' = e.timeline
       /\ gap' = e.gap /\ timer' = e.timer /\ hydration' = e.hydration
       /\ e.lost => conn' = NoConn /\ wire' = <<>>
       /\ ~ e.lost => wire' = SubSeq(wire, k + 1, Len(wire)) /\ UNCHANGED conn
  BY <1>5, <1>8
<1>11. PICK d : d = [e EXCEPT !.lost = FALSE]
  OBVIOUS
<1>12. /\ d \in Desks /\ d.timeline = e.timeline /\ d.pending = e.pending /\ d.highest = e.highest /\ d.gap = e.gap
       /\ d.hydration = e.hydration /\ d.timer = e.timer /\ d.lost = FALSE /\ e \in Desks
  <2>1. e \in Desks
    BY <1>9 DEF DeskOK
  <2> QED
    BY <1>11, <2>1 DEF Desks
<1>13. Desktop' = d
  <2>1. d = [highest |-> d.highest, pending |-> d.pending, timeline |-> d.timeline, gap |-> d.gap,
             timer |-> d.timer, hydration |-> d.hydration, lost |-> d.lost]
    BY <1>12 DEF Desks
  <2>2. Desktop' = [highest |-> highest', pending |-> pending', timeline |-> timeline', gap |-> gap',
                    timer |-> timer', hydration |-> hydration', lost |-> FALSE]
    BY DEF Desktop
  <2> QED
    BY <1>10, <1>12, <2>1, <2>2
<1>14. DeskOK(d)
  <2>1. Frontier(d) = Frontier(e)
    BY <1>12 DEF Frontier
  <2> QED
    BY <1>9, <1>12, <2>1 DEF DeskOK, PendingOK, Fetched
<1>15. TimerOK' /\ Wired(conn', wire', highest', n)
  <2>1. CASE Clear(wire, k)
    <3>1. Wired(conn, SubSeq(wire, k + 1, Len(wire)), highest + k, n)
      BY <1>1, <2>1, ReadWired
    <3>2. ~ timer
      <4>1. wire # <<>>
        BY <1>3
      <4> QED
        BY <1>1, <4>1 DEF TimerOK, Wired, Idle
    <3> QED
      BY <1>9, <1>10, <2>1, <3>1, <3>2 DEF TimerOK
  <2>2. CASE ~ Clear(wire, k)
    <3>1. Wired(NoConn, <<>>, e.highest, n)
      BY <1>1, ClosedWired
    <3>2. NoConn.phase = "none"
      BY DEF NoConn
    <3> QED
      BY <1>9, <1>10, <2>2, <3>1, <3>2 DEF TimerOK
  <2> QED
    BY <2>1, <2>2
<1> QED
  BY <1>2, <1>13, <1>14, <1>15, DeskStep

(* The text that waits for its frame is shown, or dropped. *)
LEMMA FlushTimerKeepsStream ==
  ASSUME StreamInv, FlushTimer
  PROVE  StreamInv'
<1> DEFINE X == IF viewing THEN Added(timeline, pending) ELSE timeline
<1>1. /\ log \in Seq(Kinds) /\ highest \in Nat /\ Wired(conn, wire, highest, Len(log)) /\ TimerOK /\ Desktop \in Desks
      /\ TimelineOK(timeline, Frontier(Desktop)) /\ PendingOK(Desktop) /\ Fetched(Desktop) /\ DeskOK(Desktop)
      /\ Frontier(Desktop) \in Nat /\ Frontier(Desktop) <= highest + 1
  BY StreamFacts
<1>2. /\ pending # <<>> /\ pending' = <<>> /\ timeline' = X
      /\ UNCHANGED <<log, conn, wire, viewing, highest, gap, timer, hydration, breaks, switches>>
  BY DEF FlushTimer
<1>3. TimelineOK(X, highest + 1) /\ (viewing => ShownIn(timeline) \subseteq ShownIn(X))
  <2>1. CASE viewing
    <3> DEFINE t == FlushedText(Desktop)
    <3>1. t.timeline = X
      <4>1. t = [Desktop EXCEPT !.pending = <<>>, !.timeline = X]
        BY <1>2, <2>1 DEF FlushedText, Desktop
      <4> HIDE DEF t, X
      <4> QED
        BY <1>1, <4>1 DEF Desks
    <3>2. TimelineOK(t.timeline, Desktop.highest + 1) /\ ShownIn(Desktop.timeline) \subseteq ShownIn(t.timeline)
      BY <1>1, FlushedWell
    <3>3. Desktop.highest = highest /\ Desktop.timeline = timeline
      BY DEF Desktop
    <3> HIDE DEF t, X
    <3> QED
      BY <3>1, <3>2, <3>3
  <2>2. CASE ~ viewing
    <3>1. highest + 1 \in Nat
      BY <1>1
    <3>2. TimelineOK(timeline, highest + 1)
      BY <1>1, <3>1, LaterTimeline
    <3> QED
      BY <2>2, <3>2
  <2> QED
    BY <2>1, <2>2
<1> HIDE DEF X
<1>4. PICK d : d = [Desktop EXCEPT !.pending = <<>>, !.timeline = X]
  OBVIOUS
<1>5. Desktop' = d
  BY <1>2, <1>4 DEF Desktop
<1>6. /\ d \in Desks /\ d.timeline = X /\ d.pending = <<>> /\ d.highest = highest /\ d.gap = gap
      /\ d.hydration = hydration
  <2>0. <<>> \in Seq({e \in Events : IsText(e)})
    OBVIOUS
  <2>1. X \in Seq(Items)
    BY <1>3 DEF TimelineOK
  <2>2. d \in Desks
    BY <1>1, <1>4, <2>0, <2>1 DEF Desks
  <2> QED
    BY <1>4, <2>2 DEF Desktop, Desks
<1>7. TimelineOK(d.timeline, Frontier(d)) /\ PendingOK(d)
  BY <1>3, <1>6 DEF Frontier, PendingOK
<1>8. Fetched(d)
  BY <1>1, <1>3, <1>6 DEF Fetched, Desktop
<1>9. DeskOK(d)
  BY <1>6, <1>7, <1>8 DEF DeskOK
<1>10. TimerOK' /\ Wired(conn', wire', highest', Len(log))
  BY <1>1, <1>2 DEF TimerOK
<1> QED
  BY <1>2, <1>5, <1>9, <1>10, DeskStep

LEMMA BreakKeepsStream ==
  ASSUME StreamInv, Break
  PROVE  StreamInv'
<1>1. /\ Len(log) \in Nat /\ Desktop \in Desks
      /\ TimelineOK(timeline, Frontier(Desktop)) /\ PendingOK(Desktop)
  BY StreamFacts
<1>2. /\ breaks < MaxBreaks /\ breaks' = breaks + 1 /\ conn' = NoConn /\ wire' = <<>> /\ gap' = TRUE /\ timer' = TRUE
      /\ UNCHANGED <<log, viewing, highest, pending, timeline, hydration, switches>>
  BY DEF Break
<1>3. PICK d : d = [Desktop EXCEPT !.gap = TRUE, !.timer = TRUE]
  OBVIOUS
<1>4. Desktop' = d
  BY <1>2, <1>3 DEF Desktop
<1>5. d \in Desks /\ d.timeline = timeline /\ d.pending = pending /\ d.highest = highest /\ d.gap
  <2>1. d \in Desks
    BY <1>1, <1>3 DEF Desks
  <2> QED
    BY <1>3, <2>1 DEF Desktop, Desks
<1>6. Frontier(d) = Frontier(Desktop)
  BY <1>5 DEF Frontier, Desktop
<1>7. DeskOK(d)
  BY <1>1, <1>5, <1>6 DEF DeskOK, PendingOK, Fetched, Desktop
<1>8. DeskOK(Desktop)'
  <2>1. DeskOK(d)'
    BY <1>2, <1>7, SameDesk
  <2> QED
    BY <1>4, <2>1
<1>9. TimerOK'
  BY <1>2 DEF TimerOK, NoConn
<1>10. Wired(conn', wire', highest', Len(log'))
  BY <1>1, <1>2, ClosedWired
<1>11. breaks' \in 0 .. MaxBreaks
  BY <1>2, BoundsAssumption DEF StreamInv
<1> QED
  BY <1>2, <1>8, <1>9, <1>10, <1>11 DEF StreamInv

LEMMA ReconnectKeepsStream ==
  ASSUME StreamInv, Reconnect
  PROVE  StreamInv'
<1> DEFINE n == Len(log)
           shown == IF timeline = <<>> THEN 0 ELSE LastId(timeline[Len(timeline)])
           h == IF shown > highest THEN shown ELSE highest
<1>1. /\ n \in Nat /\ highest \in 0 .. n /\ Desktop \in Desks /\ timeline \in Seq(Items) /\ RunsAreText(timeline)
      /\ TimelineOK(timeline, Frontier(Desktop)) /\ Frontier(Desktop) \in Nat /\ Frontier(Desktop) <= highest + 1
      /\ TimerOK
  BY StreamFacts
<1>2. /\ timer /\ pending = <<>> /\ timer' = FALSE /\ highest' = h
      /\ conn' = [NoConn EXCEPT !.phase = "asked", !.last = h] /\ wire' = <<>>
      /\ UNCHANGED <<log, viewing, pending, timeline, gap, hydration, breaks, switches>>
  BY DEF Reconnect, Connect
<1>3. h \in 0 .. n /\ highest <= h
  <2>1. shown \in 0 .. n
    <3>1. CASE timeline = <<>>
      BY <1>1, <3>1
    <3>2. CASE timeline # <<>>
      <4>1. Len(timeline) \in DOMAIN timeline
        BY <1>1, <3>2
      <4>2. LastId(timeline[Len(timeline)]) \in Events
        BY <1>1, <4>1, ItemSpans
      <4>3. Events \subseteq 0 .. n
        BY <1>1 DEF Events
      <4> QED
        BY <3>2, <4>2, <4>3
    <3> QED
      BY <3>1, <3>2
  <2> HIDE DEF shown
  <2> QED
    BY <1>1, <2>1
<1> HIDE DEF h
<1>4. gap
  BY <1>1, <1>2 DEF TimerOK
<1>5. PICK d : d = [Desktop EXCEPT !.highest = h, !.timer = FALSE]
  OBVIOUS
<1>6. Desktop' = d
  BY <1>2, <1>5 DEF Desktop
<1>7. d \in Desks /\ d.timeline = timeline /\ d.pending = <<>> /\ d.highest = h /\ d.gap
  <2>1. d \in Desks
    BY <1>1, <1>3, <1>5 DEF Desks
  <2> QED
    BY <1>2, <1>4, <1>5, <2>1 DEF Desktop, Desks
<1>8. TimelineOK(d.timeline, Frontier(d))
  <2>1. h + 1 \in Nat /\ Frontier(Desktop) <= h + 1
    BY <1>1, <1>3
  <2>2. TimelineOK(timeline, h + 1)
    BY <1>1, <2>1, LaterTimeline
  <2> QED
    BY <1>7, <2>2 DEF Frontier
<1>9. DeskOK(d)
  BY <1>7, <1>8 DEF DeskOK, PendingOK, Fetched
<1>10. TimerOK' /\ Wired(conn', wire', highest', n)
  BY <1>1, <1>2, <1>3, AskedWired DEF TimerOK
<1> QED
  BY <1>2, <1>6, <1>9, <1>10, DeskStep

LEMMA ReadHistoryKeepsStream ==
  ASSUME StreamInv, ReadHistory
  PROVE  StreamInv'
<1> DEFINE h == [phase |-> "read", upto |-> Len(log)]
<1>1. /\ Len(log) \in Nat /\ highest \in 0 .. Len(log) /\ Desktop \in Desks
      /\ TimelineOK(timeline, Frontier(Desktop)) /\ PendingOK(Desktop)
      /\ TimerOK /\ Wired(conn, wire, highest, Len(log))
  BY StreamFacts
<1>2. /\ hydration' = h
      /\ UNCHANGED <<log, conn, wire, viewing, highest, pending, timeline, gap, timer, breaks, switches>>
  BY DEF ReadHistory
<1>3. h \in [phase : {"none", "asked", "read"}, upto : 0 .. Len(log)] /\ h.upto = Len(log)
  BY <1>1
<1> HIDE DEF h
<1>4. PICK d : d = [Desktop EXCEPT !.hydration = h]
  OBVIOUS
<1>5. Desktop' = d
  BY <1>2, <1>4 DEF Desktop
<1>6. d \in Desks /\ d.timeline = timeline /\ d.pending = pending /\ d.highest = highest /\ d.hydration = h
  <2>1. d \in Desks
    BY <1>1, <1>3, <1>4 DEF Desks
  <2> QED
    BY <1>4, <2>1 DEF Desktop, Desks
<1>7. Frontier(d) = Frontier(Desktop)
  BY <1>6 DEF Frontier, Desktop
<1>8. Fetched(d)
  <2>1. Len(log) + 1 .. highest = {}
    BY <1>1
  <2> QED
    BY <1>3, <1>6, <2>1 DEF Fetched
<1>9. DeskOK(d)
  BY <1>1, <1>6, <1>7, <1>8 DEF DeskOK, PendingOK, Desktop
<1>10. TimerOK' /\ Wired(conn', wire', highest', Len(log))
  BY <1>1, <1>2 DEF TimerOK
<1> QED
  BY <1>2, <1>5, <1>9, <1>10, DeskStep

LEMMA HydrateKeepsStream ==
  ASSUME StreamInv, Hydrate
  PROVE  StreamInv'
<1> DEFINE u == hydration.upto
           F == Frontier(Desktop)
           X == IF viewing THEN Merged(u) ELSE timeline
<1>1. /\ log \in Seq(Kinds) /\ Len(log) \in Nat /\ highest \in 0 .. Len(log) /\ Desktop \in Desks
      /\ timeline \in Seq(Items) /\ RunsAreText(timeline)
      /\ TimelineOK(timeline, F) /\ PendingOK(Desktop) /\ Fetched(Desktop)
      /\ TimerOK /\ Wired(conn, wire, highest, Len(log)) /\ u \in 0 .. Len(log) /\ pending \in Seq(Events)
  BY StreamFacts
<1>2. /\ hydration.phase = "read" /\ hydration' = NoHydration /\ timeline' = X
      /\ UNCHANGED <<log, conn, wire, viewing, highest, pending, gap, timer, breaks, switches>>
  BY DEF Hydrate
<1>3. F \in Nat \ {0}
  <2>1. CASE pending = <<>>
    <3>1. F = highest + 1
      BY <2>1 DEF Frontier, Desktop
    <3> HIDE DEF F
    <3> QED
      BY <1>1, <3>1
  <2>2. CASE pending # <<>>
    <3>1. F = pending[1]
      BY <2>2 DEF Frontier, Desktop
    <3>2. pending[1] \in Events
      BY <1>1, <2>2
    <3>3. Events \subseteq Nat \ {0}
      BY <1>1 DEF Events
    <3> HIDE DEF F
    <3> QED
      BY <3>1, <3>2, <3>3
  <2> QED
    BY <2>1, <2>2
<1>4. TimelineOK(X, F)
  <2> HIDE DEF F, u
  <2>1. TimelineOK(Merged(u), F)
    BY <1>1, <1>3, MergedWell
  <2> QED
    BY <1>1, <2>1
<1>5. viewing => \A e \in Events : ~ IsText(e) /\ (e <= u \/ e \in ShownIn(timeline)) => e \in ShownIn(X)
  <2> HIDE DEF u
  <2> QED
    BY <1>1, MergedShows
<1> HIDE DEF X, F
<1>6. PICK d : d = [Desktop EXCEPT !.timeline = X, !.hydration = NoHydration]
  OBVIOUS
<1>7. Desktop' = d
  BY <1>2, <1>6 DEF Desktop
<1>8. NoHydration \in [phase : {"none", "asked", "read"}, upto : 0 .. Len(log)] /\ NoHydration.upto = 0
  BY <1>1 DEF NoHydration
<1>9. /\ d \in Desks /\ d.timeline = X /\ d.pending = pending /\ d.highest = highest /\ d.hydration = NoHydration
      /\ d.gap = gap
  <2>1. X \in Seq(Items)
    BY <1>4 DEF TimelineOK
  <2>2. d \in Desks
    BY <1>1, <1>6, <1>8, <2>1 DEF Desks
  <2> QED
    BY <1>6, <2>2 DEF Desktop, Desks
<1>10. Frontier(d) = F
  BY <1>9 DEF F, Frontier, Desktop
<1>11. Fetched(d)
  <2> SUFFICES ASSUME viewing, ~ gap, NEW e \in 0 + 1 .. highest, ~ IsText(e)
               PROVE  e \in ShownIn(X)
    BY <1>8, <1>9 DEF Fetched
  <2>1. e \in Events /\ e \in Nat
    BY <1>1 DEF Events
  <2>2. e <= u \/ e \in u + 1 .. highest
    <3> HIDE DEF u
    <3> QED
      BY <1>1, <2>1
  <2>3. \A g \in u + 1 .. highest : IsText(g) \/ g \in ShownIn(timeline)
    BY <1>1, <1>2 DEF Fetched, Desktop
  <2> QED
    BY <1>5, <2>1, <2>2, <2>3
<1>12. DeskOK(d)
  BY <1>1, <1>4, <1>9, <1>10, <1>11 DEF DeskOK, PendingOK, Desktop
<1>13. TimerOK' /\ Wired(conn', wire', highest', Len(log))
  BY <1>1, <1>2 DEF TimerOK
<1> QED
  BY <1>2, <1>7, <1>12, <1>13, DeskStep

(* Another mission is looked at: nothing is shown. *)
LEMMA SwitchedDesk ==
  ASSUME StreamInv, UNCHANGED <<log, highest, pending, breaks>>, timeline' = <<>>, timer' = FALSE,
         viewing' \in BOOLEAN, switches' \in 0 .. MaxSwitches, gap' \in BOOLEAN,
         hydration' \in [phase : {"none", "asked", "read"}, upto : 0 .. Len(log)],
         viewing' => hydration'.phase = "asked",
         Wired(conn', wire', highest, Len(log))
  PROVE  StreamInv'
<1>1. Desktop \in Desks /\ PendingOK(Desktop) /\ log \in Seq(Kinds)
  BY StreamFacts
<1>2. Desktop' = [highest |-> highest, pending |-> pending, timeline |-> <<>>, gap |-> gap', timer |-> FALSE,
                  hydration |-> hydration', lost |-> FALSE]
  BY DEF Desktop
<1>3. PICK d : d = Desktop'
  OBVIOUS
<1>4. /\ d.timeline = <<>> /\ d.pending = pending /\ d.highest = highest /\ d.hydration = hydration'
      /\ d \in Desks
  <2>1. <<>> \in Seq(Items)
    OBVIOUS
  <2>2. highest \in 0 .. Len(log) /\ pending \in Seq({e \in Events : IsText(e)})
    BY <1>1 DEF Desks, Desktop
  <2> QED
    BY <1>2, <1>3, <2>1, <2>2 DEF Desks
<1>5. TimelineOK(<<>>, Frontier(d))
  BY DEF TimelineOK, RunsAreText, Ascending, LiveBehind, NoHole
<1>6. PendingOK(d)
  BY <1>1, <1>4 DEF PendingOK, Desktop
<1>7. d \in Desks' /\ TimelineOK(<<>>, Frontier(d))'
  BY <1>4, <1>5 DEF Desks, Items, Events, IsText, TimelineOK, RunsAreText, Frontier
<1>8. Fetched(d)'
  BY <1>4 DEF Fetched
<1>9. DeskOK(d)'
  BY <1>4, <1>6, <1>7, <1>8 DEF DeskOK, PendingOK
<1>10. DeskOK(Desktop)'
  BY <1>3, <1>9
<1>11. TimerOK'
  BY DEF TimerOK
<1> QED
  BY <1>10, <1>11 DEF StreamInv

LEMMA OpenKeepsStream ==
  ASSUME StreamInv, Open
  PROVE  StreamInv'
<1>1. highest \in 0 .. Len(log) /\ Len(log) \in Nat /\ Desktop \in Desks
  BY StreamFacts
<1>2. /\ viewing' = TRUE /\ timeline' = <<>> /\ timer' = FALSE
      /\ conn' = [NoConn EXCEPT !.phase = "asked", !.last = highest] /\ wire' = <<>>
      /\ hydration' = [phase |-> "asked", upto |-> 0]
      /\ UNCHANGED <<log, highest, pending, gap, breaks, switches>>
  BY DEF Open
<1>3. Wired(conn', wire', highest, Len(log))
  BY <1>1, <1>2, AskedWired
<1>4. hydration' \in [phase : {"none", "asked", "read"}, upto : 0 .. Len(log)] /\ hydration'.phase = "asked"
  BY <1>1, <1>2
<1>5. gap' \in BOOLEAN /\ switches' \in 0 .. MaxSwitches
  BY <1>1, <1>2 DEF StreamInv, Desks, Desktop
<1> QED
  BY <1>2, <1>3, <1>4, <1>5, SwitchedDesk

LEMMA LeaveKeepsStream ==
  ASSUME StreamInv, Leave
  PROVE  StreamInv'
<1>1. Len(log) \in Nat /\ hydration \in [phase : {"none", "asked", "read"}, upto : 0 .. Len(log)]
  BY StreamFacts
<1>2. /\ switches < MaxSwitches /\ switches' = switches + 1
      /\ viewing' = FALSE /\ timeline' = <<>> /\ timer' = FALSE /\ conn' = NoConn /\ wire' = <<>> /\ gap' = FALSE
      /\ UNCHANGED <<log, highest, pending, hydration, breaks>>
  BY DEF Leave
<1>3. Wired(conn', wire', highest, Len(log))
  BY <1>1, <1>2, ClosedWired
<1>4. switches' \in 0 .. MaxSwitches
  BY <1>2, BoundsAssumption DEF StreamInv
<1> QED
  BY <1>1, <1>2, <1>3, <1>4, SwitchedDesk

LEMMA StreamInvInit ==
  ASSUME StreamInit
  PROVE  StreamInv
<1>1. /\ log = <<>> /\ Len(log) = 0 /\ log \in Seq(Kinds) /\ viewing = FALSE /\ highest = 0 /\ pending = <<>> /\ timeline = <<>>
      /\ gap = FALSE /\ timer = FALSE /\ hydration = NoHydration /\ breaks = 0 /\ switches = 0
      /\ conn = NoConn /\ wire = <<>>
  BY DEF StreamInit
<1>2. Desktop = [highest |-> 0, pending |-> <<>>, timeline |-> <<>>, gap |-> FALSE, timer |-> FALSE,
                 hydration |-> NoHydration, lost |-> FALSE]
  BY <1>1 DEF Desktop
<1>3. PICK d : d = Desktop
  OBVIOUS
<1>4. d \in Desks /\ d.timeline = <<>> /\ d.pending = <<>>
  <2>1. <<>> \in Seq(Items) /\ <<>> \in Seq({e \in Events : IsText(e)})
    OBVIOUS
  <2>2. NoHydration \in [phase : {"none", "asked", "read"}, upto : 0 .. Len(log)] /\ 0 \in 0 .. Len(log)
    BY <1>1 DEF NoHydration
  <2> QED
    BY <1>2, <1>3, <2>1, <2>2 DEF Desks
<1>5. TimelineOK(<<>>, Frontier(d))
  BY DEF TimelineOK, RunsAreText, Ascending, LiveBehind, NoHole
<1>6. DeskOK(d)
  BY <1>1, <1>4, <1>5 DEF DeskOK, PendingOK, Fetched
<1>7. Wired(conn, wire, highest, Len(log))
  <2>1. Len(log) \in Nat
    BY <1>1
  <2> QED
    BY <1>1, <2>1, ClosedWired
<1>8. /\ Len(log) <= MaxEvents /\ breaks \in 0 .. MaxBreaks /\ switches \in 0 .. MaxSwitches
  BY <1>1, BoundsAssumption
<1> QED
  BY <1>1, <1>3, <1>6, <1>7, <1>8 DEF StreamInv, TimerOK

LEMMA StreamInvStep ==
  ASSUME StreamInv, [StreamNext]_streamVars
  PROVE  StreamInv'
<1>1. CASE \E kind \in Kinds : Publish(kind)
  BY <1>1, PublishKeepsStream
<1>2. CASE Replay
  BY <1>2, ReplayKeepsStream
<1>3. CASE Drain
  BY <1>3, DrainKeepsStream
<1>4. CASE Accept
  BY <1>4, AcceptKeepsStream
<1>5. CASE ReadChunk
  BY <1>5, ReadChunkKeepsStream
<1>6. CASE FlushTimer
  BY <1>6, FlushTimerKeepsStream
<1>7. CASE Reconnect
  BY <1>7, ReconnectKeepsStream
<1>8. CASE ReadHistory
  BY <1>8, ReadHistoryKeepsStream
<1>9. CASE Hydrate
  BY <1>9, HydrateKeepsStream
<1>10. CASE Break
  BY <1>10, BreakKeepsStream
<1>11. CASE Open
  BY <1>11, OpenKeepsStream
<1>12. CASE Leave
  BY <1>12, LeaveKeepsStream
<1>13. CASE UNCHANGED streamVars
  <2>1. UNCHANGED <<log, conn, wire, screen, breaks, switches>>
    BY <1>13 DEF streamVars
  <2>2. Wired(conn', wire', highest, Len(log)) /\ (conn'.phase = "none" \/ ~ timer)
    BY <2>1, StreamFacts DEF TimerOK
  <2> QED
    BY <2>1, <2>2, StreamGatewayStep
<1> QED
  BY <1>1, <1>2, <1>3, <1>4, <1>5, <1>6, <1>7, <1>8, <1>9, <1>10, <1>11, <1>12, <1>13
     DEF StreamNext, DesktopStep

(* Between the last event the desktop has and the last that was stored,    *)
(* the events are in the store, in the queue and on the wire, each once    *)
(* and in order, or a gap is told; and what is shown is a row of runs,     *)
(* without the events that the desktop still has to fetch.                 *)
THEOREM StreamInvariant == StreamSpec => []StreamInv
<1>1. StreamInit => StreamInv
  BY StreamInvInit
<1>2. StreamInv /\ [StreamNext]_streamVars => StreamInv'
  BY StreamInvStep
<1> QED
  BY <1>1, <1>2, PTL DEF StreamSpec

(* However replay, queue, snapshot and the frame of a text overlap, what   *)
(* is shown is in order and shown once, and what is not shown is fetched.  *)
THEOREM StreamIsSafe == StreamSpec => []StreamSafety
<1>1. StreamInv => StreamSafety
  BY StreamInvSafe
<1> QED
  BY <1>1, StreamInvariant, PTL
=============================================================================
