---------------------------- MODULE Runtime_proofs ----------------------------
(***************************************************************************)
(* Theorems about the runtime host: the sessions of agents, for any number *)
(* of them, of probes that may fail and of crashes, and the turns of the   *)
(* orchestrator's own agent, for any number of turns and stops.            *)
(***************************************************************************)
EXTENDS MCRuntime, TLAPS

-----------------------------------------------------------------------------
(* The sessions of agents.                                                 *)

(* What a pass of the watchdog may be, and the attempts that it takes.     *)
Passes == [phase : {"none", "sessions", "leases"}, probing : SUBSET Sessions, killing : SUBSET Sessions,
           expired : SUBSET Sessions, age : 0 .. 1]

(* No pass is one of them.                                                 *)
LEMMA NoPassIsPass == NoPass \in Passes
BY DEF NoPass, Passes

Stale == {s \in Sessions : row[s] \in Active /\ lease[s] + pass.age <= 0}

(* Launching preserves the invariant.                                      *)
LEMMA LaunchKeepsSessionInv ==
  ASSUME SessionIInv, NEW s \in Sessions, ClaimAttempt(s) \/ Spawn(s) \/ SpawnFails(s) \/ Register(s) \/ LaunchUndone(s)
  PROVE  SessionIInv'
<1> USE SessionsAssumption, TimesAssumption
   DEF SessionIInv, SessionInv, Alive, Active, Ended, Finish, Leave, Renewed, NoPass, attempt, session,
       watchdog
<1>1. CASE ClaimAttempt(s)
  <2>1. TypeOK'
    BY <1>1 DEF TypeOK, ClaimAttempt
  <2>2. LossIsReal'
    BY <1>1, <2>1 DEF TypeOK, LossIsReal, LaunchesAreTrue, PassIsTrue, ClaimAttempt
  <2>3. NoStrayProcess'
    BY <1>1, <2>1 DEF TypeOK, NoStrayProcess, LaunchesAreTrue, PassIsTrue, CancelsAreTold, ClaimAttempt
  <2>4. LaunchesAreTrue'
    BY <1>1, <2>1 DEF TypeOK, LaunchesAreTrue, PassIsTrue, ClaimAttempt
  <2>5. PassIsTrue'
    BY <1>1, <2>1 DEF TypeOK, PassIsTrue, LaunchesAreTrue, ClaimAttempt
  <2>6. CancelsAreTold'
    BY <1>1, <2>1 DEF TypeOK, CancelsAreTold, PassIsTrue, LaunchesAreTrue, ClaimAttempt
  <2>7. FailuresAreCounted'
    BY <1>1, <2>1 DEF TypeOK, FailuresAreCounted, PassIsTrue, LaunchesAreTrue, CancelsAreTold, ClaimAttempt
  <2>8. LeaseIsAhead'
    BY <1>1, <2>1
       DEF TypeOK, LeaseIsAhead, Unseen, PassIsTrue, LaunchesAreTrue, FailuresAreCounted, CancelsAreTold,
           ClaimAttempt
  <2> QED
    BY <2>1, <2>2, <2>3, <2>4, <2>5, <2>6, <2>7, <2>8 DEF SessionIInv, SessionInv
<1>2. CASE Spawn(s)
  <2>1. TypeOK'
    BY <1>2 DEF TypeOK, Spawn
  <2>2. LossIsReal'
    BY <1>2, <2>1 DEF TypeOK, LossIsReal, LaunchesAreTrue, PassIsTrue, Spawn
  <2>3. NoStrayProcess'
    BY <1>2, <2>1 DEF TypeOK, NoStrayProcess, LaunchesAreTrue, PassIsTrue, CancelsAreTold, Spawn
  <2>4. LaunchesAreTrue'
    BY <1>2, <2>1 DEF TypeOK, LaunchesAreTrue, PassIsTrue, Spawn
  <2>5. PassIsTrue'
    BY <1>2, <2>1 DEF TypeOK, PassIsTrue, LaunchesAreTrue, Spawn
  <2>6. CancelsAreTold'
    BY <1>2, <2>1 DEF TypeOK, CancelsAreTold, PassIsTrue, LaunchesAreTrue, Spawn
  <2>7. FailuresAreCounted'
    BY <1>2, <2>1 DEF TypeOK, FailuresAreCounted, PassIsTrue, LaunchesAreTrue, CancelsAreTold, Spawn
  <2>8. LeaseIsAhead'
    BY <1>2, <2>1
       DEF TypeOK, LeaseIsAhead, Unseen, PassIsTrue, LaunchesAreTrue, FailuresAreCounted, CancelsAreTold,
           Spawn
  <2> QED
    BY <2>1, <2>2, <2>3, <2>4, <2>5, <2>6, <2>7, <2>8 DEF SessionIInv, SessionInv
<1>3. CASE SpawnFails(s)
  <2>1. TypeOK'
    BY <1>3 DEF TypeOK, SpawnFails
  <2>2. LossIsReal'
    BY <1>3, <2>1 DEF TypeOK, LossIsReal, LaunchesAreTrue, PassIsTrue, SpawnFails
  <2>3. NoStrayProcess'
    BY <1>3, <2>1 DEF TypeOK, NoStrayProcess, LaunchesAreTrue, PassIsTrue, CancelsAreTold, SpawnFails
  <2>4. LaunchesAreTrue'
    BY <1>3, <2>1 DEF TypeOK, LaunchesAreTrue, PassIsTrue, SpawnFails
  <2>5. PassIsTrue'
    BY <1>3, <2>1 DEF TypeOK, PassIsTrue, LaunchesAreTrue, SpawnFails
  <2>6. CancelsAreTold'
    BY <1>3, <2>1 DEF TypeOK, CancelsAreTold, PassIsTrue, LaunchesAreTrue, SpawnFails
  <2>7. FailuresAreCounted'
    BY <1>3, <2>1 DEF TypeOK, FailuresAreCounted, PassIsTrue, LaunchesAreTrue, CancelsAreTold, SpawnFails
  <2>8. LeaseIsAhead'
    BY <1>3, <2>1
       DEF TypeOK, LeaseIsAhead, Unseen, PassIsTrue, LaunchesAreTrue, FailuresAreCounted, CancelsAreTold,
           SpawnFails
  <2> QED
    BY <2>1, <2>2, <2>3, <2>4, <2>5, <2>6, <2>7, <2>8 DEF SessionIInv, SessionInv
<1>4. CASE Register(s)
  <2>1. TypeOK'
    BY <1>4 DEF TypeOK, Register
  <2>2. LossIsReal'
    BY <1>4, <2>1 DEF TypeOK, LossIsReal, LaunchesAreTrue, PassIsTrue, Register
  <2>3. NoStrayProcess'
    BY <1>4, <2>1 DEF TypeOK, NoStrayProcess, LaunchesAreTrue, PassIsTrue, CancelsAreTold, Register
  <2>4. LaunchesAreTrue'
    BY <1>4, <2>1 DEF TypeOK, LaunchesAreTrue, PassIsTrue, Register
  <2>5. PassIsTrue'
    BY <1>4, <2>1 DEF TypeOK, PassIsTrue, LaunchesAreTrue, Register
  <2>6. CancelsAreTold'
    BY <1>4, <2>1 DEF TypeOK, CancelsAreTold, PassIsTrue, LaunchesAreTrue, Register
  <2>7. FailuresAreCounted'
    BY <1>4, <2>1 DEF TypeOK, FailuresAreCounted, PassIsTrue, LaunchesAreTrue, CancelsAreTold, Register
  <2>8. LeaseIsAhead'
    BY <1>4, <2>1
       DEF TypeOK, LeaseIsAhead, Unseen, PassIsTrue, LaunchesAreTrue, FailuresAreCounted, CancelsAreTold,
           Register
  <2> QED
    BY <2>1, <2>2, <2>3, <2>4, <2>5, <2>6, <2>7, <2>8 DEF SessionIInv, SessionInv
<1>5. CASE LaunchUndone(s)
  <2>1. TypeOK'
    BY <1>5 DEF TypeOK, LaunchUndone
  <2>2. LossIsReal'
    BY <1>5, <2>1 DEF TypeOK, LossIsReal, LaunchesAreTrue, PassIsTrue, LaunchUndone
  <2>3. NoStrayProcess'
    BY <1>5, <2>1 DEF TypeOK, NoStrayProcess, LaunchesAreTrue, PassIsTrue, CancelsAreTold, LaunchUndone
  <2>4. LaunchesAreTrue'
    BY <1>5, <2>1 DEF TypeOK, LaunchesAreTrue, PassIsTrue, LaunchUndone
  <2>5. PassIsTrue'
    BY <1>5, <2>1 DEF TypeOK, PassIsTrue, LaunchesAreTrue, LaunchUndone
  <2>6. CancelsAreTold'
    BY <1>5, <2>1 DEF TypeOK, CancelsAreTold, PassIsTrue, LaunchesAreTrue, LaunchUndone
  <2>7. FailuresAreCounted'
    BY <1>5, <2>1 DEF TypeOK, FailuresAreCounted, PassIsTrue, LaunchesAreTrue, CancelsAreTold, LaunchUndone
  <2>8. LeaseIsAhead'
    BY <1>5, <2>1
       DEF TypeOK, LeaseIsAhead, Unseen, PassIsTrue, LaunchesAreTrue, FailuresAreCounted, CancelsAreTold,
           LaunchUndone
  <2> QED
    BY <2>1, <2>2, <2>3, <2>4, <2>5, <2>6, <2>7, <2>8 DEF SessionIInv, SessionInv
<1> QED
  BY <1>1, <1>2, <1>3, <1>4, <1>5

(* So does what the process does and the adapter publishes.                *)
LEMMA ProcessKeepsSessionInv ==
  ASSUME SessionIInv, NEW s \in Sessions, Progress(s) \/ ProcessReports(s) \/ ProcessVanishes(s) \/ Killed(s)
  PROVE  SessionIInv'
<1> USE SessionsAssumption, TimesAssumption
   DEF SessionIInv, SessionInv, Alive, Active, Ended, Finish, Leave, Renewed, NoPass, attempt, session,
       watchdog
<1>1. CASE Progress(s)
  <2>1. TypeOK'
    BY <1>1 DEF TypeOK, Progress, SignOfLife
  <2>2. LossIsReal'
    BY <1>1, <2>1 DEF TypeOK, LossIsReal, LaunchesAreTrue, PassIsTrue, Progress, SignOfLife
  <2>3. NoStrayProcess'
    BY <1>1, <2>1
       DEF TypeOK, NoStrayProcess, LaunchesAreTrue, PassIsTrue, CancelsAreTold, Progress, SignOfLife
  <2>4. LaunchesAreTrue'
    BY <1>1, <2>1 DEF TypeOK, LaunchesAreTrue, PassIsTrue, Progress, SignOfLife
  <2>5. PassIsTrue'
    BY <1>1, <2>1 DEF TypeOK, PassIsTrue, LaunchesAreTrue, Progress, SignOfLife
  <2>6. CancelsAreTold'
    BY <1>1, <2>1 DEF TypeOK, CancelsAreTold, PassIsTrue, LaunchesAreTrue, Progress, SignOfLife
  <2>7. FailuresAreCounted'
    BY <1>1, <2>1
       DEF TypeOK, FailuresAreCounted, PassIsTrue, LaunchesAreTrue, CancelsAreTold, Progress, SignOfLife
  <2>8. LeaseIsAhead'
    BY <1>1, <2>1
       DEF TypeOK, LeaseIsAhead, Unseen, PassIsTrue, LaunchesAreTrue, FailuresAreCounted, CancelsAreTold,
           Progress, SignOfLife
  <2> QED
    BY <2>1, <2>2, <2>3, <2>4, <2>5, <2>6, <2>7, <2>8 DEF SessionIInv, SessionInv
<1>2. CASE ProcessReports(s)
  <2>1. TypeOK'
    BY <1>2 DEF TypeOK, ProcessReports, Report, Exit
  <2>2. LossIsReal'
    BY <1>2, <2>1 DEF TypeOK, LossIsReal, LaunchesAreTrue, PassIsTrue, ProcessReports, Report, Exit
  <2>3. NoStrayProcess'
    BY <1>2, <2>1
       DEF TypeOK, NoStrayProcess, LaunchesAreTrue, PassIsTrue, CancelsAreTold, ProcessReports, Report, Exit
  <2>4. LaunchesAreTrue'
    BY <1>2, <2>1 DEF TypeOK, LaunchesAreTrue, PassIsTrue, ProcessReports, Report, Exit
  <2>5. PassIsTrue'
    BY <1>2, <2>1 DEF TypeOK, PassIsTrue, LaunchesAreTrue, ProcessReports, Report, Exit
  <2>6. CancelsAreTold'
    BY <1>2, <2>1 DEF TypeOK, CancelsAreTold, PassIsTrue, LaunchesAreTrue, ProcessReports, Report, Exit
  <2>7. FailuresAreCounted'
    BY <1>2, <2>1
       DEF TypeOK, FailuresAreCounted, PassIsTrue, LaunchesAreTrue, CancelsAreTold, ProcessReports, Report,
           Exit
  <2>8. LeaseIsAhead'
    BY <1>2, <2>1
       DEF TypeOK, LeaseIsAhead, Unseen, PassIsTrue, LaunchesAreTrue, FailuresAreCounted, CancelsAreTold,
           ProcessReports, Report, Exit
  <2> QED
    BY <2>1, <2>2, <2>3, <2>4, <2>5, <2>6, <2>7, <2>8 DEF SessionIInv, SessionInv
<1>3. CASE ProcessVanishes(s)
  <2>1. TypeOK'
    BY <1>3 DEF TypeOK, ProcessVanishes, Exit
  <2>2. LossIsReal'
    BY <1>3, <2>1 DEF TypeOK, LossIsReal, LaunchesAreTrue, PassIsTrue, ProcessVanishes, Exit
  <2>3. NoStrayProcess'
    BY <1>3, <2>1
       DEF TypeOK, NoStrayProcess, LaunchesAreTrue, PassIsTrue, CancelsAreTold, ProcessVanishes, Exit
  <2>4. LaunchesAreTrue'
    BY <1>3, <2>1 DEF TypeOK, LaunchesAreTrue, PassIsTrue, ProcessVanishes, Exit
  <2>5. PassIsTrue'
    BY <1>3, <2>1 DEF TypeOK, PassIsTrue, LaunchesAreTrue, ProcessVanishes, Exit
  <2>6. CancelsAreTold'
    BY <1>3, <2>1 DEF TypeOK, CancelsAreTold, PassIsTrue, LaunchesAreTrue, ProcessVanishes, Exit
  <2>7. FailuresAreCounted'
    BY <1>3, <2>1
       DEF TypeOK, FailuresAreCounted, PassIsTrue, LaunchesAreTrue, CancelsAreTold, ProcessVanishes, Exit
  <2>8. LeaseIsAhead'
    BY <1>3, <2>1
       DEF TypeOK, LeaseIsAhead, Unseen, PassIsTrue, LaunchesAreTrue, FailuresAreCounted, CancelsAreTold,
           ProcessVanishes, Exit
  <2> QED
    BY <2>1, <2>2, <2>3, <2>4, <2>5, <2>6, <2>7, <2>8 DEF SessionIInv, SessionInv
<1>4. CASE Killed(s)
  <2>1. TypeOK'
    BY <1>4 DEF TypeOK, Killed, Report, Exit
  <2>2. LossIsReal'
    BY <1>4, <2>1 DEF TypeOK, LossIsReal, LaunchesAreTrue, PassIsTrue, Killed, Report, Exit
  <2>3. NoStrayProcess'
    BY <1>4, <2>1
       DEF TypeOK, NoStrayProcess, LaunchesAreTrue, PassIsTrue, CancelsAreTold, Killed, Report, Exit
  <2>4. LaunchesAreTrue'
    BY <1>4, <2>1 DEF TypeOK, LaunchesAreTrue, PassIsTrue, Killed, Report, Exit
  <2>5. PassIsTrue'
    BY <1>4, <2>1 DEF TypeOK, PassIsTrue, LaunchesAreTrue, Killed, Report, Exit
  <2>6. CancelsAreTold'
    BY <1>4, <2>1 DEF TypeOK, CancelsAreTold, PassIsTrue, LaunchesAreTrue, Killed, Report, Exit
  <2>7. FailuresAreCounted'
    BY <1>4, <2>1
       DEF TypeOK, FailuresAreCounted, PassIsTrue, LaunchesAreTrue, CancelsAreTold, Killed, Report, Exit
  <2>8. LeaseIsAhead'
    BY <1>4, <2>1
       DEF TypeOK, LeaseIsAhead, Unseen, PassIsTrue, LaunchesAreTrue, FailuresAreCounted, CancelsAreTold,
           Killed, Report, Exit
  <2> QED
    BY <2>1, <2>2, <2>3, <2>4, <2>5, <2>6, <2>7, <2>8 DEF SessionIInv, SessionInv
<1> QED
  BY <1>1, <1>2, <1>3, <1>4

(* So do the stops of the user.                                            *)
LEMMA StopKeepsSessionInv ==
  ASSUME SessionIInv, NEW s \in Sessions, BeginStop(s) \/ EndStop(s) \/ StopFails(s)
  PROVE  SessionIInv'
<1> USE SessionsAssumption, TimesAssumption
   DEF SessionIInv, SessionInv, Alive, Active, Ended, Finish, Leave, Renewed, NoPass, attempt, session,
       watchdog
<1>1. CASE BeginStop(s)
  <2>1. TypeOK'
    BY <1>1 DEF TypeOK, BeginStop
  <2>2. LossIsReal'
    BY <1>1, <2>1 DEF TypeOK, LossIsReal, LaunchesAreTrue, PassIsTrue, BeginStop
  <2>3. NoStrayProcess'
    BY <1>1, <2>1 DEF TypeOK, NoStrayProcess, LaunchesAreTrue, PassIsTrue, CancelsAreTold, BeginStop
  <2>4. LaunchesAreTrue'
    BY <1>1, <2>1 DEF TypeOK, LaunchesAreTrue, PassIsTrue, BeginStop
  <2>5. PassIsTrue'
    BY <1>1, <2>1 DEF TypeOK, PassIsTrue, LaunchesAreTrue, BeginStop
  <2>6. CancelsAreTold'
    BY <1>1, <2>1 DEF TypeOK, CancelsAreTold, PassIsTrue, LaunchesAreTrue, BeginStop
  <2>7. FailuresAreCounted'
    BY <1>1, <2>1 DEF TypeOK, FailuresAreCounted, PassIsTrue, LaunchesAreTrue, CancelsAreTold, BeginStop
  <2>8. LeaseIsAhead'
    BY <1>1, <2>1
       DEF TypeOK, LeaseIsAhead, Unseen, PassIsTrue, LaunchesAreTrue, FailuresAreCounted, CancelsAreTold,
           BeginStop
  <2> QED
    BY <2>1, <2>2, <2>3, <2>4, <2>5, <2>6, <2>7, <2>8 DEF SessionIInv, SessionInv
<1>2. CASE EndStop(s)
  <2>1. TypeOK'
    BY <1>2 DEF TypeOK, EndStop
  <2>2. LossIsReal'
    BY <1>2, <2>1 DEF TypeOK, LossIsReal, LaunchesAreTrue, PassIsTrue, EndStop
  <2>3. NoStrayProcess'
    BY <1>2, <2>1 DEF TypeOK, NoStrayProcess, LaunchesAreTrue, PassIsTrue, CancelsAreTold, EndStop
  <2>4. LaunchesAreTrue'
    BY <1>2, <2>1 DEF TypeOK, LaunchesAreTrue, PassIsTrue, EndStop
  <2>5. PassIsTrue'
    BY <1>2, <2>1 DEF TypeOK, PassIsTrue, LaunchesAreTrue, EndStop
  <2>6. CancelsAreTold'
    BY <1>2, <2>1 DEF TypeOK, CancelsAreTold, PassIsTrue, LaunchesAreTrue, EndStop
  <2>7. FailuresAreCounted'
    BY <1>2, <2>1 DEF TypeOK, FailuresAreCounted, PassIsTrue, LaunchesAreTrue, CancelsAreTold, EndStop
  <2>8. LeaseIsAhead'
    BY <1>2, <2>1
       DEF TypeOK, LeaseIsAhead, Unseen, PassIsTrue, LaunchesAreTrue, FailuresAreCounted, CancelsAreTold,
           EndStop
  <2> QED
    BY <2>1, <2>2, <2>3, <2>4, <2>5, <2>6, <2>7, <2>8 DEF SessionIInv, SessionInv
<1>3. CASE StopFails(s)
  <2>1. TypeOK'
    BY <1>3 DEF TypeOK, StopFails
  <2>2. LossIsReal'
    BY <1>3, <2>1 DEF TypeOK, LossIsReal, LaunchesAreTrue, PassIsTrue, StopFails
  <2>3. NoStrayProcess'
    BY <1>3, <2>1 DEF TypeOK, NoStrayProcess, LaunchesAreTrue, PassIsTrue, CancelsAreTold, StopFails
  <2>4. LaunchesAreTrue'
    BY <1>3, <2>1 DEF TypeOK, LaunchesAreTrue, PassIsTrue, StopFails
  <2>5. PassIsTrue'
    BY <1>3, <2>1 DEF TypeOK, PassIsTrue, LaunchesAreTrue, StopFails
  <2>6. CancelsAreTold'
    BY <1>3, <2>1 DEF TypeOK, CancelsAreTold, PassIsTrue, LaunchesAreTrue, StopFails
  <2>7. FailuresAreCounted'
    BY <1>3, <2>1 DEF TypeOK, FailuresAreCounted, PassIsTrue, LaunchesAreTrue, CancelsAreTold, StopFails
  <2>8. LeaseIsAhead'
    BY <1>3, <2>1
       DEF TypeOK, LeaseIsAhead, Unseen, PassIsTrue, LaunchesAreTrue, FailuresAreCounted, CancelsAreTold,
           StopFails
  <2> QED
    BY <2>1, <2>2, <2>3, <2>4, <2>5, <2>6, <2>7, <2>8 DEF SessionIInv, SessionInv
<1> QED
  BY <1>1, <1>2, <1>3

(* So do the timer, the pass of the watchdog and a restart.                *)
LEMMA PassKeepsSessionInv ==
  ASSUME SessionIInv, Tick \/ BeginPass \/ ExpireStale \/ EndPass \/ Restart
  PROVE  SessionIInv'
<1> USE SessionsAssumption, TimesAssumption
   DEF SessionIInv, SessionInv, Alive, Active, Ended, Finish, Leave, Renewed, NoPass, attempt, session,
       watchdog
<1>1. CASE Tick
  <2>1. TypeOK'
    <3>1. lease' \in [Sessions -> -1 .. Timeout] /\ idle' \in [Sessions -> 0 .. IdleGrace + 1]
      BY <1>1 DEF TypeOK, Tick
    <3>2. pass \in Passes /\ due \in BOOLEAN
      BY DEF TypeOK, Passes
    <3>3. pass' = pass \/ pass' = [pass EXCEPT !.age = 1]
      BY <1>1 DEF Tick
    <3>4. pass' \in Passes
      BY <3>2, <3>3 DEF Passes
    <3>5. due' \in BOOLEAN
      BY <1>1, <3>2 DEF Tick
    <3> QED
      BY <1>1, <3>1, <3>4, <3>5 DEF TypeOK, Passes, Tick
  <2>2. LossIsReal'
    BY <1>1, <2>1 DEF TypeOK, LossIsReal, LaunchesAreTrue, PassIsTrue, Tick
  <2>3. NoStrayProcess'
    BY <1>1, <2>1 DEF TypeOK, NoStrayProcess, LaunchesAreTrue, PassIsTrue, CancelsAreTold, Tick
  <2>4. LaunchesAreTrue'
    BY <1>1, <2>1 DEF TypeOK, LaunchesAreTrue, PassIsTrue, Tick
  <2>5. PassIsTrue'
    BY <1>1, <2>1 DEF TypeOK, PassIsTrue, LaunchesAreTrue, Tick
  <2>6. CancelsAreTold'
    BY <1>1, <2>1 DEF TypeOK, CancelsAreTold, PassIsTrue, LaunchesAreTrue, Tick
  <2>7. FailuresAreCounted'
    BY <1>1, <2>1 DEF TypeOK, FailuresAreCounted, PassIsTrue, LaunchesAreTrue, CancelsAreTold, Tick
  <2>8. LeaseIsAhead'
    BY <1>1, <2>1
       DEF TypeOK, LeaseIsAhead, Unseen, PassIsTrue, LaunchesAreTrue, FailuresAreCounted, CancelsAreTold,
           Tick
  <2> QED
    BY <2>1, <2>2, <2>3, <2>4, <2>5, <2>6, <2>7, <2>8 DEF SessionIInv, SessionInv
<1>2. CASE BeginPass
  <2>0. /\ \A s \in Sessions : failures'[s] = (IF s \in Waiting THEN 0 ELSE failures[s])
        /\ pass'.probing = Watched \ (Waiting \cup Fresh)
    BY <1>2 DEF BeginPass
  <2>1. TypeOK'
    <3>1. lease' \in [Sessions -> -1 .. Timeout]
      BY <1>2 DEF TypeOK, BeginPass, Watched, Waiting, Fresh
    <3>2. idle' \in [Sessions -> 0 .. IdleGrace + 1] /\ failures' \in [Sessions -> 0 .. MaxProbeFailures]
      BY <1>2 DEF TypeOK, BeginPass, Watched, Waiting, Fresh
    <3>3. pass' = [phase |-> "sessions", probing |-> Watched \ (Waiting \cup Fresh), killing |-> {}, expired |-> {}, age |-> 0]
      BY <1>2 DEF BeginPass
    <3>4. Watched \ (Waiting \cup Fresh) \in SUBSET Sessions
      BY DEF Watched, TypeOK
    <3>5. pass' \in Passes
      BY <3>3, <3>4 DEF Passes
    <3>6. due' \in BOOLEAN
      BY <1>2 DEF BeginPass
    <3> QED
      BY <1>2, <3>1, <3>2, <3>5, <3>6 DEF TypeOK, Passes, BeginPass, Watched, Waiting, Fresh
  <2>2. LossIsReal'
    BY <1>2, <2>1 DEF TypeOK, LossIsReal, LaunchesAreTrue, PassIsTrue, BeginPass, Watched, Waiting, Fresh
  <2>3. NoStrayProcess'
    BY <1>2, <2>1
       DEF TypeOK, NoStrayProcess, LaunchesAreTrue, PassIsTrue, CancelsAreTold, BeginPass, Watched, Waiting,
           Fresh
  <2>4. LaunchesAreTrue'
    BY <1>2, <2>1 DEF TypeOK, LaunchesAreTrue, PassIsTrue, BeginPass, Watched, Waiting, Fresh
  <2>5. PassIsTrue'
    BY <1>2, <2>1 DEF TypeOK, PassIsTrue, LaunchesAreTrue, BeginPass, Watched, Waiting, Fresh
  <2>6. CancelsAreTold'
    BY <1>2, <2>1 DEF TypeOK, CancelsAreTold, PassIsTrue, LaunchesAreTrue, BeginPass, Watched, Waiting, Fresh
  <2>7. FailuresAreCounted'
    <3>1. \A s \in pass'.probing : proc[s] # "waiting"
      BY <2>0 DEF Watched, Waiting
    <3>2. UNCHANGED <<known, finishing, marked, proc>>
      BY <1>2 DEF BeginPass
    <3> QED
      BY <2>0, <3>1, <3>2 DEF TypeOK, FailuresAreCounted
  <2>8. LeaseIsAhead'
    <3> SUFFICES ASSUME NEW s \in known \ (marked \cup finishing), Alive(s), row[s] = "running"
                 PROVE  (lease[s] + pass.age + Unseen(s) >= Timeout - 2 * failures[s])'
      BY <1>2 DEF LeaseIsAhead, BeginPass, Alive
    <3>1. s \in Sessions /\ failures[s] \in Nat /\ failures'[s] \in Nat /\ pass.age = 0 /\ pass'.age = 0 /\ due /\ ~due'
      BY <1>2, <2>1 DEF TypeOK, BeginPass, PassIsTrue
    <3>2. CASE s \in Waiting \cup Fresh
      <4>1. lease'[s] = Timeout
        BY <1>2, <3>1, <3>2 DEF BeginPass
      <4> QED
        BY <3>1, <4>1 DEF Unseen
    <3>3. CASE s \notin Waiting \cup Fresh
      <4>1. s \in pass'.probing /\ failures'[s] = failures[s]
        BY <1>2, <2>0, <3>1, <3>3 DEF Watched, TypeOK
      <4>2. lease'[s] = lease[s]
        BY <1>2, <3>1, <3>3 DEF BeginPass
      <4> QED
        BY <3>1, <4>1, <4>2 DEF Unseen, LeaseIsAhead
    <3> QED
      BY <3>2, <3>3
  <2> QED
    BY <2>1, <2>2, <2>3, <2>4, <2>5, <2>6, <2>7, <2>8 DEF SessionIInv, SessionInv
<1>3. CASE ExpireStale
  <2>0. /\ \A s \in Sessions : row'[s] = (IF s \in Stale THEN "expired" ELSE row[s])
        /\ \A s \in Sessions : lease'[s] = (IF s \in Stale THEN 0 ELSE lease[s])
        /\ pass.phase = "sessions" /\ pass.probing = {} /\ pass.killing = {}
        /\ pass' = [pass EXCEPT !.phase = "leases", !.expired = Stale] /\ marked' = marked \cup {s \in Stale : s \in known \ finishing}
        /\ UNCHANGED <<launch, proc, known, idle, failures, finishing, stopping, due, lost, crashes>>
    BY <1>3 DEF ExpireStale, Stale
  <2>1. TypeOK'
    <3>1. row' \in [Sessions -> {"none"} \cup Active \cup Ended] /\ lease' \in [Sessions -> -1 .. Timeout]
      BY <1>3 DEF TypeOK, ExpireStale
    <3>2. pass' \in [phase : {"none", "sessions", "leases"}, probing : SUBSET Sessions, killing : SUBSET Sessions,
                     expired : SUBSET Sessions, age : 0 .. 1] /\ marked' \subseteq Sessions
      BY <1>3 DEF TypeOK, ExpireStale
    <3> QED
      BY <2>0, <3>1, <3>2 DEF TypeOK
  <2>2. LossIsReal'
    BY <1>3, <2>1 DEF TypeOK, LossIsReal, LaunchesAreTrue, PassIsTrue, ExpireStale
  <2>3. NoStrayProcess'
    BY <1>3, <2>1 DEF TypeOK, NoStrayProcess, LaunchesAreTrue, PassIsTrue, CancelsAreTold, ExpireStale
  <2>4. LaunchesAreTrue'
    BY <1>3, <2>1 DEF TypeOK, LaunchesAreTrue, PassIsTrue, ExpireStale
  <2>5. PassIsTrue'
    <3>1. pass'.expired = Stale /\ pass'.phase = "leases" /\ pass'.killing = {} /\ pass'.probing = {}
      BY <2>0 DEF TypeOK
    <3>2. ~due /\ Stale \subseteq Sessions
      BY <2>0 DEF PassIsTrue, Stale
    <3> QED
      BY <2>0, <3>1, <3>2 DEF PassIsTrue
  <2>6. CancelsAreTold'
    BY <1>3, <2>1 DEF TypeOK, CancelsAreTold, PassIsTrue, LaunchesAreTrue, ExpireStale
  <2>7. FailuresAreCounted'
    BY <1>3, <2>1 DEF TypeOK, FailuresAreCounted, PassIsTrue, LaunchesAreTrue, CancelsAreTold, ExpireStale
  <2>8. LeaseIsAhead'
    <3> SUFFICES ASSUME NEW s \in known \ (marked \cup finishing), Alive(s), row[s] = "running", row'[s] = row[s]
                 PROVE  (lease[s] + pass.age + Unseen(s) >= Timeout - 2 * failures[s])'
      BY <2>0 DEF LeaseIsAhead, TypeOK, Stale
    <3>1. s \in Sessions /\ lease'[s] = lease[s] /\ pass'.age = pass.age /\ pass'.probing = {} /\ pass # NoPass /\ ~due
      BY <2>0 DEF TypeOK, PassIsTrue
    <3>2. Unseen(s) = 0 /\ Unseen(s)' = 0
      BY <2>0, <3>1 DEF Unseen, TypeOK
    <3> QED
      BY <2>0, <3>1, <3>2 DEF LeaseIsAhead
  <2> QED
    BY <2>1, <2>2, <2>3, <2>4, <2>5, <2>6, <2>7, <2>8 DEF SessionIInv, SessionInv
<1>4. CASE EndPass
  <2>1. TypeOK'
    BY <1>4 DEF TypeOK, EndPass
  <2>2. LossIsReal'
    BY <1>4, <2>1 DEF TypeOK, LossIsReal, LaunchesAreTrue, PassIsTrue, EndPass
  <2>3. NoStrayProcess'
    BY <1>4, <2>1 DEF TypeOK, NoStrayProcess, LaunchesAreTrue, PassIsTrue, CancelsAreTold, EndPass
  <2>4. LaunchesAreTrue'
    BY <1>4, <2>1 DEF TypeOK, LaunchesAreTrue, PassIsTrue, EndPass
  <2>5. PassIsTrue'
    BY <1>4, <2>1 DEF TypeOK, PassIsTrue, LaunchesAreTrue, EndPass
  <2>6. CancelsAreTold'
    BY <1>4, <2>1 DEF TypeOK, CancelsAreTold, PassIsTrue, LaunchesAreTrue, EndPass
  <2>7. FailuresAreCounted'
    BY <1>4, <2>1 DEF TypeOK, FailuresAreCounted, PassIsTrue, LaunchesAreTrue, CancelsAreTold, EndPass
  <2>8. LeaseIsAhead'
    BY <1>4, <2>1
       DEF TypeOK, LeaseIsAhead, Unseen, PassIsTrue, LaunchesAreTrue, FailuresAreCounted, CancelsAreTold,
           EndPass
  <2> QED
    BY <2>1, <2>2, <2>3, <2>4, <2>5, <2>6, <2>7, <2>8 DEF SessionIInv, SessionInv
<1>5. CASE Restart
  <2>1. TypeOK'
    <3>1. row' \in [Sessions -> {"none"} \cup Active \cup Ended] /\ lease' \in [Sessions -> -1 .. Timeout]
      BY <1>5 DEF TypeOK, Restart
    <3>2. launch' \in [Sessions -> {"none", "claimed", "spawned", "undo", "over"}] /\ proc' \in [Sessions -> {"none", "working", "waiting", "dead"}]
      BY <1>5 DEF TypeOK, Restart
    <3>3. idle' \in [Sessions -> 0 .. IdleGrace + 1] /\ failures' \in [Sessions -> 0 .. MaxProbeFailures]
      BY <1>5 DEF TypeOK, Restart
    <3>4. crashes' \in 0 .. MaxCrashes
      BY <1>5 DEF TypeOK, Restart
    <3>5. /\ known' = {} /\ finishing' = {} /\ marked' = {} /\ stopping' = {} /\ pass' = NoPass /\ due' = FALSE /\ lost' = lost
      BY <1>5 DEF Restart
    <3>6. lost \subseteq Sessions
      BY DEF TypeOK
    <3> HIDE DEF NoPass
    <3>7. pass' \in Passes
      BY <3>5, NoPassIsPass
    <3> QED
      BY <3>1, <3>2, <3>3, <3>4, <3>5, <3>6, <3>7, ZenonT(40) DEF TypeOK, Passes
  <2>2. LossIsReal'
    BY <1>5, <2>1 DEF TypeOK, LossIsReal, LaunchesAreTrue, PassIsTrue, Restart
  <2>3. NoStrayProcess'
    BY <1>5, <2>1 DEF TypeOK, NoStrayProcess, LaunchesAreTrue, PassIsTrue, CancelsAreTold, Restart
  <2>4. LaunchesAreTrue'
    BY <1>5, <2>1 DEF TypeOK, LaunchesAreTrue, PassIsTrue, Restart
  <2>5. PassIsTrue'
    BY <1>5, <2>1 DEF TypeOK, PassIsTrue, LaunchesAreTrue, Restart
  <2>6. CancelsAreTold'
    BY <1>5, <2>1 DEF TypeOK, CancelsAreTold, PassIsTrue, LaunchesAreTrue, Restart
  <2>7. FailuresAreCounted'
    BY <1>5, <2>1 DEF TypeOK, FailuresAreCounted, PassIsTrue, LaunchesAreTrue, CancelsAreTold, Restart
  <2>8. LeaseIsAhead'
    BY <1>5, <2>1
       DEF TypeOK, LeaseIsAhead, Unseen, PassIsTrue, LaunchesAreTrue, FailuresAreCounted, CancelsAreTold,
           Restart
  <2> QED
    BY <2>1, <2>2, <2>3, <2>4, <2>5, <2>6, <2>7, <2>8 DEF SessionIInv, SessionInv
<1> QED
  BY <1>1, <1>2, <1>3, <1>4, <1>5

(* So do the probes and what they end.                                     *)
LEMMA ProbeKeepsSessionInv ==
  ASSUME SessionIInv, NEW s \in Sessions, ProbeAnswers(s) \/ ProbeFails(s) \/ ProbeExpires(s) \/ ReportStale(s)
  PROVE  SessionIInv'
<1> USE SessionsAssumption, TimesAssumption
   DEF SessionIInv, SessionInv, Alive, Active, Ended, Finish, Leave, Renewed, NoPass, attempt, session,
       watchdog
<1>1. CASE ProbeAnswers(s)
  <2>1. TypeOK'
    BY <1>1 DEF TypeOK, ProbeAnswers
  <2>2. LossIsReal'
    BY <1>1, <2>1 DEF TypeOK, LossIsReal, LaunchesAreTrue, PassIsTrue, ProbeAnswers
  <2>3. NoStrayProcess'
    BY <1>1, <2>1 DEF TypeOK, NoStrayProcess, LaunchesAreTrue, PassIsTrue, CancelsAreTold, ProbeAnswers
  <2>4. LaunchesAreTrue'
    BY <1>1, <2>1 DEF TypeOK, LaunchesAreTrue, PassIsTrue, ProbeAnswers
  <2>5. PassIsTrue'
    BY <1>1, <2>1 DEF TypeOK, PassIsTrue, LaunchesAreTrue, ProbeAnswers
  <2>6. CancelsAreTold'
    BY <1>1, <2>1 DEF TypeOK, CancelsAreTold, PassIsTrue, LaunchesAreTrue, ProbeAnswers
  <2>7. FailuresAreCounted'
    BY <1>1, <2>1 DEF TypeOK, FailuresAreCounted, PassIsTrue, LaunchesAreTrue, CancelsAreTold, ProbeAnswers
  <2>8. LeaseIsAhead'
    BY <1>1, <2>1
       DEF TypeOK, LeaseIsAhead, Unseen, PassIsTrue, LaunchesAreTrue, FailuresAreCounted, CancelsAreTold,
           ProbeAnswers
  <2> QED
    BY <2>1, <2>2, <2>3, <2>4, <2>5, <2>6, <2>7, <2>8 DEF SessionIInv, SessionInv
<1>2. CASE ProbeFails(s)
  <2>a. s \in pass.probing /\ failures' = [failures EXCEPT ![s] = IF @ < MaxProbeFailures THEN @ + 1 ELSE @]
    BY <1>2 DEF ProbeFails
  <2>b. failures'[s] = (IF failures[s] < MaxProbeFailures THEN failures[s] + 1 ELSE failures[s]) /\ \A t \in Sessions : t # s => failures'[t] = failures[t]
    BY <2>a DEF TypeOK
  <2>c. /\ \/ /\ failures'[s] >= MaxProbeFailures /\ finishing' = finishing \cup {s} /\ marked' = marked \cup {s}
              /\ pass' = [pass EXCEPT !.probing = @ \ {s}, !.killing = @ \cup {s}]
           \/ /\ failures'[s] < MaxProbeFailures /\ UNCHANGED <<finishing, marked>>
              /\ pass' = [pass EXCEPT !.probing = @ \ {s}]
        /\ UNCHANGED <<row, lease, launch, proc, known, idle, stopping, due, lost, crashes>>
    BY <1>2, <2>b DEF ProbeFails, GivesUp, TypeOK
  <2>0. /\ s \in pass.probing /\ pass'.probing = pass.probing \ {s}
        /\ \/ /\ failures'[s] >= MaxProbeFailures /\ finishing' = finishing \cup {s} /\ marked' = marked \cup {s}
              /\ pass'.killing = pass.killing \cup {s}
           \/ /\ failures'[s] < MaxProbeFailures /\ UNCHANGED <<finishing, marked>>
              /\ pass'.killing = pass.killing
        /\ pass'.phase = pass.phase /\ pass'.expired = pass.expired /\ pass'.age = pass.age
        /\ UNCHANGED <<row, lease, launch, proc, known, idle, stopping, due, lost, crashes>>
    BY <2>a, <2>c DEF TypeOK
  <2>d. pass # NoPass /\ ~due
    BY <2>0 DEF PassIsTrue
  <2>1. TypeOK'
    <3>0. pass \in Passes /\ s \in Sessions
      BY DEF TypeOK, Passes
    <3>p. /\ pass.probing \ {s} \in SUBSET Sessions /\ pass.killing \cup {s} \in SUBSET Sessions
          /\ finishing' \subseteq Sessions /\ marked' \subseteq Sessions
      BY <2>c, <3>0 DEF TypeOK, Passes
    <3>1. pass' \in Passes
      BY <2>c, <3>0, <3>p DEF Passes
    <3>2. failures' \in [Sessions -> 0 .. MaxProbeFailures]
      BY <1>2 DEF TypeOK, ProbeFails
    <3> QED
      BY <2>0, <3>p, <3>1, <3>2 DEF TypeOK, Passes
  <2>2. LossIsReal'
    BY <2>0, <2>1, <2>b, <2>d DEF TypeOK, LossIsReal, LaunchesAreTrue, PassIsTrue
  <2>3. NoStrayProcess'
    BY <2>0, <2>1, <2>b, <2>d DEF TypeOK, NoStrayProcess, LaunchesAreTrue, PassIsTrue, CancelsAreTold
  <2>4. LaunchesAreTrue'
    BY <2>0, <2>1, <2>b, <2>d DEF TypeOK, LaunchesAreTrue, PassIsTrue
  <2>5. PassIsTrue'
    BY <2>0, <2>1, <2>b, <2>d DEF TypeOK, PassIsTrue, LaunchesAreTrue
  <2>6. CancelsAreTold'
    BY <2>0, <2>1, <2>b, <2>d DEF TypeOK, CancelsAreTold, PassIsTrue, LaunchesAreTrue
  <2>7. FailuresAreCounted'
    BY <2>0, <2>1, <2>b, <2>d DEF TypeOK, FailuresAreCounted, PassIsTrue, LaunchesAreTrue, CancelsAreTold
  <2>8. LeaseIsAhead'
    BY <2>0, <2>1, <2>b, <2>d
       DEF TypeOK, LeaseIsAhead, Unseen, PassIsTrue, LaunchesAreTrue, FailuresAreCounted, CancelsAreTold
  <2> QED
    BY <2>1, <2>2, <2>3, <2>4, <2>5, <2>6, <2>7, <2>8 DEF SessionIInv, SessionInv
<1>3. CASE ProbeExpires(s)
  <2>1. TypeOK'
    BY <1>3 DEF TypeOK, ProbeExpires
  <2>2. LossIsReal'
    BY <1>3, <2>1 DEF TypeOK, LossIsReal, LaunchesAreTrue, PassIsTrue, ProbeExpires
  <2>3. NoStrayProcess'
    BY <1>3, <2>1 DEF TypeOK, NoStrayProcess, LaunchesAreTrue, PassIsTrue, CancelsAreTold, ProbeExpires
  <2>4. LaunchesAreTrue'
    BY <1>3, <2>1 DEF TypeOK, LaunchesAreTrue, PassIsTrue, ProbeExpires
  <2>5. PassIsTrue'
    BY <1>3, <2>1 DEF TypeOK, PassIsTrue, LaunchesAreTrue, ProbeExpires
  <2>6. CancelsAreTold'
    BY <1>3, <2>1 DEF TypeOK, CancelsAreTold, PassIsTrue, LaunchesAreTrue, ProbeExpires
  <2>7. FailuresAreCounted'
    BY <1>3, <2>1 DEF TypeOK, FailuresAreCounted, PassIsTrue, LaunchesAreTrue, CancelsAreTold, ProbeExpires
  <2>8. LeaseIsAhead'
    BY <1>3, <2>1
       DEF TypeOK, LeaseIsAhead, Unseen, PassIsTrue, LaunchesAreTrue, FailuresAreCounted, CancelsAreTold,
           ProbeExpires
  <2> QED
    BY <2>1, <2>2, <2>3, <2>4, <2>5, <2>6, <2>7, <2>8 DEF SessionIInv, SessionInv
<1>4. CASE ReportStale(s)
  <2>1. TypeOK'
    BY <1>4 DEF TypeOK, ReportStale
  <2>2. LossIsReal'
    BY <1>4, <2>1 DEF TypeOK, LossIsReal, LaunchesAreTrue, PassIsTrue, ReportStale
  <2>3. NoStrayProcess'
    BY <1>4, <2>1 DEF TypeOK, NoStrayProcess, LaunchesAreTrue, PassIsTrue, CancelsAreTold, ReportStale
  <2>4. LaunchesAreTrue'
    BY <1>4, <2>1 DEF TypeOK, LaunchesAreTrue, PassIsTrue, ReportStale
  <2>5. PassIsTrue'
    BY <1>4, <2>1 DEF TypeOK, PassIsTrue, LaunchesAreTrue, ReportStale
  <2>6. CancelsAreTold'
    BY <1>4, <2>1 DEF TypeOK, CancelsAreTold, PassIsTrue, LaunchesAreTrue, ReportStale
  <2>7. FailuresAreCounted'
    BY <1>4, <2>1 DEF TypeOK, FailuresAreCounted, PassIsTrue, LaunchesAreTrue, CancelsAreTold, ReportStale
  <2>8. LeaseIsAhead'
    BY <1>4, <2>1
       DEF TypeOK, LeaseIsAhead, Unseen, PassIsTrue, LaunchesAreTrue, FailuresAreCounted, CancelsAreTold,
           ReportStale
  <2> QED
    BY <2>1, <2>2, <2>3, <2>4, <2>5, <2>6, <2>7, <2>8 DEF SessionIInv, SessionInv
<1> QED
  BY <1>1, <1>2, <1>3, <1>4

(* So does every step.                                                     *)
LEMMA SessionInvKept == SessionIInv /\ [Next]_vars => SessionIInv'
<1> SUFFICES ASSUME SessionIInv, [Next]_vars
             PROVE  SessionIInv'
  OBVIOUS
<1>1. CASE UNCHANGED vars
  BY <1>1
     DEF vars, attempt, session, watchdog, SessionIInv, SessionInv, TypeOK, LossIsReal, NoStrayProcess,
         LaunchesAreTrue, PassIsTrue,
              CancelsAreTold, FailuresAreCounted, LeaseIsAhead, Unseen, Alive
<1>2. CASE Next
  BY <1>2, LaunchKeepsSessionInv, ProcessKeepsSessionInv, StopKeepsSessionInv, PassKeepsSessionInv,
     ProbeKeepsSessionInv
     DEF Next, LaunchStep, ProcessStep, StopStep, WatchdogStep
<1> QED
  BY <1>1, <1>2

(* It holds before anything is launched.                                   *)
LEMMA SessionInvStarts == Init => SessionIInv
<1> SUFFICES ASSUME Init PROVE SessionIInv
  OBVIOUS
<1> USE SessionsAssumption, TimesAssumption DEF Init
<1>a. pass \in Passes
  BY NoPassIsPass
<1>b. lease \in [Sessions -> -1 .. Timeout] /\ idle \in [Sessions -> 0 .. IdleGrace + 1] /\ failures \in [Sessions -> 0 .. MaxProbeFailures]
  OBVIOUS
<1>c. /\ row \in [Sessions -> {"none"} \cup Active \cup Ended]
      /\ launch \in [Sessions -> {"none", "claimed", "spawned", "undo", "over"}]
      /\ proc \in [Sessions -> {"none", "working", "waiting", "dead"}]
  OBVIOUS
<1>d. /\ known = {} /\ finishing = {} /\ marked = {} /\ stopping = {} /\ lost = {}
      /\ crashes \in 0 .. MaxCrashes
  OBVIOUS
<1>e. due \in BOOLEAN
  BY Zenon
<1>1. TypeOK
  <2> HIDE DEF Init
  <2> QED
    BY <1>a, <1>b, <1>c, <1>d, <1>e DEF TypeOK, Passes
<1> QED
  BY <1>1
     DEF SessionIInv, SessionInv, LossIsReal, NoStrayProcess, LaunchesAreTrue, PassIsTrue, CancelsAreTold,
              FailuresAreCounted, LeaseIsAhead, Alive, NoPass, Ended

(* What a step may do to the attempt of one session.                       *)
JustStep(s) ==
  /\ row[s] \in Ended => row'[s] = row[s]
  /\ s \in known \ marked /\ proc[s] = "waiting" /\ row[s] = "running" /\ crashes' = crashes
       => row'[s] # "expired" /\ s \notin finishing' \ finishing
  /\ s \in known /\ Alive(s) /\ row[s] \in Active /\ row'[s] = "expired"
       => s \in finishing \/ s \in marked \/ crashes' # crashes
  /\ s \in Guarded /\ s \in stopping /\ row[s] \in Active => row'[s] \notin {"completed", "failed"}

(* A lease that outlasts the probes that may fail takes no live session.   *)
LEMMA LeaseSparesTheLiving ==
  ASSUME Patient, SessionIInv, ExpireStale, NEW s \in known \ (marked \cup finishing), Alive(s), row[s] = "running"
  PROVE  row'[s] = row[s]
<1> USE TimesAssumption
<1>1. /\ s \in Sessions /\ lease[s] \in Int /\ failures[s] \in Nat /\ pass.age \in 0 .. 1
      /\ failures[s] < MaxProbeFailures
  BY DEF SessionIInv, SessionInv, TypeOK, FailuresAreCounted
<1>2. pass # NoPass /\ pass.probing = {} /\ ~due
  BY DEF ExpireStale, SessionIInv, PassIsTrue, NoPass
<1>3. lease[s] + pass.age >= Timeout - 2 * failures[s]
  BY <1>1, <1>2 DEF SessionIInv, LeaseIsAhead, Unseen
<1>4. 2 * failures[s] <= 2 * (MaxProbeFailures - 1)
  BY <1>1
<1>5. lease[s] + pass.age > 0
  BY <1>1, <1>3, <1>4 DEF Patient
<1> QED
  BY <1>1, <1>5 DEF ExpireStale

(* The first probe that fails does not end a session that began to wait.   *)
LEMMA ProbeSparesTheWaiting ==
  ASSUME Patient, SessionIInv, NEW t \in Sessions, ProbeFails(t), NEW s \in known \ marked, proc[s] = "waiting"
  PROVE  s \notin finishing' \ finishing
<1> USE TimesAssumption
<1>1. failures \in [Sessions -> 0 .. MaxProbeFailures] /\ s \in Sessions
  BY DEF SessionIInv, SessionInv, TypeOK
<1>2. CASE s # t
  BY <1>2 DEF ProbeFails
<1>3. CASE s = t
  <2>1. s \in pass.probing /\ (s \in finishing \/ failures[s] = 0)
    BY <1>3 DEF ProbeFails, SessionIInv, FailuresAreCounted
  <2>2. CASE failures[s] = 0
    <3>1. failures'[s] = 1
      BY <1>1, <1>3, <2>2 DEF ProbeFails
    <3> QED
      BY <1>3, <3>1 DEF ProbeFails, GivesUp, Patient
  <2> QED
    BY <2>1, <2>2
<1> QED
  BY <1>2, <1>3

(* No step ends an attempt without a reason.                               *)
LEMMA StepsAreJust ==
  ASSUME Patient, SessionIInv, [Next]_vars, NEW s \in Sessions
  PROVE  JustStep(s)
<1> USE SessionsAssumption, TimesAssumption
<1>0. /\ row \in [Sessions -> {"none"} \cup Active \cup Ended]
      /\ launch[s] = "none" => row[s] = "none"
      /\ s \in known \cup stopping => launch[s] = "over"
      /\ s \in finishing \cup stopping /\ Alive(s) => s \in marked
      /\ finishing = pass.killing
      /\ s \in known /\ row[s] \in Active => row[s] = "running"
  BY DEF SessionIInv, SessionInv, TypeOK, LaunchesAreTrue, PassIsTrue, CancelsAreTold, Active
<1>1. ASSUME NEW t \in Sessions, ClaimAttempt(t) PROVE JustStep(s)
  BY <1>0, <1>1 DEF ClaimAttempt, JustStep, Finish, attempt, session, watchdog, Alive, Active, Ended
<1>2. ASSUME NEW t \in Sessions, Spawn(t) PROVE JustStep(s)
  BY <1>0, <1>2 DEF Spawn, JustStep, Finish, attempt, session, watchdog, Alive, Active, Ended
<1>3. ASSUME NEW t \in Sessions, SpawnFails(t) PROVE JustStep(s)
  BY <1>0, <1>3 DEF SpawnFails, JustStep, Finish, attempt, session, watchdog, Alive, Active, Ended
<1>4. ASSUME NEW t \in Sessions, Register(t) PROVE JustStep(s)
  BY <1>0, <1>4 DEF Register, JustStep, Finish, attempt, session, watchdog, Alive, Active, Ended
<1>5. ASSUME NEW t \in Sessions, LaunchUndone(t) PROVE JustStep(s)
  BY <1>0, <1>5 DEF LaunchUndone, JustStep, Finish, attempt, session, watchdog, Alive, Active, Ended
<1>6. ASSUME NEW t \in Sessions, Progress(t) PROVE JustStep(s)
  BY <1>0, <1>6 DEF Progress, JustStep, Finish, attempt, session, watchdog, Alive, Active, Ended
<1>7. ASSUME NEW t \in Sessions, ProcessReports(t) PROVE JustStep(s)
  BY <1>0, <1>7
     DEF ProcessReports, Report, Silenced, JustStep, Finish, attempt, session, watchdog, Alive, Active,
         Ended
<1>8. ASSUME NEW t \in Sessions, ProcessVanishes(t) PROVE JustStep(s)
  BY <1>0, <1>8 DEF ProcessVanishes, JustStep, Finish, attempt, session, watchdog, Alive, Active, Ended
<1>9. ASSUME NEW t \in Sessions, Killed(t) PROVE JustStep(s)
  BY <1>0, <1>9
     DEF Killed, Report, Silenced, JustStep, Finish, attempt, session, watchdog, Alive, Active, Ended
<1>10. ASSUME NEW t \in Sessions, BeginStop(t) PROVE JustStep(s)
  BY <1>0, <1>10 DEF BeginStop, JustStep, Finish, attempt, session, watchdog, Alive, Active, Ended
<1>11. ASSUME NEW t \in Sessions, EndStop(t) PROVE JustStep(s)
  BY <1>0, <1>11 DEF EndStop, JustStep, Finish, attempt, session, watchdog, Alive, Active, Ended
<1>12. ASSUME NEW t \in Sessions, StopFails(t) PROVE JustStep(s)
  BY <1>0, <1>12 DEF StopFails, JustStep, Finish, attempt, session, watchdog, Alive, Active, Ended
<1>13. ASSUME NEW t \in Sessions, ProbeAnswers(t) PROVE JustStep(s)
  BY <1>0, <1>13 DEF ProbeAnswers, JustStep, Finish, attempt, session, watchdog, Alive, Active, Ended
<1>14. ASSUME NEW t \in Sessions, ProbeExpires(t) PROVE JustStep(s)
  BY <1>0, <1>14 DEF ProbeExpires, JustStep, Finish, attempt, session, watchdog, Alive, Active, Ended
<1>15. ASSUME NEW t \in Sessions, ReportStale(t) PROVE JustStep(s)
  BY <1>0, <1>15 DEF ReportStale, JustStep, Finish, attempt, session, watchdog, Alive, Active, Ended
<1>16. ASSUME NEW t \in Sessions, ProbeFails(t) PROVE JustStep(s)
  BY <1>0, <1>16, ProbeSparesTheWaiting
     DEF ProbeFails, JustStep, Finish, attempt, session, watchdog, Alive, Active, Ended
<1>17. CASE ExpireStale
  <2>1. s \in known \ (marked \cup finishing) /\ Alive(s) /\ row[s] = "running" => row'[s] = row[s]
    BY <1>17, LeaseSparesTheLiving
  <2>2. row[s] \notin Active => row'[s] = row[s]
    BY <1>0, <1>17 DEF ExpireStale
  <2>3. row'[s] \in {row[s], "expired"} /\ finishing' = finishing
    BY <1>0, <1>17 DEF ExpireStale
  <2> QED
    BY <1>0, <2>1, <2>2, <2>3 DEF JustStep, Alive, Active, Ended
<1>18. CASE Tick
  BY <1>0, <1>18 DEF Tick, JustStep, Finish, attempt, session, watchdog, Alive, Active, Ended
<1>19. CASE BeginPass
  BY <1>0, <1>19 DEF BeginPass, JustStep, Finish, attempt, session, watchdog, Alive, Active, Ended
<1>20. CASE EndPass
  BY <1>0, <1>20 DEF EndPass, JustStep, Finish, attempt, session, watchdog, Alive, Active, Ended
<1>21. CASE Restart
  BY <1>0, <1>21 DEF Restart, JustStep, Finish, attempt, session, watchdog, Alive, Active, Ended
<1>22. CASE UNCHANGED vars
  BY <1>0, <1>22 DEF vars, JustStep, Finish, attempt, session, watchdog, Alive, Active, Ended
<1> QED
  BY <1>1, <1>2, <1>3, <1>4, <1>5, <1>6, <1>7, <1>8, <1>9, <1>10, <1>11, <1>12, <1>13, <1>14, <1>15, <1>16,
     <1>17, <1>18, <1>19, <1>20, <1>21, <1>22
     DEF Next, LaunchStep, ProcessStep, StopStep, WatchdogStep

-----------------------------------------------------------------------------
(* The turns of the orchestrator's own agent.                              *)

(* Nobody is the name of no turn.                                          *)
LEMMA NobodyIsNoTurn == Nobody \notin Turns
BY SupervisorAssumption DEF Turns

(* The steps of a turn before its first await preserve the invariant.      *)
LEMMA RouteKeepsSupervisorInv ==
  ASSUME SupervisorInv, NEW t \in Turns, StartTurn(t) \/ RouteFails(t) \/ TakeSession(t) \/ StartFresh(t)
  PROVE  SupervisorInv'
<1> USE NobodyIsNoTurn DEF Routing, Running, sessions, turns, At, Goto
<1>1. CASE StartTurn(t)
  <2>1. SupervisorTypeOK'
    BY <1>1 DEF SupervisorInv, SupervisorTypeOK, TurnsAreTrue, StartTurn
  <2>2. BusyIsReleased'
    BY <1>1, <2>1 DEF SupervisorInv, SupervisorTypeOK, BusyIsReleased, StartTurn
  <2>3. TurnsAreTrue'
    BY <1>1, <2>1 DEF SupervisorInv, SupervisorTypeOK, TurnsAreTrue, StartTurn
  <2>4. ProcessesAreOwned'
    BY <1>1, <2>1 DEF SupervisorInv, SupervisorTypeOK, ProcessesAreOwned, Owned, TurnsAreTrue, StartTurn
  <2> QED
    BY <2>1, <2>2, <2>3, <2>4 DEF SupervisorInv
<1>2. CASE RouteFails(t)
  <2>1. SupervisorTypeOK'
    BY <1>2 DEF SupervisorInv, SupervisorTypeOK, TurnsAreTrue, RouteFails
  <2>2. BusyIsReleased'
    BY <1>2, <2>1 DEF SupervisorInv, SupervisorTypeOK, BusyIsReleased, RouteFails
  <2>3. TurnsAreTrue'
    BY <1>2, <2>1 DEF SupervisorInv, SupervisorTypeOK, TurnsAreTrue, RouteFails
  <2>4. ProcessesAreOwned'
    BY <1>2, <2>1 DEF SupervisorInv, SupervisorTypeOK, ProcessesAreOwned, Owned, TurnsAreTrue, RouteFails
  <2> QED
    BY <2>1, <2>2, <2>3, <2>4 DEF SupervisorInv
<1>3. CASE TakeSession(t)
  <2>1. SupervisorTypeOK'
    BY <1>3 DEF SupervisorInv, SupervisorTypeOK, TurnsAreTrue, TakeSession
  <2>2. BusyIsReleased'
    BY <1>3, <2>1 DEF SupervisorInv, SupervisorTypeOK, BusyIsReleased, TakeSession
  <2>3. TurnsAreTrue'
    BY <1>3, <2>1 DEF SupervisorInv, SupervisorTypeOK, TurnsAreTrue, TakeSession
  <2>4. ProcessesAreOwned'
    BY <1>3, <2>1 DEF SupervisorInv, SupervisorTypeOK, ProcessesAreOwned, Owned, TurnsAreTrue, TakeSession
  <2> QED
    BY <2>1, <2>2, <2>3, <2>4 DEF SupervisorInv
<1>4. CASE StartFresh(t)
  <2>1. SupervisorTypeOK'
    BY <1>4 DEF SupervisorInv, SupervisorTypeOK, TurnsAreTrue, StartFresh, EnterFresh, Enter
  <2>2. BusyIsReleased'
    BY <1>4, <2>1 DEF SupervisorInv, SupervisorTypeOK, BusyIsReleased, StartFresh, EnterFresh, Enter
  <2>3. TurnsAreTrue'
    BY <1>4, <2>1 DEF SupervisorInv, SupervisorTypeOK, TurnsAreTrue, StartFresh, EnterFresh, Enter
  <2>4. ProcessesAreOwned'
    BY <1>4, <2>1
       DEF SupervisorInv, SupervisorTypeOK, ProcessesAreOwned, Owned, TurnsAreTrue, StartFresh, EnterFresh,
           Enter
  <2> QED
    BY <2>1, <2>2, <2>3, <2>4 DEF SupervisorInv
<1> QED
  BY <1>1, <1>2, <1>3, <1>4

(* So do those that take over or give up the session it found.             *)
LEMMA ProbeKeepsSupervisorInv ==
  ASSUME SupervisorInv, NEW t \in Turns, SessionAnswers(t) \/ SessionGone(t) \/ Discarded(t) \/ Resumed(t)
  PROVE  SupervisorInv'
<1> USE NobodyIsNoTurn DEF Routing, Running, sessions, turns, At, Goto
<1>1. CASE SessionAnswers(t)
  <2>1. SupervisorTypeOK'
    BY <1>1 DEF SupervisorInv, SupervisorTypeOK, TurnsAreTrue, SessionAnswers, EnterWith, Enter
  <2>2. BusyIsReleased'
    BY <1>1, <2>1 DEF SupervisorInv, SupervisorTypeOK, BusyIsReleased, SessionAnswers, EnterWith, Enter
  <2>3. TurnsAreTrue'
    BY <1>1, <2>1 DEF SupervisorInv, SupervisorTypeOK, TurnsAreTrue, SessionAnswers, EnterWith, Enter
  <2>4. ProcessesAreOwned'
    BY <1>1, <2>1
       DEF SupervisorInv, SupervisorTypeOK, ProcessesAreOwned, Owned, TurnsAreTrue, SessionAnswers,
           EnterWith, Enter
  <2> QED
    BY <2>1, <2>2, <2>3, <2>4 DEF SupervisorInv
<1>2. CASE SessionGone(t)
  <2>1. SupervisorTypeOK'
    BY <1>2 DEF SupervisorInv, SupervisorTypeOK, TurnsAreTrue, SessionGone, EnterFresh, Enter
  <2>2. BusyIsReleased'
    BY <1>2, <2>1 DEF SupervisorInv, SupervisorTypeOK, BusyIsReleased, SessionGone, EnterFresh, Enter
  <2>3. TurnsAreTrue'
    BY <1>2, <2>1 DEF SupervisorInv, SupervisorTypeOK, TurnsAreTrue, SessionGone, EnterFresh, Enter
  <2>4. ProcessesAreOwned'
    BY <1>2, <2>1
       DEF SupervisorInv, SupervisorTypeOK, ProcessesAreOwned, Owned, TurnsAreTrue, SessionGone, EnterFresh,
           Enter
  <2> QED
    BY <2>1, <2>2, <2>3, <2>4 DEF SupervisorInv
<1>3. CASE Discarded(t)
  <2>1. SupervisorTypeOK'
    BY <1>3 DEF SupervisorInv, SupervisorTypeOK, TurnsAreTrue, Discarded, Enter, ShutDownAnyway, Unmap
  <2>2. BusyIsReleased'
    BY <1>3, <2>1 DEF SupervisorInv, SupervisorTypeOK, BusyIsReleased, Discarded, Enter, ShutDownAnyway, Unmap
  <2>3. TurnsAreTrue'
    BY <1>3, <2>1 DEF SupervisorInv, SupervisorTypeOK, TurnsAreTrue, Discarded, Enter, ShutDownAnyway, Unmap
  <2>4. ProcessesAreOwned'
    BY <1>3, <2>1
       DEF SupervisorInv, SupervisorTypeOK, ProcessesAreOwned, Owned, TurnsAreTrue, Discarded, Enter,
           ShutDownAnyway, Unmap
  <2> QED
    BY <2>1, <2>2, <2>3, <2>4 DEF SupervisorInv
<1>4. CASE Resumed(t)
  <2>1. SupervisorTypeOK'
    BY <1>4 DEF SupervisorInv, SupervisorTypeOK, TurnsAreTrue, Resumed, EnterWith, EnterFresh, Enter, Map
  <2>2. BusyIsReleased'
    BY <1>4, <2>1
       DEF SupervisorInv, SupervisorTypeOK, BusyIsReleased, Resumed, EnterWith, EnterFresh, Enter, Map
  <2>3. TurnsAreTrue'
    BY <1>4, <2>1
       DEF SupervisorInv, SupervisorTypeOK, TurnsAreTrue, Resumed, EnterWith, EnterFresh, Enter, Map
  <2>4. ProcessesAreOwned'
    BY <1>4, <2>1
       DEF SupervisorInv, SupervisorTypeOK, ProcessesAreOwned, Owned, TurnsAreTrue, Resumed, EnterWith,
           EnterFresh, Enter, Map
  <2> QED
    BY <2>1, <2>2, <2>3, <2>4 DEF SupervisorInv
<1> QED
  BY <1>1, <1>2, <1>3, <1>4

(* So do the spawn and the conversation.                                   *)
LEMMA TalkKeepsSupervisorInv ==
  ASSUME SupervisorInv, NEW t \in Turns, ProcessStarts(t) \/ Spawned(t) \/ Asks(t) \/ Answered(t) \/ Closed(t) \/ StreamFails(t)
  PROVE  SupervisorInv'
<1> USE NobodyIsNoTurn DEF Routing, Running, sessions, turns, At, Goto
<1>1. CASE ProcessStarts(t)
  <2>1. SupervisorTypeOK'
    BY <1>1 DEF SupervisorInv, SupervisorTypeOK, TurnsAreTrue, ProcessStarts
  <2>2. BusyIsReleased'
    BY <1>1, <2>1 DEF SupervisorInv, SupervisorTypeOK, BusyIsReleased, ProcessStarts
  <2>3. TurnsAreTrue'
    BY <1>1, <2>1 DEF SupervisorInv, SupervisorTypeOK, TurnsAreTrue, ProcessStarts
  <2>4. ProcessesAreOwned'
    BY <1>1, <2>1 DEF SupervisorInv, SupervisorTypeOK, ProcessesAreOwned, Owned, TurnsAreTrue, ProcessStarts
  <2> QED
    BY <2>1, <2>2, <2>3, <2>4 DEF SupervisorInv
<1>2. CASE Spawned(t)
  <2>1. SupervisorTypeOK'
    BY <1>2 DEF SupervisorInv, SupervisorTypeOK, TurnsAreTrue, Spawned, Map
  <2>2. BusyIsReleased'
    BY <1>2, <2>1 DEF SupervisorInv, SupervisorTypeOK, BusyIsReleased, Spawned, Map
  <2>3. TurnsAreTrue'
    BY <1>2, <2>1 DEF SupervisorInv, SupervisorTypeOK, TurnsAreTrue, Spawned, Map
  <2>4. ProcessesAreOwned'
    BY <1>2, <2>1 DEF SupervisorInv, SupervisorTypeOK, ProcessesAreOwned, Owned, TurnsAreTrue, Spawned, Map
  <2> QED
    BY <2>1, <2>2, <2>3, <2>4 DEF SupervisorInv
<1>3. CASE Asks(t)
  <2>1. SupervisorTypeOK'
    BY <1>3 DEF SupervisorInv, SupervisorTypeOK, TurnsAreTrue, Asks
  <2>2. BusyIsReleased'
    BY <1>3, <2>1 DEF SupervisorInv, SupervisorTypeOK, BusyIsReleased, Asks
  <2>3. TurnsAreTrue'
    BY <1>3, <2>1 DEF SupervisorInv, SupervisorTypeOK, TurnsAreTrue, Asks
  <2>4. ProcessesAreOwned'
    BY <1>3, <2>1 DEF SupervisorInv, SupervisorTypeOK, ProcessesAreOwned, Owned, TurnsAreTrue, Asks
  <2> QED
    BY <2>1, <2>2, <2>3, <2>4 DEF SupervisorInv
<1>4. CASE Answered(t)
  <2>1. SupervisorTypeOK'
    BY <1>4 DEF SupervisorInv, SupervisorTypeOK, TurnsAreTrue, Answered
  <2>2. BusyIsReleased'
    BY <1>4, <2>1 DEF SupervisorInv, SupervisorTypeOK, BusyIsReleased, Answered
  <2>3. TurnsAreTrue'
    BY <1>4, <2>1 DEF SupervisorInv, SupervisorTypeOK, TurnsAreTrue, Answered
  <2>4. ProcessesAreOwned'
    BY <1>4, <2>1 DEF SupervisorInv, SupervisorTypeOK, ProcessesAreOwned, Owned, TurnsAreTrue, Answered
  <2> QED
    BY <2>1, <2>2, <2>3, <2>4 DEF SupervisorInv
<1>5. CASE Closed(t)
  <2>1. SupervisorTypeOK'
    BY <1>5 DEF SupervisorInv, SupervisorTypeOK, TurnsAreTrue, Closed, ShutDownAnyway
  <2>2. BusyIsReleased'
    BY <1>5, <2>1 DEF SupervisorInv, SupervisorTypeOK, BusyIsReleased, Closed, ShutDownAnyway
  <2>3. TurnsAreTrue'
    BY <1>5, <2>1 DEF SupervisorInv, SupervisorTypeOK, TurnsAreTrue, Closed, ShutDownAnyway
  <2>4. ProcessesAreOwned'
    BY <1>5, <2>1
       DEF SupervisorInv, SupervisorTypeOK, ProcessesAreOwned, Owned, TurnsAreTrue, Closed, ShutDownAnyway
  <2> QED
    BY <2>1, <2>2, <2>3, <2>4 DEF SupervisorInv
<1>6. CASE StreamFails(t)
  <2>1. SupervisorTypeOK'
    BY <1>6 DEF SupervisorInv, SupervisorTypeOK, TurnsAreTrue, StreamFails, GatewayDies
  <2>2. BusyIsReleased'
    BY <1>6, <2>1 DEF SupervisorInv, SupervisorTypeOK, BusyIsReleased, StreamFails, GatewayDies
  <2>3. TurnsAreTrue'
    BY <1>6, <2>1 DEF SupervisorInv, SupervisorTypeOK, TurnsAreTrue, StreamFails, GatewayDies
  <2>4. ProcessesAreOwned'
    BY <1>6, <2>1
       DEF SupervisorInv, SupervisorTypeOK, ProcessesAreOwned, Owned, TurnsAreTrue, StreamFails, GatewayDies
  <2> QED
    BY <2>1, <2>2, <2>3, <2>4 DEF SupervisorInv
<1> QED
  BY <1>1, <1>2, <1>3, <1>4, <1>5, <1>6

(* So do evictions.                                                        *)
LEMMA EvictionKeepsSupervisorInv ==
  ASSUME SupervisorInv, NEW x \in Turns, EvictionDue(x) \/ Evicted(x)
  PROVE  SupervisorInv'
<1> USE NobodyIsNoTurn DEF Routing, Running, sessions, turns, At, Goto
<1>1. CASE EvictionDue(x)
  <2>1. SupervisorTypeOK'
    BY <1>1 DEF SupervisorInv, SupervisorTypeOK, TurnsAreTrue, EvictionDue
  <2>2. BusyIsReleased'
    BY <1>1, <2>1 DEF SupervisorInv, SupervisorTypeOK, BusyIsReleased, EvictionDue
  <2>3. TurnsAreTrue'
    BY <1>1, <2>1 DEF SupervisorInv, SupervisorTypeOK, TurnsAreTrue, EvictionDue
  <2>4. ProcessesAreOwned'
    BY <1>1, <2>1 DEF SupervisorInv, SupervisorTypeOK, ProcessesAreOwned, Owned, TurnsAreTrue, EvictionDue
  <2> QED
    BY <2>1, <2>2, <2>3, <2>4 DEF SupervisorInv
<1>2. CASE Evicted(x)
  <2>1. SupervisorTypeOK'
    BY <1>2 DEF SupervisorInv, SupervisorTypeOK, TurnsAreTrue, Evicted, ShutDownAnyway, Unmap
  <2>2. BusyIsReleased'
    BY <1>2, <2>1 DEF SupervisorInv, SupervisorTypeOK, BusyIsReleased, Evicted, ShutDownAnyway, Unmap
  <2>3. TurnsAreTrue'
    BY <1>2, <2>1 DEF SupervisorInv, SupervisorTypeOK, TurnsAreTrue, Evicted, ShutDownAnyway, Unmap
  <2>4. ProcessesAreOwned'
    BY <1>2, <2>1
       DEF SupervisorInv, SupervisorTypeOK, ProcessesAreOwned, Owned, TurnsAreTrue, Evicted, ShutDownAnyway,
           Unmap
  <2> QED
    BY <2>1, <2>2, <2>3, <2>4 DEF SupervisorInv
<1> QED
  BY <1>1, <1>2

(* So do turns that end together, whoever ends them.                       *)
LEMMA FinallyKeepsSupervisorInv ==
  ASSUME SupervisorInv, NEW S \in SUBSET Turns, \A t \in S : pc[t] \in Running, Finally(S),
         UNCHANGED <<reuses, mapped, evicting, up, pending, cancelled, alive>>,
         \/ UNCHANGED stop
         \/ \E s \in Stops, A \in SUBSET Turns : stop[s].adapters = {} /\ SetStop(s, "turns", A)
  PROVE  SupervisorInv'
<1> USE NobodyIsNoTurn DEF Routing, Running
<1>1. \A t \in S : ad[t] \in Turns
  BY DEF SupervisorInv, SupervisorTypeOK, TurnsAreTrue
<1>2. SupervisorTypeOK'
  BY <1>1 DEF SupervisorInv, SupervisorTypeOK, Finally, SetStop
<1>3. BusyIsReleased'
  BY <1>1, <1>2 DEF SupervisorInv, SupervisorTypeOK, BusyIsReleased, Finally
<1>4. TurnsAreTrue'
  BY <1>1, <1>2 DEF SupervisorInv, SupervisorTypeOK, TurnsAreTrue, Finally, SetStop
<1>5. ProcessesAreOwned'
  BY <1>1, <1>2 DEF SupervisorInv, SupervisorTypeOK, ProcessesAreOwned, Owned, Finally, SetStop
<1> QED
  BY <1>2, <1>3, <1>4, <1>5 DEF SupervisorInv

(* So do the steps of a stop that waits for processes.                     *)
LEMMA StopKeepsSupervisorInv ==
  ASSUME SupervisorInv, NEW s \in Stops, TurnsNotStopped(s) \/ TurnsStopped(s) \/ SessionNotStopped(s) \/ SessionStopped(s)
  PROVE  SupervisorInv'
<1> USE NobodyIsNoTurn DEF Routing, Running, sessions, turns, At, Goto
<1>1. CASE TurnsNotStopped(s)
  <2>1. SupervisorTypeOK'
    BY <1>1 DEF SupervisorInv, SupervisorTypeOK, TurnsAreTrue, TurnsNotStopped, SetStop
  <2>2. BusyIsReleased'
    BY <1>1, <2>1 DEF SupervisorInv, SupervisorTypeOK, BusyIsReleased, TurnsNotStopped, SetStop
  <2>3. TurnsAreTrue'
    BY <1>1, <2>1 DEF SupervisorInv, SupervisorTypeOK, TurnsAreTrue, TurnsNotStopped, SetStop
  <2>4. ProcessesAreOwned'
    BY <1>1, <2>1
       DEF SupervisorInv, SupervisorTypeOK, ProcessesAreOwned, Owned, TurnsAreTrue, TurnsNotStopped, SetStop
  <2> QED
    BY <2>1, <2>2, <2>3, <2>4 DEF SupervisorInv
<1>2. CASE TurnsStopped(s)
  <2>1. SupervisorTypeOK'
    BY <1>2 DEF SupervisorInv, SupervisorTypeOK, TurnsAreTrue, TurnsStopped, StopSession, SetStop
  <2>2. BusyIsReleased'
    BY <1>2, <2>1 DEF SupervisorInv, SupervisorTypeOK, BusyIsReleased, TurnsStopped, StopSession, SetStop
  <2>3. TurnsAreTrue'
    <3>1. /\ UNCHANGED <<pc, ad>> /\ active' = {} /\ stop \in [Stops -> [phase : {"idle", "turns", "session", "failed", "over"}, adapters : SUBSET Turns]]
          /\ \/ stop' = [stop EXCEPT ![s] = [phase |-> "over", adapters |-> {}]]
             \/ \E x \in Turns : stop' = [stop EXCEPT ![s] = [phase |-> "session", adapters |-> {x}]]
      BY <1>2 DEF SupervisorInv, SupervisorTypeOK, TurnsStopped, StopSession, SetStop
    <3> QED
      BY <3>1 DEF SupervisorInv, TurnsAreTrue
  <2>4. ProcessesAreOwned'
    BY <1>2, <2>1, SMTT(30)
       DEF SupervisorInv, SupervisorTypeOK, ProcessesAreOwned, Owned, TurnsAreTrue, TurnsStopped,
           StopSession, SetStop
  <2> QED
    BY <2>1, <2>2, <2>3, <2>4 DEF SupervisorInv
<1>3. CASE SessionNotStopped(s)
  <2>1. SupervisorTypeOK'
    BY <1>3 DEF SupervisorInv, SupervisorTypeOK, TurnsAreTrue, SessionNotStopped, SetStop
  <2>2. BusyIsReleased'
    BY <1>3, <2>1 DEF SupervisorInv, SupervisorTypeOK, BusyIsReleased, SessionNotStopped, SetStop
  <2>3. TurnsAreTrue'
    BY <1>3, <2>1 DEF SupervisorInv, SupervisorTypeOK, TurnsAreTrue, SessionNotStopped, SetStop
  <2>4. ProcessesAreOwned'
    BY <1>3, <2>1
       DEF SupervisorInv, SupervisorTypeOK, ProcessesAreOwned, Owned, TurnsAreTrue, SessionNotStopped,
           SetStop
  <2> QED
    BY <2>1, <2>2, <2>3, <2>4 DEF SupervisorInv
<1>4. CASE SessionStopped(s)
  <2>0. PICK x \in Turns : stop[s].adapters = {x}
    BY <1>4 DEF SupervisorInv, TurnsAreTrue, SessionStopped
  <2>1. mapped' = IF mapped = x THEN Nobody ELSE mapped
    BY <1>4, <2>0 DEF SessionStopped, Unmap
  <2>2. SupervisorTypeOK'
    BY <1>4, <2>1 DEF SupervisorInv, SupervisorTypeOK, SessionStopped, SetStop
  <2>3. BusyIsReleased'
    BY <1>4, <2>1, <2>2 DEF SupervisorInv, SupervisorTypeOK, BusyIsReleased, SessionStopped
  <2>4. TurnsAreTrue'
    BY <1>4, <2>2 DEF SupervisorInv, SupervisorTypeOK, TurnsAreTrue, SessionStopped, SetStop
  <2>5. ProcessesAreOwned'
    BY <1>4, <2>0, <2>1, <2>2
       DEF SupervisorInv, SupervisorTypeOK, ProcessesAreOwned, Owned, TurnsAreTrue, SessionStopped, SetStop
  <2> QED
    BY <2>2, <2>3, <2>4, <2>5 DEF SupervisorInv
<1> QED
  BY <1>1, <1>2, <1>3, <1>4

(* So does every step.                                                     *)
LEMMA SupervisorInvKept == SupervisorInv /\ [SupervisorNext]_supervisorVars => SupervisorInv'
<1> SUFFICES ASSUME SupervisorInv, [SupervisorNext]_supervisorVars
             PROVE  SupervisorInv'
  OBVIOUS
<1>1. ASSUME NEW t \in Turns, TurnEnds(t)
      PROVE  SupervisorInv'
  <2>1. pc[t] \in Running /\ Finally({t}) /\ UNCHANGED <<reuses, mapped, evicting, up, pending, stop, cancelled, alive>>
    BY <1>1 DEF TurnEnds, At, Running
  <2> QED
    BY <2>1, FinallyKeepsSupervisorInv
<1>2. ASSUME NEW t \in Turns, TimesOut(t)
      PROVE  SupervisorInv'
  <2>1. CASE GatewayDies
    BY <2>1
       DEF GatewayDies, SupervisorInv, SupervisorTypeOK, BusyIsReleased, TurnsAreTrue, ProcessesAreOwned,
           Owned, sessions, turns
  <2>2. CASE pc[t] \in Running /\ Finally({t}) /\ UNCHANGED <<reuses, mapped, evicting, up, pending, stop, cancelled, alive>>
    BY <2>2, FinallyKeepsSupervisorInv
  <2> QED
    BY <1>2, <2>1, <2>2 DEF TimesOut, At, Running
<1>3. ASSUME NEW s \in Stops, StopMission(s)
      PROVE  SupervisorInv'
  <2>1. alive /\ stop[s].phase \in {"idle", "failed"} /\ stop[s].adapters = {}
    BY <1>3 DEF StopMission, SupervisorInv, TurnsAreTrue
  <2>2. CASE GatewayDies
    BY <2>2
       DEF GatewayDies, SupervisorInv, SupervisorTypeOK, BusyIsReleased, TurnsAreTrue, ProcessesAreOwned,
           Owned, sessions, turns
  <2>3. CASE StopSession(s) /\ UNCHANGED <<turns, busy, evicting, mapped, up, pending, forgotten, alive>>
    <3>1. /\ UNCHANGED <<turns, busy, evicting, mapped, up, pending, forgotten, alive>>
          /\ stop \in [Stops -> [phase : {"idle", "turns", "session", "failed", "over"}, adapters : SUBSET Turns]]
          /\ \/ stop' = [stop EXCEPT ![s] = [phase |-> "over", adapters |-> {}]]
             \/ \E x \in Turns : stop' = [stop EXCEPT ![s] = [phase |-> "session", adapters |-> {x}]]
      BY <2>3 DEF SupervisorInv, SupervisorTypeOK, StopSession, SetStop
    <3>2. SupervisorTypeOK'
      BY <2>3, <3>1 DEF SupervisorInv, SupervisorTypeOK, StopSession, SetStop, turns
    <3>3. TurnsAreTrue'
      BY <3>1 DEF SupervisorInv, TurnsAreTrue, turns
    <3> QED
      BY <2>1, <3>1, <3>2, <3>3 DEF SupervisorInv, BusyIsReleased, ProcessesAreOwned, Owned, turns
  <2>4. CASE \E A \in SUBSET Turns : /\ SetStop(s, "turns", A) /\ Finally(active)
                                     /\ UNCHANGED <<reuses, mapped, evicting, up, pending, cancelled, alive>>
    <3>1. active \in SUBSET Turns /\ \A t \in active : pc[t] \in Running
      BY DEF SupervisorInv, SupervisorTypeOK, TurnsAreTrue
    <3> QED
      BY <2>1, <2>4, <3>1, FinallyKeepsSupervisorInv
  <2>5. ({ad[t] : t \in active} \cup pending) \in SUBSET Turns
    BY NobodyIsNoTurn DEF SupervisorInv, SupervisorTypeOK, TurnsAreTrue
  <2> QED
    BY <1>3, <2>2, <2>3, <2>4, <2>5 DEF StopMission
<1>4. CASE UNCHANGED supervisorVars
  BY <1>4
     DEF supervisorVars, sessions, turns, SupervisorInv, SupervisorTypeOK, BusyIsReleased, TurnsAreTrue,
         ProcessesAreOwned, Owned
<1> QED
  BY <1>1, <1>2, <1>3, <1>4, RouteKeepsSupervisorInv, ProbeKeepsSupervisorInv, TalkKeepsSupervisorInv,
     EvictionKeepsSupervisorInv, StopKeepsSupervisorInv
     DEF SupervisorNext, HostStep, Route, Probe, SpawnStep, StopMissionStep

(* It holds before the first turn.                                         *)
LEMMA SupervisorInvStarts == SupervisorInit => SupervisorInv
BY NobodyIsNoTurn
   DEF SupervisorInit, SupervisorInv, SupervisorTypeOK, BusyIsReleased, TurnsAreTrue, ProcessesAreOwned, Owned, NoStop, Running, Routing

(* It is enough: whoever owns a process holds it.                          *)
LEMMA SupervisorInvSuffices == SupervisorInv => SupervisorSafety
<1> SUFFICES ASSUME SupervisorInv PROVE NoProcessIsForgotten
  BY DEF SupervisorInv, SupervisorSafety
<1> SUFFICES ASSUME NEW x \in up \ forgotten PROVE Held(x)
  BY DEF NoProcessIsForgotten
<1>1. Owned(x)
  BY DEF SupervisorInv, ProcessesAreOwned
<1> QED
  BY <1>1 DEF Owned, Held, InProgress

-----------------------------------------------------------------------------
(* Both components.                                                        *)

(* A step of the host is a step of each component or leaves it alone.      *)
LEMMA RuntimeSteps == [RuntimeNext]_runtimeVars => [Next]_vars /\ [SupervisorNext]_supervisorVars
BY DEF RuntimeNext, Agents, Supervising, runtimeVars

(* The inductive invariant of the runtime host: an attempt is open only    *)
(* while somebody answers for it, its lease shrinks by what failed probes  *)
(* took, and every process of the orchestrator has an owner.               *)
THEOREM RuntimeInvariant == RuntimeSpec => [](SessionIInv /\ SupervisorInv)
<1>1. RuntimeInit => SessionIInv /\ SupervisorInv
  BY SessionInvStarts, SupervisorInvStarts DEF RuntimeInit
<1>2. (SessionIInv /\ SupervisorInv) /\ [RuntimeNext]_runtimeVars => (SessionIInv /\ SupervisorInv)'
  BY RuntimeSteps, SessionInvKept, SupervisorInvKept
<1> QED
  BY <1>1, <1>2, PTL DEF RuntimeSpec

(* No completed attempt is taken for lost, no process works on for an      *)
(* attempt that has ended, a conversation's busy session is set free, and  *)
(* no provider's process drops out of the books.                           *)
THEOREM RuntimeIsSafe == RuntimeSpec => []RuntimeInv
<1>1. SessionIInv /\ SupervisorInv => RuntimeInv
  BY SupervisorInvSuffices DEF RuntimeInv, SessionIInv
<1> QED
  BY <1>1, RuntimeInvariant, PTL

(* Given a patient configuration, whoever ends an attempt first has the    *)
(* last word and a reason: neither waiting for the user, nor a live        *)
(* process, nor a stop counts as a failure.                                *)
THEOREM EndingsAreAlwaysJust ==
  ASSUME Patient
  PROVE  RuntimeSpec => EndingsAreJust
<1>1. SessionIInv /\ [RuntimeNext]_runtimeVars => [\A s \in Sessions : row[s] \in Ended => row'[s] = row[s]]_vars
  BY RuntimeSteps, StepsAreJust DEF JustStep
<1>2. SessionIInv /\ [RuntimeNext]_runtimeVars
        => [\A s \in known \ marked : proc[s] = "waiting" /\ row[s] = "running" /\ crashes' = crashes
              => row'[s] # "expired" /\ s \notin finishing' \ finishing]_vars
  BY RuntimeSteps, StepsAreJust DEF JustStep, SessionIInv, SessionInv, TypeOK
<1>3. SessionIInv /\ [RuntimeNext]_runtimeVars
        => [\A s \in Sessions : s \in known /\ Alive(s) /\ row[s] \in Active /\ row'[s] = "expired"
              => s \in finishing \/ s \in marked \/ crashes' # crashes]_vars
  BY RuntimeSteps, StepsAreJust DEF JustStep
<1>4. SessionIInv /\ [RuntimeNext]_runtimeVars
        => [\A s \in Guarded : s \in stopping /\ row[s] \in Active => row'[s] \notin {"completed", "failed"}]_vars
  BY RuntimeSteps, StepsAreJust, SessionsAssumption DEF JustStep
<1>5. RuntimeSpec => VerdictIsFinal
  BY <1>1, RuntimeInvariant, PTL DEF RuntimeSpec, VerdictIsFinal
<1>6. RuntimeSpec => WaitingIsNotExpired
  BY <1>2, RuntimeInvariant, PTL DEF RuntimeSpec, WaitingIsNotExpired
<1>7. RuntimeSpec => LeaseTakesTheDead
  BY <1>3, RuntimeInvariant, PTL DEF RuntimeSpec, LeaseTakesTheDead
<1>8. RuntimeSpec => StopIsNoFailure
  BY <1>4, RuntimeInvariant, PTL DEF RuntimeSpec, StopIsNoFailure
<1> QED
  BY <1>5, <1>6, <1>7, <1>8 DEF EndingsAreJust
=============================================================================
