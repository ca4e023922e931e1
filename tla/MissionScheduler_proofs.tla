------------------------ MODULE MissionScheduler_proofs ------------------------
(***************************************************************************)
(* Proofs about MissionScheduler, for every set of plans, every limit and  *)
(* every number of repeats, expiries, retries, crashes and cancellations:  *)
(* its types, which reports count, the order of the plan; and, until the   *)
(* user retries a mission, the capacity and the budget of retries.         *)
(***************************************************************************)
EXTENDS MissionScheduler, FiniteSetTheorems, WellFoundedInduction, TLAPS

-----------------------------------------------------------------------------
(* Batches.                                                                *)

(* The order of the natural numbers, and what makes an argument by the     *)
(* least counterexample possible.                                          *)
Below == {p \in Nat \X Nat : p[1] < p[2]}

(* The order is well founded. *)
LEMMA BelowIsWellFounded == IsWellFoundedOn(Below, Nat)
<1>1. Below = OpToRel(<, Nat)
  BY DEF Below, OpToRel
<1> QED
  BY <1>1, NatLessThanWellFounded

(* A set of natural numbers has a least element. *)
LEMMA LeastNatural ==
  ASSUME NEW S \in SUBSET Nat, S # {}
  PROVE  \E n \in S : \A m \in S : n <= m
<1>1. \E n \in S : \A m \in S : ~ (<<m, n>> \in Below)
  BY BelowIsWellFounded, WFMin, Zenon
<1>2. \A m, n \in S : m < n => <<m, n>> \in Below
  BY DEF Below
<1>3. PICK n \in S : \A m \in S : ~ (<<m, n>> \in Below)
  BY <1>1
<1>4. \A m \in S : ~ (m < n)
  BY <1>2, <1>3
<1> QED
  BY <1>4

(* The greedy choice among candidates beside the tasks that are busy: the  *)
(* condition that AllocatedIn chooses by.                                  *)
Greedy(busy, candidates, batch) ==
  \A t \in candidates : t \in batch <=> Fits(t, busy \cup {u \in batch : u < t})

(* Taking the candidates in plan order always leads to a batch. *)
LEMMA GreedyExists ==
  ASSUME Len(plan.role) \in Nat, NEW busy, NEW candidates \in SUBSET Tasks
  PROVE  \E batch \in SUBSET candidates : Greedy(busy, candidates, batch)
<1> DEFINE Upto(n) == \E batch \in SUBSET candidates :
                         /\ \A t \in batch : t <= n
                         /\ \A t \in candidates : t <= n => (t \in batch <=> Fits(t, busy \cup {u \in batch : u < t}))
           Missing == {n \in Nat : ~ Upto(n)}
<1>1. candidates \subseteq 1 .. Len(plan.role)
  BY DEF Tasks
<1>2. ASSUME Missing # {}
      PROVE  FALSE
  <2>1. PICK n \in Missing : \A m \in Missing : n <= m
    BY <1>2, LeastNatural
  <2>2. CASE n = 0
    <3>1. \A t \in candidates : ~ (t <= 0)
      BY <1>1
    <3> QED
      BY <2>1, <2>2, <3>1
  <2>3. CASE n # 0
    <3>1. n \in Nat /\ n - 1 \in Nat /\ n - 1 \notin Missing
      <4>1. n \in Nat /\ n - 1 \in Nat /\ ~ (n <= n - 1)
        BY <2>1, <2>3
      <4> HIDE DEF Missing
      <4> QED
        BY <2>1, <4>1
    <3>2. PICK B \in SUBSET candidates :
             /\ \A t \in B : t <= n - 1
             /\ \A t \in candidates : t <= n - 1 => (t \in B <=> Fits(t, busy \cup {u \in B : u < t}))
      BY <3>1
    <3>3. CASE n \in candidates /\ Fits(n, busy \cup B)
      <4> DEFINE C == B \cup {n}
      <4>1. C \in SUBSET candidates /\ \A t \in C : t <= n
        BY <1>1, <3>1, <3>2, <3>3
      <4>2. {u \in C : u < n} = B
        BY <1>1, <3>1, <3>2
      <4>3. ASSUME NEW t \in candidates, t <= n - 1
            PROVE  t \in C <=> Fits(t, busy \cup {u \in C : u < t})
        <5>1. {u \in C : u < t} = {u \in B : u < t} /\ t # n
          BY <1>1, <3>1, <4>3
        <5> QED
          BY <3>2, <4>3, <5>1
      <4>4. \A t \in candidates : t <= n => t = n \/ t <= n - 1
        BY <1>1, <3>1
      <4>5. \A t \in candidates : t <= n => (t \in C <=> Fits(t, busy \cup {u \in C : u < t}))
        BY <3>3, <4>2, <4>3, <4>4
      <4> QED
        BY <2>1, <4>1, <4>5
    <3>4. CASE ~ (n \in candidates /\ Fits(n, busy \cup B))
      <4>1. {u \in B : u < n} = B /\ n \notin B
        <5>1. \A u \in B : u \in Nat /\ u <= n - 1
          BY <1>1, <3>2
        <5>2. \A u \in B : u < n /\ u # n
          BY <3>1, <5>1
        <5> QED
          BY <5>2
      <4>2. \A t \in candidates : t <= n => t = n \/ t <= n - 1
        BY <1>1, <3>1
      <4>3. \A t \in B : t <= n
        BY <1>1, <3>1, <3>2
      <4>4. \A t \in candidates : t <= n => (t \in B <=> Fits(t, busy \cup {u \in B : u < t}))
        BY <3>2, <3>4, <4>1, <4>2
      <4> QED
        BY <2>1, <4>3, <4>4
    <3> QED
      BY <3>3, <3>4
  <2> QED
    BY <2>2, <2>3
<1>3. PICK B \in SUBSET candidates :
         \A t \in candidates : t <= Len(plan.role) => (t \in B <=> Fits(t, busy \cup {u \in B : u < t}))
  BY <1>2
<1>4. Greedy(busy, candidates, B)
  BY <1>1, <1>3 DEF Greedy
<1> QED
  BY <1>4

(* What is allocated are candidates, chosen greedily. *)
LEMMA AllocatedIsGreedy ==
  ASSUME Len(plan.role) \in Nat, NEW rowsNow, NEW candidates \in SUBSET Tasks
  PROVE  /\ AllocatedIn(rowsNow, candidates) \in SUBSET candidates
         /\ Greedy({t \in Tasks : rowsNow[t] = "running"} \ candidates, candidates, AllocatedIn(rowsNow, candidates))
<1> DEFINE busy == {t \in Tasks : rowsNow[t] = "running"} \ candidates
<1>1. \E batch \in SUBSET candidates : Greedy(busy, candidates, batch)
  BY GreedyExists
<1>2. AllocatedIn(rowsNow, candidates) = CHOOSE batch \in SUBSET candidates : Greedy(busy, candidates, batch)
  BY DEF AllocatedIn, Greedy
<1> QED
  BY <1>1, <1>2

(* A greedy batch stays within the limits beside what is busy.             *)
LEMMA GreedyFits ==
  ASSUME Len(plan.role) \in Nat, NEW busy \in SUBSET Tasks, NEW candidates \in SUBSET Tasks,
         NEW batch \in SUBSET candidates, Greedy(busy, candidates, batch),
         NEW limit \in Nat, NEW chosen \in SUBSET Tasks,
         Cardinality(busy \cap chosen) <= limit,
         \A t \in candidates \cap chosen : \A taken \in SUBSET Tasks :
            Fits(t, taken) => Cardinality(taken \cap chosen) < limit
  PROVE  Cardinality((busy \cup batch) \cap chosen) <= limit
<1> DEFINE first(n) == (busy \cup {u \in batch : u <= n}) \cap chosen
           Wrong == {n \in Nat : ~ (Cardinality(first(n)) <= limit)}
<1>1. Tasks = 1 .. Len(plan.role) /\ IsFiniteSet(Tasks)
  BY FS_Interval DEF Tasks
<1>2. ASSUME Wrong # {}
      PROVE  FALSE
  <2>1. PICK n \in Wrong : \A m \in Wrong : n <= m
    BY <1>2, LeastNatural
  <2>2. CASE n = 0
    <3>1. first(0) = busy \cap chosen
      <4>1. \A u \in batch : ~ (u <= 0)
        BY <1>1
      <4> QED
        BY <4>1
    <3> QED
      BY <2>1, <2>2, <3>1
  <2>3. CASE n # 0
    <3>1. n \in Nat /\ n - 1 \in Nat /\ Cardinality(first(n - 1)) <= limit
      BY <2>1, <2>3
    <3>0. \A u \in batch : (u <= n <=> u <= n - 1 \/ u = n) /\ (u < n <=> u <= n - 1)
      BY <1>1, <3>1
    <3>2. CASE n \in batch /\ n \in chosen
      <4>1. first(n) = first(n - 1) \cup {n}
        BY <3>0, <3>2
      <4>2. {u \in batch : u < n} = {u \in batch : u <= n - 1}
        BY <3>0
      <4>3. Fits(n, busy \cup {u \in batch : u <= n - 1})
        BY <3>2, <4>2 DEF Greedy
      <4>4. Cardinality(first(n - 1)) < limit
        BY <3>2, <4>3
      <4>5. IsFiniteSet(first(n - 1))
        BY <1>1, FS_Subset
      <4>6. Cardinality(first(n - 1)) \in Nat /\ Cardinality(first(n)) <= Cardinality(first(n - 1)) + 1
        <5>1. Cardinality(first(n - 1)) \in Nat
          BY <4>5, FS_CardinalityType
        <5>2. \/ Cardinality(first(n - 1) \cup {n}) = Cardinality(first(n - 1))
              \/ Cardinality(first(n - 1) \cup {n}) = Cardinality(first(n - 1)) + 1
          <6> HIDE DEF first
          <6> QED
            BY <4>5, FS_AddElement, Zenon
        <5> HIDE DEF first
        <5> QED
          BY <4>1, <5>1, <5>2
      <4>7. Cardinality(first(n)) <= limit /\ n \in Nat
        <5>1. Cardinality(first(n)) \in Nat
          BY <1>1, FS_Subset, FS_CardinalityType
        <5> HIDE DEF first
        <5> QED
          BY <3>1, <4>4, <4>6, <5>1
      <4> QED
        BY <2>1, <4>7
    <3>3. CASE ~ (n \in batch /\ n \in chosen)
      <4>1. first(n) = first(n - 1)
        BY <3>0, <3>3
      <4> QED
        BY <2>1, <3>1, <4>1
    <3> QED
      BY <3>2, <3>3
  <2> QED
    BY <2>2, <2>3
<1>3. first(Len(plan.role)) = (busy \cup batch) \cap chosen
  <2>1. \A u \in batch : u <= Len(plan.role)
    BY <1>1
  <2> QED
    BY <2>1
<1> QED
  BY <1>2, <1>3

-----------------------------------------------------------------------------
(* Types.                                                                  *)

Flows == {"queue", "route"}

(* What the type of the plan says of its tasks. *)
LEMMA PlanTyped ==
  ASSUME plan \in Plans
  PROVE  /\ Len(plan.role) \in Nat /\ Tasks \subseteq Nat /\ 0 \notin Tasks /\ IsFiniteSet(Tasks)
         /\ \A t \in Tasks : plan.role[t] \in DOMAIN RoleLimit /\ plan.deps[t] \subseteq Tasks
<1>1. plan.role \in Seq(DOMAIN RoleLimit) /\ plan.deps \in [1 .. Len(plan.role) -> SUBSET (1 .. Len(plan.role))]
  BY PlansAssumption
<1>2. Len(plan.role) \in Nat
  BY <1>1
<1>3. IsFiniteSet(Tasks)
  BY <1>2, FS_Interval DEF Tasks
<1> QED
  BY <1>1, <1>2, <1>3 DEF Tasks

(* The jobs a flow can be given, and the fields they have. *)
LEMMA JobsTyped ==
  /\ Idle \in Jobs
  /\ \A kind \in JobKind, S \in SUBSET Tasks : Job(kind, S) \in Jobs
  /\ \A j \in Jobs, S \in SUBSET Tasks, t \in Tasks :
        /\ [j EXCEPT !.todo = S] \in Jobs
        /\ [[j EXCEPT !.todo = S] EXCEPT !.at = t] \in Jobs
        /\ [j EXCEPT !.at = 0] \in Jobs
BY DEF Idle, Jobs, Job, JobKind

(* Giving a flow a job leaves the other one its own. *)
LEMMA SetJobTyped ==
  ASSUME job \in [Flows -> Jobs], NEW d \in Flows, NEW j \in Jobs, SetJob(d, j)
  PROVE  /\ job' \in [Flows -> Jobs] /\ job'[d] = j
         /\ \A f \in Flows : f # d => job'[f] = job[f]
BY DEF SetJob, Flows

(* The next task of a job is one of those it has still to dispatch. *)
LEMMA NextTaskIsPending ==
  ASSUME Tasks \subseteq Nat, NEW d, job[d].todo \subseteq Tasks, job[d].todo # {}
  PROVE  NextTask(d) \in job[d].todo
<1>1. \E t \in job[d].todo : \A u \in job[d].todo : t <= u
  BY LeastNatural
<1> QED
  BY <1>1 DEF NextTask

(* An attempt that gets another status. *)
LEMMA SetAttemptTyped ==
  ASSUME attempts \in [Tasks -> Seq(AttemptStatus)], NEW t \in Tasks, NEW k \in Agents(t), NEW s \in AttemptStatus,
         SetAttempt(t, k, s)
  PROVE  /\ attempts' \in [Tasks -> Seq(AttemptStatus)]
         /\ \A u \in Tasks : Len(attempts'[u]) = Len(attempts[u])
         /\ \A u \in Tasks : \A n \in Agents(u) : attempts'[u][n] = IF u = t /\ n = k THEN s ELSE attempts[u][n]
<1>1. attempts[t] \in Seq(AttemptStatus) /\ k \in 1 .. Len(attempts[t])
  BY DEF Agents
<1>2. /\ [attempts[t] EXCEPT ![k] = s] \in Seq(AttemptStatus)
      /\ Len([attempts[t] EXCEPT ![k] = s]) = Len(attempts[t])
      /\ \A n \in 1 .. Len(attempts[t]) :
            [attempts[t] EXCEPT ![k] = s][n] = IF n = k THEN s ELSE attempts[t][n]
  BY <1>1
<1>3. attempts' = [attempts EXCEPT ![t] = [attempts[t] EXCEPT ![k] = s]]
  BY DEF SetAttempt
<1>4. \A u \in Tasks : attempts'[u] = IF u = t THEN [attempts[t] EXCEPT ![k] = s] ELSE attempts[u]
  BY <1>3
<1>5. attempts' \in [Tasks -> Seq(AttemptStatus)]
  BY <1>2, <1>3
<1> QED
  BY <1>2, <1>4, <1>5 DEF Agents

(* Attempts that get statuses all at once: an operation on every one.      *)
LEMMA MapAttemptsTyped ==
  ASSUME attempts \in [Tasks -> Seq(AttemptStatus)],
         NEW f, \A t \in Tasks : \A k \in Agents(t) : f[t][k] \in AttemptStatus,
         attempts' = [t \in Tasks |-> [k \in Agents(t) |-> f[t][k]]]
  PROVE  /\ attempts' \in [Tasks -> Seq(AttemptStatus)]
         /\ \A u \in Tasks : Len(attempts'[u]) = Len(attempts[u])
         /\ \A u \in Tasks : \A n \in Agents(u) : attempts'[u][n] = f[u][n]
<1>1. ASSUME NEW t \in Tasks
      PROVE  [k \in Agents(t) |-> f[t][k]] \in Seq(AttemptStatus) /\ Len([k \in Agents(t) |-> f[t][k]]) = Len(attempts[t])
  <2>1. Len(attempts[t]) \in Nat
    OBVIOUS
  <2> QED
    BY <2>1 DEF Agents
<1> QED
  BY <1>1

(* A task that is assigned gets an agent that is launching.                *)
LEMMA AssignTyped ==
  ASSUME attempts \in [Tasks -> Seq(AttemptStatus)], agent \in [Tasks -> Nat],
         NEW t \in Tasks, NEW taskNow \in [Tasks -> TaskStatus], Assign(t, taskNow)
  PROVE  /\ attempts' \in [Tasks -> Seq(AttemptStatus)]
         /\ Len(attempts[t]) < MaxAgents /\ Len(attempts'[t]) = Len(attempts[t]) + 1
         /\ \A u \in Tasks : u # t => attempts'[u] = attempts[u]
         /\ \A u \in Tasks : \A n \in Agents(u) : attempts'[u][n] = attempts[u][n]
         /\ attempts'[t][Len(attempts[t]) + 1] = "launching"
         /\ task' \in [Tasks -> TaskStatus] /\ task'[t] = "running"
         /\ \A u \in Tasks : u # t => task'[u] = taskNow[u]
         /\ agent' \in [Tasks -> Nat] /\ agent'[t] = Len(attempts[t]) + 1
         /\ \A u \in Tasks : u # t => agent'[u] = agent[u]
<1>1. attempts[t] \in Seq(AttemptStatus) /\ "launching" \in AttemptStatus /\ "running" \in TaskStatus
  BY DEF AttemptStatus, TaskStatus
<1>2. /\ Append(attempts[t], "launching") \in Seq(AttemptStatus)
      /\ Len(Append(attempts[t], "launching")) = Len(attempts[t]) + 1
      /\ \A n \in 1 .. Len(attempts[t]) : Append(attempts[t], "launching")[n] = attempts[t][n]
      /\ Append(attempts[t], "launching")[Len(attempts[t]) + 1] = "launching"
      /\ Len(attempts[t]) \in Nat
  BY <1>1
<1>3. /\ attempts' = [attempts EXCEPT ![t] = Append(attempts[t], "launching")]
      /\ task' = [taskNow EXCEPT ![t] = "running"]
      /\ agent' = [agent EXCEPT ![t] = Len(attempts[t]) + 1]
      /\ Len(attempts[t]) < MaxAgents
  BY DEF Assign
<1>4. attempts' \in [Tasks -> Seq(AttemptStatus)] /\ attempts'[t] = Append(attempts[t], "launching")
  BY <1>2, <1>3
<1>5. \A u \in Tasks : u # t => attempts'[u] = attempts[u]
  BY <1>3
<1>6. \A u \in Tasks : \A n \in Agents(u) : attempts'[u][n] = attempts[u][n]
  BY <1>2, <1>4, <1>5 DEF Agents
<1>7. /\ task' \in [Tasks -> TaskStatus] /\ task'[t] = "running"
      /\ \A u \in Tasks : u # t => task'[u] = taskNow[u]
  BY <1>1, <1>3
<1>8. /\ agent' \in [Tasks -> Nat] /\ agent'[t] = Len(attempts[t]) + 1
      /\ \A u \in Tasks : u # t => agent'[u] = agent[u]
  BY <1>2, <1>3
<1> QED
  BY <1>2, <1>3, <1>4, <1>5, <1>6, <1>7, <1>8

(* What is read from the inbox is a report of an agent the task has. *)
LEMMA HeadTyped ==
  ASSUME TypeOK, inbox # <<>>
  PROVE  /\ Head(inbox) \in Events /\ Head(inbox).t \in Tasks /\ Head(inbox).k \in Agents(Head(inbox).t)
         /\ 1 \in 1 .. Len(inbox) /\ Head(inbox) = inbox[1]
         /\ Tail(inbox) \in Seq(Events)
         /\ \A i \in 1 .. Len(Tail(inbox)) : i + 1 \in 1 .. Len(inbox) /\ Tail(inbox)[i] = inbox[i + 1]
<1>1. inbox \in Seq(Events) /\ \A i \in 1 .. Len(inbox) : inbox[i].k \in Agents(inbox[i].t)
  BY DEF TypeOK
<1>2. /\ 1 \in 1 .. Len(inbox) /\ Head(inbox) = inbox[1] /\ Head(inbox) \in Events /\ Tail(inbox) \in Seq(Events)
      /\ \A i \in 1 .. Len(Tail(inbox)) : i + 1 \in 1 .. Len(inbox) /\ Tail(inbox)[i] = inbox[i + 1]
  BY <1>1
<1>3. Head(inbox).t \in Tasks
  BY <1>2 DEF Events
<1> QED
  BY <1>1, <1>2, <1>3

(* A report that is added. *)
LEMMA AppendTyped ==
  ASSUME TypeOK, NEW type \in {"completed", "failed"}, NEW t \in Tasks, NEW k \in Agents(t), NEW pass \in BOOLEAN,
         inbox' = Append(inbox, Event(type, t, k, pass))
  PROVE  /\ inbox' \in Seq(Events) /\ Len(inbox') = Len(inbox) + 1 /\ Len(inbox) \in Nat
         /\ \A i \in 1 .. Len(inbox) : inbox'[i] = inbox[i] /\ inbox[i].t \in Tasks /\ inbox[i].k \in Agents(inbox[i].t)
         /\ inbox'[Len(inbox) + 1] = Event(type, t, k, pass)
<1>1. inbox \in Seq(Events) /\ \A i \in 1 .. Len(inbox) : inbox[i].k \in Agents(inbox[i].t)
  BY DEF TypeOK
<1>2. Event(type, t, k, pass) \in Events
  BY DEF Event, Events, Agents
<1>3. \A i \in 1 .. Len(inbox) : inbox[i].t \in Tasks
  <2>1. \A i \in 1 .. Len(inbox) : inbox[i] \in Events
    BY <1>1
  <2> QED
    BY <2>1 DEF Events
<1> QED
  BY <1>1, <1>2, <1>3

(* A disturbance is counted.                                               *)
LEMMA DisturbTyped ==
  ASSUME spent \in [Kinds -> Nat], NEW kind \in Kinds, Disturb(kind)
  PROVE  /\ spent' \in [Kinds -> Nat] /\ spent'[kind] = spent[kind] + 1
         /\ \A other \in Kinds : other # kind => spent'[other] = spent[other]
<1>1. spent' = [spent EXCEPT ![kind] = spent[kind] + 1]
  BY DEF Disturb
<1> QED
  BY <1>1

(* What a step may do to the attempts when no task gets an agent. *)
Kept == /\ attempts' \in [Tasks -> Seq(AttemptStatus)]
        /\ \A t \in Tasks : Len(attempts'[t]) = Len(attempts[t])
        /\ \A t \in Tasks : \A n \in Agents(t) :
              attempts[t][n] \in {"completed", "failed"} => attempts'[t][n] = attempts[t][n]

(* A step that completes no attempt. *)
NoNewWork == \A t \in Tasks : \A n \in 1 .. Len(attempts'[t]) :
                attempts'[t][n] = "completed" => n \in Agents(t) /\ attempts[t][n] = "completed"

(* What the agents do keeps the history of what has ended.                 *)
LEMMA AgentsKeepAttempts ==
  ASSUME TypeOK, AgentStep
  PROVE  Kept /\ (job["route"] # Idle => NoNewWork)
<1>0. PICK t \in Tasks : \E k \in Agents(t) :
         \/ ClaimAttempt(t, k) \/ StartAgent(t, k) \/ LaunchFails(t, k)
         \/ Report(t, k) \/ ReportAgain(t, k) \/ ExpireAttempt(t, k)
  BY DEF AgentStep
<1>1. PICK k \in Agents(t) :
         \/ ClaimAttempt(t, k) \/ StartAgent(t, k) \/ LaunchFails(t, k)
         \/ Report(t, k) \/ ReportAgain(t, k) \/ ExpireAttempt(t, k)
  BY <1>0
<1>2. attempts \in [Tasks -> Seq(AttemptStatus)]
  BY DEF TypeOK
<1>3. ASSUME NEW s \in AttemptStatus, SetAttempt(t, k, s), attempts[t][k] \notin {"completed", "failed"},
             s = "completed" => job["route"] = Idle
      PROVE  Kept /\ (job["route"] # Idle => NoNewWork)
  <2>1. /\ attempts' \in [Tasks -> Seq(AttemptStatus)]
        /\ \A u \in Tasks : Len(attempts'[u]) = Len(attempts[u])
        /\ \A u \in Tasks : \A n \in Agents(u) : attempts'[u][n] = IF u = t /\ n = k THEN s ELSE attempts[u][n]
    BY <1>2, <1>3, SetAttemptTyped
  <2>2. Kept
    BY <1>3, <2>1 DEF Kept
  <2>3. ASSUME job["route"] # Idle, NEW u \in Tasks, NEW n \in 1 .. Len(attempts'[u]), attempts'[u][n] = "completed"
        PROVE  n \in Agents(u) /\ attempts[u][n] = "completed"
    BY <1>3, <2>1, <2>3 DEF Agents
  <2> QED
    BY <2>2, <2>3 DEF NoNewWork
<1>4. CASE ClaimAttempt(t, k) \/ StartAgent(t, k)
  <2>1. "claimed" \in AttemptStatus /\ "live" \in AttemptStatus
    BY DEF AttemptStatus
  <2> QED
    BY <1>3, <1>4, <2>1 DEF ClaimAttempt, StartAgent
<1>5. CASE LaunchFails(t, k)
  <2>1. {"lost", "failed", "expired"} \subseteq AttemptStatus
    BY DEF AttemptStatus
  <2>2. \E s \in {"lost", "failed", "expired"} : SetAttempt(t, k, s)
    BY <1>5 DEF LaunchFails
  <2> QED
    BY <1>3, <1>5, <2>1, <2>2 DEF LaunchFails
<1>6. CASE Report(t, k)
  <2>1. {"completed", "failed"} \subseteq AttemptStatus
    BY DEF AttemptStatus
  <2>2. \E s \in {"completed", "failed"} : SetAttempt(t, k, s)
    BY <1>6 DEF Report
  <2> QED
    BY <1>3, <1>6, <2>1, <2>2 DEF Report
<1>7. CASE ReportAgain(t, k)
  BY <1>2, <1>7 DEF ReportAgain, rows, Kept, NoNewWork, Agents
<1>8. CASE ExpireAttempt(t, k)
  <2>1. {"overdue", "expired"} \subseteq AttemptStatus
    BY DEF AttemptStatus
  <2>2. \E s \in {"overdue", "expired"} : SetAttempt(t, k, s)
    BY <1>8 DEF ExpireAttempt
  <2> QED
    BY <1>3, <1>8, <2>1, <2>2 DEF ExpireAttempt
<1> QED
  BY <1>1, <1>4, <1>5, <1>6, <1>7, <1>8

(* So does whatever sets attempts all at once, as long as it leaves what   *)
(* has ended alone.                                                        *)
LEMMA MapKeepsAttempts ==
  ASSUME TypeOK, NEW f,
         \A t \in Tasks : \A k \in Agents(t) :
            /\ f[t][k] \in AttemptStatus
            /\ attempts[t][k] \in {"completed", "failed"} => f[t][k] = attempts[t][k]
            /\ f[t][k] = "completed" => attempts[t][k] = "completed",
         attempts' = [t \in Tasks |-> [k \in Agents(t) |-> f[t][k]]]
  PROVE  Kept /\ NoNewWork
<1>1. attempts \in [Tasks -> Seq(AttemptStatus)]
  BY DEF TypeOK
<1>2. /\ attempts' \in [Tasks -> Seq(AttemptStatus)]
      /\ \A u \in Tasks : Len(attempts'[u]) = Len(attempts[u])
      /\ \A u \in Tasks : \A n \in Agents(u) : attempts'[u][n] = f[u][n]
  BY <1>1, MapAttemptsTyped
<1>3. Kept
  BY <1>2 DEF Kept
<1>4. NoNewWork
  BY <1>2 DEF NoNewWork, Agents
<1> QED
  BY <1>3, <1>4

(* The statuses of attempts are statuses.                                  *)
LEMMA AttemptTyped ==
  ASSUME TypeOK, NEW t \in Tasks, NEW k \in Agents(t)
  PROVE  attempts[t][k] \in AttemptStatus
<1>1. attempts[t] \in Seq(AttemptStatus)
  BY DEF TypeOK
<1> QED
  BY <1>1 DEF Agents

(* Giving up a retry stops agents and rejects tasks, within their types. *)
LEMMA AbortTyped ==
  ASSUME TypeOK, NEW d \in Flows, NEW taskNow \in [Tasks -> TaskStatus], AbortRetry(d, taskNow)
  PROVE  /\ Kept /\ NoNewWork
         /\ task' \in [Tasks -> TaskStatus] /\ mission' \in MissionStatus
         /\ \A t \in Tasks : task'[t] # taskNow[t] => taskNow[t] = "running" /\ task'[t] = "rejected"
<1> DEFINE f == [t \in Tasks |-> [k \in Agents(t) |->
                   IF t \in job[d].picked /\ k = agent[t] /\ attempts[t][k] = "live" THEN "cancelled" ELSE attempts[t][k]]]
<1>1. attempts' = [t \in Tasks |-> [k \in Agents(t) |-> f[t][k]]]
  BY DEF AbortRetry
<1>2. ASSUME NEW t \in Tasks, NEW k \in Agents(t)
      PROVE  /\ f[t][k] \in AttemptStatus
             /\ attempts[t][k] \in {"completed", "failed"} => f[t][k] = attempts[t][k]
             /\ f[t][k] = "completed" => attempts[t][k] = "completed"
  <2>1. attempts[t][k] \in AttemptStatus /\ "cancelled" \in AttemptStatus
    BY AttemptTyped DEF AttemptStatus
  <2> QED
    BY <2>1
<1>3. Kept /\ NoNewWork
  <2> HIDE DEF f
  <2> QED
    BY <1>1, <1>2, MapKeepsAttempts
<1>4. task' \in [Tasks -> TaskStatus]
  BY DEF AbortRetry, TaskStatus
<1>5. mission' \in MissionStatus
  BY DEF AbortRetry, MissionStatus, TypeOK
<1>6. \A t \in Tasks : task'[t] # taskNow[t] => taskNow[t] = "running" /\ task'[t] = "rejected"
  BY DEF AbortRetry
<1> QED
  BY <1>3, <1>4, <1>5, <1>6

(* What a dispatch does to the task it takes and to the job of its flow.   *)
LEMMA DispatchTyped ==
  ASSUME TypeOK, NEW d \in Flows, Dispatch(d)
  PROVE  \E t \in Tasks, now \in [Tasks -> TaskStatus] :
           /\ t \in job[d].todo /\ job[d].at = 0
           /\ now[t] \in {task[t], "ready"} /\ \A u \in Tasks : u # t => now[u] = task[u]
           /\ job' \in [Flows -> Jobs] /\ \A f \in Flows : f # d => job'[f] = job[f]
           /\ job'[d].kind = job[d].kind /\ job'[d].todo = job[d].todo \ {t}
           /\ \/ /\ plan.role[t] = "builder" /\ job'[d].at = t
                 /\ task' = now /\ UNCHANGED <<mission, agent, attempts>>
              \/ plan.role[t] # "builder" /\ job'[d].at = 0 /\ Assign(t, now)
<1> DEFINE t == NextTask(d)
           now == IF job[d].kind \in {"legacy", "reconcile"} THEN [task EXCEPT ![t] = "ready"] ELSE task
<1>1. Tasks \subseteq Nat /\ job \in [Flows -> Jobs] /\ job[d] \in Jobs /\ task \in [Tasks -> TaskStatus]
  BY PlanTyped DEF TypeOK, Flows
<1>2. job[d].todo \subseteq Tasks /\ job[d].todo # {} /\ job[d].at = 0
  BY <1>1 DEF Jobs, Dispatch
<1>3. t \in job[d].todo /\ t \in Tasks
  BY <1>1, <1>2, NextTaskIsPending
<1>4. now \in [Tasks -> TaskStatus] /\ now[t] \in {task[t], "ready"} /\ \A u \in Tasks : u # t => now[u] = task[u]
  <2>1. "ready" \in TaskStatus
    BY DEF TaskStatus
  <2> HIDE DEF t
  <2> QED
    BY <1>1, <1>3, <2>1
<1>5. /\ Rest(d, t) \in Jobs /\ [Rest(d, t) EXCEPT !.at = t] \in Jobs
      /\ Rest(d, t).kind = job[d].kind /\ Rest(d, t).todo = job[d].todo \ {t} /\ Rest(d, t).at = 0
      /\ [Rest(d, t) EXCEPT !.at = t].kind = job[d].kind
      /\ [Rest(d, t) EXCEPT !.at = t].todo = job[d].todo \ {t}
      /\ [Rest(d, t) EXCEPT !.at = t].at = t
  <2> HIDE DEF t
  <2> QED
    BY <1>1, <1>2, <1>3 DEF Rest, Jobs
<1>6. CASE plan.role[t] = "builder"
  <2>1. task' = now /\ SetJob(d, [Rest(d, t) EXCEPT !.at = t]) /\ UNCHANGED <<mission, agent, attempts>>
    BY <1>6 DEF Dispatch
  <2>2. /\ job' \in [Flows -> Jobs] /\ job'[d] = [Rest(d, t) EXCEPT !.at = t]
        /\ \A f \in Flows : f # d => job'[f] = job[f]
    BY <1>1, <1>5, <2>1, SetJobTyped
  <2> HIDE DEF t, now
  <2> QED
    BY <1>2, <1>3, <1>4, <1>5, <1>6, <2>1, <2>2
<1>7. CASE plan.role[t] # "builder"
  <2>1. Assign(t, now) /\ SetJob(d, Rest(d, t))
    BY <1>7 DEF Dispatch
  <2>2. /\ job' \in [Flows -> Jobs] /\ job'[d] = Rest(d, t)
        /\ \A f \in Flows : f # d => job'[f] = job[f]
    BY <1>1, <1>5, <2>1, SetJobTyped
  <2> HIDE DEF t, now
  <2> QED
    BY <1>2, <1>3, <1>4, <1>5, <1>7, <2>1, <2>2
<1> QED
  BY <1>6, <1>7

(* What the end of a preflight does to the task that waited for it.        *)
LEMMA PassTyped ==
  ASSUME TypeOK, NEW d \in Flows, PreflightPasses(d)
  PROVE  \E t \in Tasks :
           /\ job[d].at = t /\ Assign(t, task)
           /\ job' \in [Flows -> Jobs] /\ \A f \in Flows : f # d => job'[f] = job[f]
           /\ job'[d].kind = job[d].kind /\ job'[d].todo = job[d].todo /\ job'[d].at = 0
<1>1. job \in [Flows -> Jobs] /\ job[d] \in Jobs
  BY DEF TypeOK, Flows
<1>2. job[d].at \in Tasks /\ Assign(job[d].at, task) /\ SetJob(d, [job[d] EXCEPT !.at = 0])
  BY <1>1 DEF PreflightPasses, Jobs
<1>3. /\ [job[d] EXCEPT !.at = 0] \in Jobs /\ [job[d] EXCEPT !.at = 0].kind = job[d].kind
      /\ [job[d] EXCEPT !.at = 0].todo = job[d].todo /\ [job[d] EXCEPT !.at = 0].at = 0
  BY <1>1 DEF Jobs
<1>4. /\ job' \in [Flows -> Jobs] /\ job'[d] = [job[d] EXCEPT !.at = 0]
      /\ \A f \in Flows : f # d => job'[f] = job[f]
  BY <1>1, <1>2, <1>3, SetJobTyped
<1> QED
  BY <1>2, <1>3, <1>4

(* A task that may get an agent in this step. *)
MayGrow(t) == \E d \in Flows : job[d].at = t \/ (t \in job[d].todo /\ plan.role[t] # "builder")

(* What any step does to the attempts. *)
Growth ==
  /\ attempts' \in [Tasks -> Seq(AttemptStatus)]
  /\ \A t \in Tasks : /\ Len(attempts'[t]) \in {Len(attempts[t]), Len(attempts[t]) + 1}
                      /\ Len(attempts'[t]) <= MaxAgents
                      /\ Len(attempts'[t]) # Len(attempts[t]) => MayGrow(t)
  /\ \A t \in Tasks : \A n \in Agents(t) :
        attempts[t][n] \in {"completed", "failed"} => attempts'[t][n] = attempts[t][n]
  /\ job["route"] # Idle => NoNewWork

(* Nothing but an agent's own report completes an attempt, and only the    *)
(* flows give a task a new one.                                            *)
LEMMA StepsOnAttempts ==
  ASSUME TypeOK, [Next]_vars
  PROVE  plan' = plan /\ Tasks' = Tasks /\ Growth
<1>0. plan' = plan /\ Tasks' = Tasks
  <2>1. plan' = plan
    BY
       DEF Next, AgentStep, ClaimAttempt, StartAgent, LaunchFails, Report, ReportAgain, ExpireAttempt,
           QueueStep,
           DispatchStep, Dispatch, SkipTask, PreflightPasses, PreflightFails, RetryRefused, EndBatch, Reconcile,
           DropEvent, GateFails, TaskCompleted, Complete, TaskFailedRetries, TaskFailedExhausted, UserStep, DecidePlan,
           DecideApply, SelectCandidate, RetryMission, BeginCancel, RouteOnly, CommitCancel, Restart, RecoveryStep,
           FinishRecovery, RecoverExpired, vars, rows
  <2> QED
    BY <2>1 DEF Tasks
<1> SUFFICES Growth
  BY <1>0
<1>1. /\ attempts \in [Tasks -> Seq(AttemptStatus)] /\ agent \in [Tasks -> Nat] /\ task \in [Tasks -> TaskStatus]
      /\ \A t \in Tasks : Len(attempts[t]) <= MaxAgents /\ Len(attempts[t]) \in Nat
      /\ MaxAgents \in Nat
  BY BoundsAssumption DEF TypeOK
<1>2. ASSUME Kept, job["route"] # Idle => NoNewWork
      PROVE  Growth
  BY <1>1, <1>2 DEF Kept, Growth
<1>3. ASSUME UNCHANGED attempts
      PROVE  Growth
  <2>1. Kept /\ NoNewWork
    BY <1>1, <1>3 DEF Kept, NoNewWork, Agents
  <2> QED
    BY <1>2, <2>1
<1>4. ASSUME NEW t \in Tasks, NEW now \in [Tasks -> TaskStatus], Assign(t, now), MayGrow(t)
      PROVE  Growth
  <2>1. /\ attempts' \in [Tasks -> Seq(AttemptStatus)]
        /\ Len(attempts[t]) < MaxAgents /\ Len(attempts'[t]) = Len(attempts[t]) + 1
        /\ \A u \in Tasks : u # t => attempts'[u] = attempts[u]
        /\ \A u \in Tasks : \A n \in Agents(u) : attempts'[u][n] = attempts[u][n]
        /\ attempts'[t][Len(attempts[t]) + 1] = "launching"
    BY <1>1, <1>4, AssignTyped
  <2>2. NoNewWork
    <3> SUFFICES ASSUME NEW u \in Tasks, NEW n \in 1 .. Len(attempts'[u]), attempts'[u][n] = "completed"
                 PROVE  n \in Agents(u) /\ attempts[u][n] = "completed"
      BY DEF NoNewWork
    <3>1. n \in 1 .. Len(attempts[u])
      BY <1>1, <2>1
    <3> QED
      BY <2>1, <3>1 DEF Agents
  <2>3. \A u \in Tasks : /\ Len(attempts'[u]) \in {Len(attempts[u]), Len(attempts[u]) + 1}
                         /\ Len(attempts'[u]) <= MaxAgents
                         /\ Len(attempts'[u]) # Len(attempts[u]) => MayGrow(u)
    <3>1. \A u \in Tasks : u # t => Len(attempts'[u]) = Len(attempts[u])
      BY <2>1
    <3>2. Len(attempts'[t]) = Len(attempts[t]) + 1 /\ Len(attempts'[t]) <= MaxAgents
      BY <1>1, <2>1
    <3> QED
      BY <1>1, <1>4, <3>1, <3>2
  <2> QED
    BY <2>1, <2>2, <2>3 DEF Growth
<1>5. ASSUME NEW d \in Flows, Dispatch(d)
      PROVE  Growth
  <2>1. PICK t \in Tasks, now \in [Tasks -> TaskStatus] :
           /\ t \in job[d].todo
           /\ \/ UNCHANGED attempts
              \/ plan.role[t] # "builder" /\ Assign(t, now)
    BY <1>5, DispatchTyped
  <2> QED
    BY <1>3, <1>4, <2>1 DEF MayGrow
<1>6. ASSUME NEW d \in Flows, PreflightPasses(d)
      PROVE  Growth
  <2>1. PICK t \in Tasks : job[d].at = t /\ Assign(t, task)
    BY <1>6, PassTyped
  <2> QED
    BY <1>1, <1>4, <2>1 DEF MayGrow
<1>7. ASSUME NEW d \in Flows, PreflightFails(d) \/ RetryRefused(d)
      PROVE  Growth
  <2>1. CASE UNCHANGED attempts
    BY <1>3, <2>1
  <2>2. ASSUME NEW now \in [Tasks -> TaskStatus], AbortRetry(d, now)
        PROVE  Growth
    BY <1>2, <2>2, AbortTyped
  <2>3. CASE RetryRefused(d)
    BY <1>1, <2>2, <2>3 DEF RetryRefused
  <2>4. CASE PreflightFails(d)
    <3> DEFINE t == job[d].at
               now == IF mission \in TerminalMission \/ task[t] \in FencedTask THEN task ELSE [task EXCEPT ![t] = "blocked"]
    <3>1. now \in [Tasks -> TaskStatus]
      BY <1>1 DEF TaskStatus
    <3>2. AbortRetry(d, now) \/ UNCHANGED attempts
      BY <2>4 DEF PreflightFails
    <3> QED
      BY <2>1, <2>2, <3>1, <3>2
  <2> QED
    BY <1>7, <2>3, <2>4
<1>8. CASE BeginCancel
  <2> DEFINE f == [t \in Tasks |-> [k \in Agents(t) |-> IF attempts[t][k] = "live" THEN "cancelled" ELSE attempts[t][k]]]
  <2>1. attempts' = [t \in Tasks |-> [k \in Agents(t) |-> f[t][k]]]
    BY <1>8 DEF BeginCancel
  <2>2. ASSUME NEW t \in Tasks, NEW k \in Agents(t)
        PROVE  /\ f[t][k] \in AttemptStatus
               /\ attempts[t][k] \in {"completed", "failed"} => f[t][k] = attempts[t][k]
               /\ f[t][k] = "completed" => attempts[t][k] = "completed"
    BY AttemptTyped DEF AttemptStatus
  <2>3. Kept /\ NoNewWork
    <3> HIDE DEF f
    <3> QED
      BY <2>1, <2>2, MapKeepsAttempts
  <2> QED
    BY <1>2, <2>3
<1>9. CASE Restart
  <2> DEFINE f == [t \in Tasks |-> [k \in Agents(t) |->
                     CASE attempts[t][k] \in {"claimed", "live", "overdue"} -> "expired"
                       [] attempts[t][k] = "launching" -> "lost"
                       [] OTHER -> attempts[t][k]]]
  <2>1. attempts' = [t \in Tasks |-> [k \in Agents(t) |-> f[t][k]]]
    BY <1>9 DEF Restart
  <2>2. ASSUME NEW t \in Tasks, NEW k \in Agents(t)
        PROVE  /\ f[t][k] \in AttemptStatus
               /\ attempts[t][k] \in {"completed", "failed"} => f[t][k] = attempts[t][k]
               /\ f[t][k] = "completed" => attempts[t][k] = "completed"
    BY AttemptTyped DEF AttemptStatus
  <2>3. Kept /\ NoNewWork
    <3> HIDE DEF f
    <3> QED
      BY <2>1, <2>2, MapKeepsAttempts
  <2> QED
    BY <1>2, <2>3
<1>10. CASE AgentStep
  <2>1. Kept /\ (job["route"] # Idle => NoNewWork)
    BY <1>10, AgentsKeepAttempts
  <2> QED
    BY <1>2, <2>1
<1>11. ASSUME NEW d \in Flows, SkipTask(d) \/ EndBatch(d)
       PROVE  Growth
  BY <1>3, <1>11 DEF SkipTask, EndBatch, rows
<1>12. CASE Reconcile \/ DropEvent \/ GateFails \/ TaskCompleted \/ TaskFailedRetries \/ TaskFailedExhausted
  <2>1. CASE TaskCompleted
    <3>1. UNCHANGED attempts
      BY <2>1 DEF TaskCompleted, Complete
    <3> QED
      BY <1>3, <3>1
  <2>2. CASE ~ TaskCompleted
    <3>1. UNCHANGED attempts
      BY <1>12, <2>2 DEF Reconcile, DropEvent, GateFails, TaskFailedRetries, TaskFailedExhausted, rows
    <3> QED
      BY <1>3, <3>1
  <2> QED
    BY <2>1, <2>2
<1>13. CASE \/ \E approved \in BOOLEAN : DecidePlan(approved) \/ DecideApply(approved)
            \/ \E c \in Tasks : SelectCandidate(c)
            \/ \E chosen \in SUBSET Tasks : RetryMission(chosen)
  <2>1. UNCHANGED attempts
    BY <1>13 DEF DecidePlan, DecideApply, SelectCandidate, RetryMission
  <2> QED
    BY <1>3, <2>1
<1>14. CASE CommitCancel \/ RecoveryStep \/ UNCHANGED vars
  <2>1. UNCHANGED attempts
    BY <1>14 DEF CommitCancel, RecoveryStep, FinishRecovery, RecoverExpired, rows, vars
  <2> QED
    BY <1>3, <2>1
<1>15. ASSUME NEW d \in Flows, DispatchStep(d)
       PROVE  Growth
  BY <1>5, <1>6, <1>7, <1>11, <1>15 DEF DispatchStep
<1>16. "queue" \in Flows /\ "route" \in Flows
  BY DEF Flows
<1>17. CASE QueueStep
  <2>1. CASE DispatchStep("queue")
    BY <1>15, <1>16, <2>1
  <2> QED
    BY <1>12, <1>17, <2>1 DEF QueueStep
<1>18. CASE UserStep
  BY <1>8, <1>13, <1>18 DEF UserStep
<1>19. CASE DispatchStep("route")
  BY <1>15, <1>16, <1>19
<1> QED
  BY <1>9, <1>10, <1>14, <1>17, <1>18, <1>19 DEF Next

(* The types of everything but the plan and the attempts after a step. *)
RowsTyped == /\ mission' \in MissionStatus /\ asked' \subseteq {"plan", "candidate_selection", "apply"}
             /\ task' \in [Tasks -> TaskStatus]
             /\ agent' \in [Tasks -> Nat] /\ \A t \in Tasks : agent'[t] <= Len(attempts'[t])
MemoryTyped == /\ retries' \in [Tasks -> Nat] /\ handled' \subseteq Tasks \X Nat
               /\ cancelling' \in BOOLEAN /\ recovering' \in BOOLEAN
HistoryTyped == spent' \in [Kinds -> Nat] /\ passed' \subseteq Tasks /\ lost' \in BOOLEAN
InboxTyped == /\ inbox' \in Seq(Events)
              /\ \A i \in 1 .. Len(inbox') : inbox'[i].t \in Tasks /\ inbox'[i].k \in 1 .. Len(attempts'[inbox'[i].t])
JobTyped == job' \in [Flows -> Jobs]

(* What stays keeps its type.                                              *)
LEMMA StaysTyped ==
  ASSUME TypeOK, Growth
  PROVE  /\ \A t \in Tasks : Len(attempts'[t]) \in Nat /\ Len(attempts[t]) <= Len(attempts'[t])
         /\ UNCHANGED <<mission, asked, task, agent>> => RowsTyped
         /\ UNCHANGED <<retries, handled, cancelling, recovering>> => MemoryTyped
         /\ UNCHANGED <<spent, passed, lost>> => HistoryTyped
         /\ UNCHANGED inbox => InboxTyped
         /\ inbox # <<>> /\ inbox' = Tail(inbox) => InboxTyped
         /\ UNCHANGED job => JobTyped
<1>1. \A t \in Tasks : Len(attempts'[t]) \in Nat /\ Len(attempts[t]) \in Nat /\ Len(attempts[t]) <= Len(attempts'[t])
  BY DEF TypeOK, Growth
<1>2. UNCHANGED <<mission, asked, task, agent>> => RowsTyped
  <2> SUFFICES ASSUME UNCHANGED <<mission, asked, task, agent>>
               PROVE  RowsTyped
    OBVIOUS
  <2>1. agent' \in [Tasks -> Nat] /\ \A t \in Tasks : agent'[t] <= Len(attempts[t])
    BY DEF TypeOK
  <2>2. \A t \in Tasks : agent'[t] <= Len(attempts'[t])
    BY <1>1, <2>1
  <2> QED
    BY <2>1, <2>2 DEF TypeOK, RowsTyped
<1>3. UNCHANGED <<retries, handled, cancelling, recovering>> => MemoryTyped
  BY DEF TypeOK, MemoryTyped
<1>4. UNCHANGED <<spent, passed, lost>> => HistoryTyped
  BY DEF TypeOK, HistoryTyped
<1>5. \A i \in 1 .. Len(inbox) : inbox[i].t \in Tasks /\ inbox[i].k \in 1 .. Len(attempts'[inbox[i].t])
  <2> SUFFICES ASSUME NEW i \in 1 .. Len(inbox)
               PROVE  inbox[i].t \in Tasks /\ inbox[i].k \in 1 .. Len(attempts'[inbox[i].t])
    OBVIOUS
  <2>1. inbox[i] \in Events /\ inbox[i].k \in 1 .. Len(attempts[inbox[i].t])
    BY DEF TypeOK, Agents
  <2>2. inbox[i].t \in Tasks
    BY <2>1 DEF Events
  <2> QED
    BY <1>1, <2>1, <2>2
<1>6. UNCHANGED inbox => InboxTyped
  BY <1>5 DEF TypeOK, InboxTyped
<1>7. inbox # <<>> /\ inbox' = Tail(inbox) => InboxTyped
  <2> SUFFICES ASSUME inbox # <<>>, inbox' = Tail(inbox)
               PROVE  InboxTyped
    OBVIOUS
  <2>1. /\ Tail(inbox) \in Seq(Events)
        /\ \A i \in 1 .. Len(Tail(inbox)) : i + 1 \in 1 .. Len(inbox) /\ Tail(inbox)[i] = inbox[i + 1]
    BY HeadTyped
  <2> QED
    BY <1>5, <2>1 DEF InboxTyped
<1>8. UNCHANGED job => JobTyped
  BY DEF TypeOK, JobTyped, Flows
<1> QED
  BY <1>1, <1>2, <1>3, <1>4, <1>6, <1>7, <1>8

(* A report that is added keeps the type of the inbox. *)
LEMMA AppendKeepsInbox ==
  ASSUME TypeOK, Growth, NEW type \in {"completed", "failed"}, NEW t \in Tasks, NEW k \in Agents(t), NEW pass \in BOOLEAN,
         inbox' = Append(inbox, Event(type, t, k, pass))
  PROVE  InboxTyped
<1>1. /\ inbox' \in Seq(Events) /\ Len(inbox') = Len(inbox) + 1 /\ Len(inbox) \in Nat
      /\ \A i \in 1 .. Len(inbox) : inbox'[i] = inbox[i] /\ inbox[i].t \in Tasks /\ inbox[i].k \in Agents(inbox[i].t)
      /\ inbox'[Len(inbox) + 1] = Event(type, t, k, pass)
  BY AppendTyped
<1>2. \A u \in Tasks : Len(attempts'[u]) \in Nat /\ Len(attempts[u]) \in Nat /\ Len(attempts[u]) <= Len(attempts'[u])
  BY DEF TypeOK, Growth
<1>3. ASSUME NEW i \in 1 .. Len(inbox')
      PROVE  inbox'[i].t \in Tasks /\ inbox'[i].k \in 1 .. Len(attempts'[inbox'[i].t])
  <2>1. CASE i \in 1 .. Len(inbox)
    BY <1>1, <1>2, <2>1 DEF Agents
  <2>2. CASE i = Len(inbox) + 1
    BY <1>1, <1>2, <2>2 DEF Agents, Event
  <2> QED
    BY <1>1, <2>1, <2>2
<1> QED
  BY <1>1, <1>3 DEF InboxTyped

(* A flow that is given a job of the type has one.                         *)
LEMMA NewJobTyped ==
  ASSUME TypeOK
  PROVE  /\ \A d \in Flows, j \in Jobs : SetJob(d, j) => JobTyped
         /\ \A kind \in JobKind, S \in SUBSET Tasks : Job(kind, S) \in Jobs
         /\ Idle \in Jobs
<1>1. job \in [Flows -> Jobs]
  BY DEF TypeOK, Flows
<1>2. \A d \in Flows, j \in Jobs : SetJob(d, j) => JobTyped
  BY <1>1, SetJobTyped DEF JobTyped
<1> QED
  BY <1>2, JobsTyped

(* The agents keep the types. *)
LEMMA AgentsTyped ==
  ASSUME TypeOK, Growth, AgentStep
  PROVE  RowsTyped /\ MemoryTyped /\ HistoryTyped /\ InboxTyped /\ JobTyped
<1>0. PICK t \in Tasks : \E k \in Agents(t) :
         \/ ClaimAttempt(t, k) \/ StartAgent(t, k) \/ LaunchFails(t, k)
         \/ Report(t, k) \/ ReportAgain(t, k) \/ ExpireAttempt(t, k)
  BY DEF AgentStep
<1>1. PICK k \in Agents(t) :
         \/ ClaimAttempt(t, k) \/ StartAgent(t, k) \/ LaunchFails(t, k)
         \/ Report(t, k) \/ ReportAgain(t, k) \/ ExpireAttempt(t, k)
  BY <1>0
<1>2. "failed" \in {"completed", "failed"} /\ FALSE \in BOOLEAN
  OBVIOUS
<1>3. CASE ClaimAttempt(t, k) \/ StartAgent(t, k)
  BY <1>3, StaysTyped DEF ClaimAttempt, StartAgent, memory, history
<1>4. CASE LaunchFails(t, k)
  <2>1. InboxTyped
    BY <1>2, <1>4, AppendKeepsInbox DEF LaunchFails
  <2>2. MemoryTyped /\ JobTyped
    BY <1>4, StaysTyped DEF LaunchFails
  <2>3. HistoryTyped
    BY <1>4 DEF LaunchFails, HistoryTyped, TypeOK
  <2>4. task' \in [Tasks -> TaskStatus]
    BY <1>4 DEF LaunchFails, TypeOK, TaskStatus
  <2>5. RowsTyped
    <3>1. agent' = agent /\ mission' = mission /\ asked' = asked /\ agent \in [Tasks -> Nat]
          /\ \A u \in Tasks : agent[u] <= Len(attempts[u]) /\ Len(attempts[u]) \in Nat
      BY <1>4 DEF LaunchFails, TypeOK
    <3>2. \A u \in Tasks : agent'[u] <= Len(attempts'[u])
      BY <3>1, StaysTyped
    <3> QED
      BY <2>4, <3>1, <3>2 DEF RowsTyped, TypeOK
  <2> QED
    BY <2>1, <2>2, <2>3, <2>5
<1>5. CASE Report(t, k)
  <2>1. PICK type \in {"completed", "failed"}, pass \in BOOLEAN : inbox' = Append(inbox, Event(type, t, k, pass))
    BY <1>5 DEF Report
  <2>2. InboxTyped
    BY <2>1, AppendKeepsInbox
  <2>3. UNCHANGED <<plan, mission, asked, task, agent, retries, handled, job, cancelling, recovering, passed, lost, spent>>
    BY <1>5 DEF Report, history
  <2> QED
    BY <2>2, <2>3, StaysTyped
<1>6. CASE ReportAgain(t, k)
  <2>1. PICK type \in {"completed", "failed"} : inbox' = Append(inbox, Event(type, t, k, TRUE))
    BY <1>6 DEF ReportAgain
  <2>2. InboxTyped
    BY <2>1, AppendKeepsInbox
  <2>3. UNCHANGED <<plan, mission, asked, task, agent, retries, handled, job, cancelling, recovering, passed, lost>>
    BY <1>6 DEF ReportAgain, rows
  <2>4. spent' \in [Kinds -> Nat]
    BY <1>6, DisturbTyped DEF ReportAgain, TypeOK, Kinds
  <2>5. HistoryTyped
    BY <2>3, <2>4 DEF HistoryTyped, TypeOK
  <2> QED
    BY <2>2, <2>3, <2>5, StaysTyped
<1>7. CASE ExpireAttempt(t, k)
  <2>1. InboxTyped
    BY <1>2, <1>7, AppendKeepsInbox DEF ExpireAttempt
  <2>2. UNCHANGED <<plan, mission, asked, task, agent, retries, handled, job, cancelling, recovering, passed, lost>>
    BY <1>7 DEF ExpireAttempt
  <2>3. spent' \in [Kinds -> Nat]
    BY <1>7, DisturbTyped DEF ExpireAttempt, TypeOK, Kinds
  <2>4. HistoryTyped
    BY <2>2, <2>3 DEF HistoryTyped, TypeOK
  <2> QED
    BY <2>1, <2>2, <2>4, StaysTyped
<1> QED
  BY <1>1, <1>3, <1>4, <1>5, <1>6, <1>7

(* What is allocated among tasks are tasks. *)
LEMMA AllocatedTyped ==
  ASSUME TypeOK, NEW rowsNow, NEW candidates \in SUBSET Tasks
  PROVE  AllocatedIn(rowsNow, candidates) \in SUBSET candidates /\ AllocatedIn(rowsNow, candidates) \in SUBSET Tasks
<1>1. Len(plan.role) \in Nat
  BY PlanTyped DEF TypeOK
<1> QED
  BY <1>1, AllocatedIsGreedy

(* Dispatching keeps the types. *)
LEMMA DispatchKeepsTypes ==
  ASSUME TypeOK, Growth, NEW d \in Flows, DispatchStep(d)
  PROVE  RowsTyped /\ MemoryTyped /\ HistoryTyped /\ InboxTyped /\ JobTyped
<1>1. /\ attempts \in [Tasks -> Seq(AttemptStatus)] /\ agent \in [Tasks -> Nat] /\ task \in [Tasks -> TaskStatus]
      /\ \A t \in Tasks : agent[t] <= Len(attempts[t]) /\ Len(attempts[t]) \in Nat
      /\ mission \in MissionStatus /\ job \in [Flows -> Jobs] /\ job[d] \in Jobs
      /\ asked \subseteq {"plan", "candidate_selection", "apply"}
      /\ Tasks \subseteq Nat
  BY PlanTyped DEF TypeOK, Flows
<1>0. Idle \in Jobs /\ Job("due", {}) \in Jobs
  <2>1. "due" \in JobKind /\ {} \in SUBSET Tasks
    BY DEF JobKind
  <2> QED
    BY <2>1, NewJobTyped
<1>2. UNCHANGED <<plan, asked, retries, handled, inbox, cancelling, recovering, history>>
  BY DEF DispatchStep, Dispatch, SkipTask, PreflightPasses, PreflightFails, RetryRefused, EndBatch, rows
<1>3. MemoryTyped /\ HistoryTyped /\ InboxTyped
  BY <1>2, StaysTyped DEF history
<1>4. ASSUME NEW t \in Tasks, NEW now \in [Tasks -> TaskStatus], Assign(t, now)
      PROVE  RowsTyped
  <2>1. /\ Len(attempts'[t]) = Len(attempts[t]) + 1
        /\ task' \in [Tasks -> TaskStatus]
        /\ agent' \in [Tasks -> Nat] /\ agent'[t] = Len(attempts[t]) + 1
        /\ \A u \in Tasks : u # t => agent'[u] = agent[u]
    BY <1>1, <1>4, AssignTyped
  <2>2. mission' \in MissionStatus
    BY <1>1, <1>4 DEF Assign, MissionStatus
  <2>3. \A u \in Tasks : agent'[u] <= Len(attempts'[u])
    BY <1>1, <2>1, StaysTyped
  <2> QED
    BY <1>1, <1>2, <2>1, <2>2, <2>3 DEF RowsTyped
<1>5. ASSUME task' \in [Tasks -> TaskStatus], mission' \in MissionStatus, agent' = agent
      PROVE  RowsTyped
  <2>1. \A u \in Tasks : agent'[u] <= Len(attempts'[u])
    BY <1>1, <1>5, StaysTyped
  <2> QED
    BY <1>1, <1>2, <1>5, <2>1 DEF RowsTyped
<1>6. CASE Dispatch(d)
  <2>1. PICK t \in Tasks, now \in [Tasks -> TaskStatus] :
           /\ job' \in [Flows -> Jobs]
           /\ \/ task' = now /\ UNCHANGED <<mission, agent, attempts>>
              \/ Assign(t, now)
    BY <1>6, DispatchTyped
  <2>2. RowsTyped
    BY <1>1, <1>4, <1>5, <2>1
  <2> QED
    BY <1>3, <2>1, <2>2 DEF JobTyped
<1>7. CASE PreflightPasses(d)
  <2>1. PICK t \in Tasks : Assign(t, task) /\ job' \in [Flows -> Jobs]
    BY <1>7, PassTyped
  <2>2. RowsTyped
    BY <1>1, <1>4, <2>1
  <2> QED
    BY <1>3, <2>1, <2>2 DEF JobTyped
<1>8. CASE PreflightFails(d)
  <2> DEFINE t == job[d].at
             now == IF mission \in TerminalMission \/ task[t] \in FencedTask THEN task ELSE [task EXCEPT ![t] = "blocked"]
  <2>1. now \in [Tasks -> TaskStatus]
    BY <1>1 DEF TaskStatus
  <2>2. AbortRetry(d, now) \/ (task' = now /\ mission' \in {mission, "failed"})
    BY <1>8 DEF PreflightFails
  <2>3. task' \in [Tasks -> TaskStatus] /\ mission' \in MissionStatus
    <3>1. CASE AbortRetry(d, now)
      <4> HIDE DEF now
      <4> QED
        BY <2>1, <3>1, AbortTyped
    <3>2. CASE task' = now /\ mission' \in {mission, "failed"}
      BY <1>1, <2>1, <3>2 DEF MissionStatus
    <3> QED
      BY <2>2, <3>1, <3>2
  <2>4. RowsTyped
    BY <1>5, <1>8, <2>3 DEF PreflightFails
  <2> QED
    BY <1>0, <1>3, <1>8, <2>4, NewJobTyped DEF PreflightFails
<1>9. CASE RetryRefused(d)
  <2>1. task' \in [Tasks -> TaskStatus] /\ mission' \in MissionStatus
    BY <1>1, <1>9, AbortTyped DEF RetryRefused
  <2>2. RowsTyped
    BY <1>5, <1>9, <2>1 DEF RetryRefused
  <2> QED
    BY <1>0, <1>3, <1>9, <2>2, NewJobTyped DEF RetryRefused
<1>10. CASE SkipTask(d)
  <2>1. Rest(d, NextTask(d)) \in Jobs
    BY <1>1 DEF Rest, Jobs
  <2>2. RowsTyped
    BY <1>1, <1>5, <1>10 DEF SkipTask, rows
  <2> QED
    BY <1>3, <1>10, <2>1, <2>2, NewJobTyped DEF SkipTask
<1>11. CASE EndBatch(d)
  <2>1. RowsTyped
    BY <1>1, <1>5, <1>11 DEF EndBatch, rows
  <2>2. \E j \in {Idle, Job("due", {})} : SetJob(d, j)
    BY <1>11 DEF EndBatch
  <2> QED
    BY <1>0, <1>3, <2>1, <2>2, NewJobTyped
<1> QED
  BY <1>6, <1>7, <1>8, <1>9, <1>10, <1>11 DEF DispatchStep

(* The mission's queue keeps the types.                                    *)
LEMMA QueueKeepsTypes ==
  ASSUME TypeOK, Growth, \/ Reconcile \/ DropEvent \/ GateFails \/ TaskCompleted \/ TaskFailedRetries \/ TaskFailedExhausted
  PROVE  RowsTyped /\ MemoryTyped /\ HistoryTyped /\ InboxTyped /\ JobTyped
<1>1. /\ agent \in [Tasks -> Nat] /\ task \in [Tasks -> TaskStatus] /\ retries \in [Tasks -> Nat]
      /\ handled \subseteq Tasks \X Nat
      /\ \A t \in Tasks : agent[t] <= Len(attempts[t]) /\ Len(attempts[t]) \in Nat
      /\ mission \in MissionStatus /\ asked \subseteq {"plan", "candidate_selection", "apply"}
      /\ cancelling \in BOOLEAN /\ recovering \in BOOLEAN
      /\ passed \subseteq Tasks /\ lost \in BOOLEAN /\ spent \in [Kinds -> Nat]
  BY DEF TypeOK
<1>2. "queue" \in Flows /\ Idle \in Jobs /\ \A kind \in JobKind, S \in SUBSET Tasks : Job(kind, S) \in Jobs
  BY NewJobTyped DEF Flows
<1>3. \A j \in Jobs : SetJob("queue", j) => JobTyped
  BY <1>2, NewJobTyped
<1>4. {"due", "reconcile", "legacy", "single"} \subseteq JobKind
  BY DEF JobKind
<1>5. ASSUME task' \in [Tasks -> TaskStatus], mission' \in MissionStatus,
             agent' \in [Tasks -> Nat], \A t \in Tasks : agent'[t] <= agent[t],
             asked' \subseteq {"plan", "candidate_selection", "apply"}
      PROVE  RowsTyped
  <2>1. ASSUME NEW u \in Tasks
        PROVE  agent'[u] <= Len(attempts'[u])
    <3>1. agent'[u] \in Nat /\ agent[u] \in Nat /\ agent'[u] <= agent[u] /\ agent[u] <= Len(attempts[u])
      BY <1>1, <1>5
    <3>2. Len(attempts[u]) \in Nat /\ Len(attempts'[u]) \in Nat /\ Len(attempts[u]) <= Len(attempts'[u])
      BY <1>1, StaysTyped
    <3> QED
      BY <3>1, <3>2
  <2> QED
    BY <1>5, <2>1 DEF RowsTyped
<1>6. agent' = agent => \A t \in Tasks : agent'[t] <= agent[t]
  BY <1>1
<1>7. CASE Reconcile
  <2>1. MemoryTyped /\ HistoryTyped /\ InboxTyped
    BY <1>7, StaysTyped DEF Reconcile, history
  <2>2. Ready \in SUBSET Tasks
    BY DEF Ready, ReadyIn
  <2>3. Allocated(Ready) \in SUBSET Tasks
    BY <2>2, AllocatedTyped DEF Allocated
  <2>4. \/ SetJob("queue", Idle)
        \/ SetJob("queue", Job("reconcile", Allocated(Ready)))
    BY <1>7 DEF Reconcile
  <2>5. JobTyped
    BY <1>2, <1>3, <1>4, <2>3, <2>4
  <2>6. mission' \in MissionStatus /\ asked' \subseteq {"plan", "candidate_selection", "apply"}
    BY <1>1, <1>7 DEF Reconcile, MissionStatus
  <2>7. RowsTyped
    BY <1>1, <1>5, <1>6, <1>7, <2>6 DEF Reconcile
  <2> QED
    BY <2>1, <2>5, <2>7
<1>8. CASE DropEvent
  <2>1. inbox # <<>> /\ inbox' = Tail(inbox) /\ UNCHANGED <<rows, retries, handled, job, cancelling, recovering, history>>
    BY <1>8 DEF DropEvent, HasEvent, Taken
  <2> QED
    BY <2>1, StaysTyped DEF rows, history
<1>9. ASSUME HasEvent
      PROVE  Head(inbox).t \in Tasks /\ Head(inbox).k \in Nat /\ (Taken => InboxTyped)
  BY <1>9, HeadTyped, StaysTyped DEF HasEvent, Taken, Agents
<1>10. CASE GateFails
  <2>1. HasEvent /\ Taken /\ UNCHANGED <<plan, asked, agent, attempts, retries, handled, job, cancelling, recovering, lost, spent>>
    BY <1>10 DEF GateFails
  <2>2. task' \in [Tasks -> TaskStatus] /\ mission' \in MissionStatus /\ passed' \subseteq Tasks
    BY <1>1, <1>10 DEF GateFails, TaskStatus, MissionStatus
  <2>3. RowsTyped
    BY <1>1, <1>5, <1>6, <2>1, <2>2
  <2>4. HistoryTyped
    BY <1>1, <2>1, <2>2 DEF HistoryTyped
  <2> QED
    BY <1>9, <2>1, <2>3, <2>4, StaysTyped
<1>11. CASE TaskCompleted
  <2> DEFINE e == Head(inbox)
             done == [task EXCEPT ![e.t] = "done"]
  <2>1. PICK after, wait, j : Complete(e, done, after, wait, j)
                 /\ after \in MissionStatus /\ wait \subseteq {"plan", "candidate_selection", "apply"}
                 /\ j \in {Idle, Job("due", {}), Job("legacy", AllocatedIn(done, ReadyIn(done)))}
    <3> DEFINE onMission == IF IsGate(e.t) THEN "active" ELSE mission
               applied == IF AllDone(done) THEN "applying" ELSE "blocked"
               due == Job("due", {})
               batch == Job("legacy", AllocatedIn(done, ReadyIn(done)))
    <3>2. \/ Complete(e, done, "completed", {}, Idle) \/ Complete(e, done, onMission, {}, due)
          \/ Complete(e, done, "blocked", {}, Idle) \/ Complete(e, done, "waiting", {"apply"}, Idle)
          \/ Complete(e, done, applied, {}, Idle) \/ Complete(e, done, "failed", {}, Idle)
          \/ Complete(e, done, "waiting", {"candidate_selection"}, Idle) \/ Complete(e, done, onMission, {}, batch)
      BY <1>11, Zenon DEF TaskCompleted
    <3>1. mission \in MissionStatus /\ {"active", "completed", "blocked", "waiting", "applying", "failed"} \subseteq MissionStatus
      BY <1>1 DEF MissionStatus
    <3>3. onMission \in MissionStatus /\ applied \in MissionStatus
      BY <3>1
    <3> HIDE DEF e, done, onMission, applied, due, batch
    <3> QED
      BY <3>1, <3>2, <3>3 DEF due, batch
  <2>2. e.t \in Tasks /\ e.k \in Nat /\ InboxTyped
    BY <1>9, <2>1 DEF Complete
  <2>3. done \in [Tasks -> TaskStatus]
    BY <1>1 DEF TaskStatus
  <2>4. ReadyIn(done) \in SUBSET Tasks
    BY DEF ReadyIn
  <2>5. AllocatedIn(done, ReadyIn(done)) \in SUBSET Tasks
    BY <2>4, AllocatedTyped
  <2>6. j \in Jobs
    BY <1>2, <1>4, <2>1, <2>5
  <2> HIDE DEF e, done
  <2>7. /\ task' = done /\ mission' = after /\ asked' = asked \cup wait /\ SetJob("queue", j)
        /\ passed' \in {passed, passed \cup {e.t}} /\ handled' \in {handled, handled \cup {<<e.t, e.k>>}}
        /\ UNCHANGED <<plan, agent, attempts, retries, cancelling, recovering, lost, spent>>
    BY <2>1 DEF Complete
  <2>8. RowsTyped
    BY <1>1, <1>5, <1>6, <2>1, <2>3, <2>7
  <2>9. MemoryTyped
    BY <1>1, <2>2, <2>7 DEF MemoryTyped
  <2>10. HistoryTyped
    BY <1>1, <2>2, <2>7 DEF HistoryTyped
  <2>11. JobTyped
    BY <1>3, <2>6, <2>7
  <2> QED
    BY <2>2, <2>8, <2>9, <2>10, <2>11
<1>12. CASE TaskFailedRetries
  <2> DEFINE e == Head(inbox)
  <2>1. e.t \in Tasks /\ e.k \in Nat /\ InboxTyped
    BY <1>9, <1>12 DEF TaskFailedRetries
  <2>2. /\ retries' = [retries EXCEPT ![e.t] = @ + 1] /\ handled' = handled \cup {<<e.t, e.k>>}
        /\ task' = [task EXCEPT ![e.t] = "ready"] /\ agent' = [agent EXCEPT ![e.t] = 0]
        /\ SetJob("queue", IF Allocated({e.t}) = {} THEN Idle ELSE Job("single", {e.t}))
        /\ UNCHANGED <<plan, mission, asked, attempts, cancelling, recovering, history>>
    BY <1>12 DEF TaskFailedRetries
  <2> HIDE DEF e
  <2>3. retries' \in [Tasks -> Nat] /\ handled' \subseteq Tasks \X Nat
    BY <1>1, <2>1, <2>2
  <2>4. task' \in [Tasks -> TaskStatus]
    BY <1>1, <2>2 DEF TaskStatus
  <2>5. agent' \in [Tasks -> Nat] /\ \A t \in Tasks : agent'[t] <= agent[t]
    BY <1>1, <2>1, <2>2
  <2>6. RowsTyped
    BY <1>1, <1>5, <2>2, <2>4, <2>5
  <2>7. MemoryTyped
    BY <1>1, <2>2, <2>3 DEF MemoryTyped
  <2>8. JobTyped
    BY <1>2, <1>3, <1>4, <2>1, <2>2
  <2> QED
    BY <2>1, <2>2, <2>6, <2>7, <2>8, StaysTyped DEF history
<1>13. CASE TaskFailedExhausted
  <2> DEFINE e == Head(inbox)
  <2>1. e.t \in Tasks /\ e.k \in Nat /\ InboxTyped
    BY <1>9, <1>13 DEF TaskFailedExhausted
  <2>2. /\ handled' = handled \cup {<<e.t, e.k>>} /\ task' = [task EXCEPT ![e.t] = "rejected"] /\ mission' = "failed"
        /\ UNCHANGED <<plan, asked, agent, attempts, retries, job, cancelling, recovering, history>>
    BY <1>13 DEF TaskFailedExhausted
  <2> HIDE DEF e
  <2>3. task' \in [Tasks -> TaskStatus] /\ mission' \in MissionStatus
    BY <1>1, <2>2 DEF TaskStatus, MissionStatus
  <2>4. RowsTyped
    BY <1>1, <1>5, <1>6, <2>2, <2>3
  <2>5. MemoryTyped
    BY <1>1, <2>1, <2>2 DEF MemoryTyped
  <2> QED
    BY <2>1, <2>2, <2>4, <2>5, StaysTyped DEF history
<1> QED
  BY <1>7, <1>8, <1>10, <1>11, <1>12, <1>13

(* What users and the recovery do keeps the types. *)
LEMMA UserKeepsTypes ==
  ASSUME TypeOK, Growth, UserStep \/ CommitCancel
  PROVE  RowsTyped /\ MemoryTyped /\ HistoryTyped /\ InboxTyped /\ JobTyped
<1>1. /\ agent \in [Tasks -> Nat] /\ task \in [Tasks -> TaskStatus] /\ retries \in [Tasks -> Nat]
      /\ handled \subseteq Tasks \X Nat
      /\ \A t \in Tasks : agent[t] <= Len(attempts[t]) /\ Len(attempts[t]) \in Nat
      /\ mission \in MissionStatus /\ asked \subseteq {"plan", "candidate_selection", "apply"}
      /\ cancelling \in BOOLEAN /\ recovering \in BOOLEAN
      /\ passed \subseteq Tasks /\ lost \in BOOLEAN /\ spent \in [Kinds -> Nat]
  BY DEF TypeOK
<1>2. "route" \in Flows /\ \A kind \in JobKind, S \in SUBSET Tasks : Job(kind, S) \in Jobs
  BY NewJobTyped DEF Flows
<1>3. \A j \in Jobs : SetJob("route", j) => JobTyped
  BY <1>2, NewJobTyped
<1>4. {"approve", "select", "retry"} \subseteq JobKind
  BY DEF JobKind
<1>5. ASSUME task' \in [Tasks -> TaskStatus], mission' \in MissionStatus,
             agent' \in [Tasks -> Nat], \A t \in Tasks : agent'[t] <= agent[t],
             asked' \subseteq {"plan", "candidate_selection", "apply"}
      PROVE  RowsTyped
  <2>1. ASSUME NEW u \in Tasks
        PROVE  agent'[u] <= Len(attempts'[u])
    <3>1. agent'[u] \in Nat /\ agent[u] \in Nat /\ agent'[u] <= agent[u] /\ agent[u] <= Len(attempts[u])
      BY <1>1, <1>5
    <3>2. Len(attempts[u]) \in Nat /\ Len(attempts'[u]) \in Nat /\ Len(attempts[u]) <= Len(attempts'[u])
      BY <1>1, StaysTyped
    <3> QED
      BY <3>1, <3>2
  <2> QED
    BY <1>5, <2>1 DEF RowsTyped
<1>6. agent' = agent => \A t \in Tasks : agent'[t] <= agent[t]
  BY <1>1
<1>7. ASSUME NEW approved \in BOOLEAN, DecidePlan(approved)
      PROVE  RowsTyped /\ MemoryTyped /\ HistoryTyped /\ InboxTyped /\ JobTyped
  <2>1. UNCHANGED <<task, agent, attempts, plan, retries, handled, inbox, cancelling, recovering, history>>
    BY <1>7 DEF DecidePlan, RouteOnly
  <2>2. mission' \in MissionStatus /\ asked' \subseteq {"plan", "candidate_selection", "apply"}
    BY <1>1, <1>7 DEF DecidePlan, MissionStatus
  <2>3. Roots \in SUBSET Tasks
    BY DEF Roots
  <2>4. Allocated(Roots) \in SUBSET Tasks
    BY <2>3, AllocatedTyped DEF Allocated
  <2>5. UNCHANGED job \/ SetJob("route", Job("approve", Allocated(Roots)))
    BY <1>7 DEF DecidePlan
  <2>6. JobTyped
    BY <1>2, <1>3, <1>4, <2>4, <2>5, StaysTyped
  <2>7. RowsTyped
    BY <1>1, <1>5, <1>6, <2>1, <2>2
  <2> QED
    BY <2>1, <2>6, <2>7, StaysTyped DEF history
<1>8. ASSUME NEW approved \in BOOLEAN, DecideApply(approved)
      PROVE  RowsTyped /\ MemoryTyped /\ HistoryTyped /\ InboxTyped /\ JobTyped
  <2>1. UNCHANGED <<task, agent, attempts, job, plan, retries, handled, inbox, cancelling, recovering, history>>
    BY <1>8 DEF DecideApply, RouteOnly
  <2>2. mission' \in MissionStatus /\ asked' \subseteq {"plan", "candidate_selection", "apply"}
    BY <1>1, <1>8 DEF DecideApply, MissionStatus
  <2>3. RowsTyped
    BY <1>1, <1>5, <1>6, <2>1, <2>2
  <2> QED
    BY <2>1, <2>3, StaysTyped DEF history
<1>9. ASSUME NEW c \in Tasks, SelectCandidate(c)
      PROVE  RowsTyped /\ MemoryTyped /\ HistoryTyped /\ InboxTyped /\ JobTyped
  <2> DEFINE chosen == [t \in Tasks |-> IF plan.role[t] = "builder" /\ t # c THEN "superseded" ELSE task[t]]
  <2>1. /\ UNCHANGED <<agent, attempts, plan, retries, handled, inbox, cancelling, recovering, history>>
        /\ task' = chosen /\ mission' = "active" /\ asked' = asked \ {"candidate_selection"}
        /\ SetJob("route", Job("select", AllocatedIn(chosen, ReadyIn(chosen))))
    BY <1>9 DEF SelectCandidate, RouteOnly
  <2>2. chosen \in [Tasks -> TaskStatus] /\ "active" \in MissionStatus
    BY <1>1 DEF TaskStatus, MissionStatus
  <2>3. ReadyIn(chosen) \in SUBSET Tasks
    BY DEF ReadyIn
  <2> HIDE DEF chosen
  <2>4. AllocatedIn(chosen, ReadyIn(chosen)) \in SUBSET Tasks
    BY <2>3, AllocatedTyped
  <2>5. JobTyped
    BY <1>2, <1>3, <1>4, <2>1, <2>4
  <2>6. RowsTyped
    BY <1>1, <1>5, <1>6, <2>1, <2>2
  <2> QED
    BY <2>1, <2>5, <2>6, StaysTyped DEF history
<1>10. ASSUME NEW chosen \in SUBSET Tasks, RetryMission(chosen)
       PROVE  RowsTyped /\ MemoryTyped /\ HistoryTyped /\ InboxTyped /\ JobTyped
  <2> DEFINE ready == {t \in chosen : \A d \in plan.deps[t] : task[d] \in TerminalTask}
             again == Resumable(chosen) \ ready
  <2>1. Disturb("userRetry") /\ UNCHANGED <<plan, asked, attempts, handled, inbox, cancelling, recovering, passed, lost>>
    BY <1>10 DEF RetryMission
  <2>2. \/ mission' = "failed" /\ UNCHANGED <<task, agent, retries, job>>
        \/ /\ mission' = "active"
           /\ task' = [t \in Tasks |-> IF t \in again THEN "planned" ELSE task[t]]
           /\ agent' = [t \in Tasks |-> IF t \in again THEN 0 ELSE agent[t]]
           /\ retries' = [t \in Tasks |-> IF t \in ready THEN 0 ELSE retries[t]]
           /\ SetJob("route", Job("retry", ready))
    BY <1>10 DEF RetryMission
  <2>3. ready \in SUBSET Tasks
    OBVIOUS
  <2> HIDE DEF ready, again
  <2>4. /\ task' \in [Tasks -> TaskStatus] /\ mission' \in MissionStatus
        /\ agent' \in [Tasks -> Nat] /\ \A t \in Tasks : agent'[t] <= agent[t]
        /\ retries' \in [Tasks -> Nat]
    <3>1. "planned" \in TaskStatus /\ {"active", "failed"} \subseteq MissionStatus
      BY DEF TaskStatus, MissionStatus
    <3>2. task' \in [Tasks -> TaskStatus] /\ mission' \in MissionStatus
      BY <1>1, <2>2, <3>1
    <3>3. agent' \in [Tasks -> Nat] /\ \A t \in Tasks : agent'[t] <= agent[t]
      <4>1. CASE agent' = agent
        BY <1>1, <1>6, <4>1
      <4>2. CASE agent' = [t \in Tasks |-> IF t \in again THEN 0 ELSE agent[t]]
        BY <1>1, <4>2
      <4> QED
        BY <2>2, <4>1, <4>2
    <3>4. retries' \in [Tasks -> Nat]
      <4>1. CASE retries' = retries
        BY <1>1, <4>1
      <4>2. CASE retries' = [t \in Tasks |-> IF t \in ready THEN 0 ELSE retries[t]]
        BY <1>1, <4>2
      <4> QED
        BY <2>2, <4>1, <4>2
    <3> QED
      BY <3>2, <3>3, <3>4
  <2>5. JobTyped
    BY <1>2, <1>3, <1>4, <2>2, <2>3, StaysTyped
  <2>6. RowsTyped
    BY <1>1, <1>5, <2>1, <2>4
  <2>7. MemoryTyped
    BY <1>1, <2>1, <2>4 DEF MemoryTyped
  <2>8. spent' \in [Kinds -> Nat]
    BY <1>1, <2>1, DisturbTyped DEF Kinds
  <2>9. HistoryTyped
    BY <1>1, <2>1, <2>8 DEF HistoryTyped
  <2> QED
    BY <2>1, <2>5, <2>6, <2>7, <2>9, StaysTyped
<1>11. CASE BeginCancel
  <2>1. Disturb("cancel") /\ cancelling' = TRUE
        /\ UNCHANGED <<plan, mission, asked, task, agent, retries, handled, inbox, job, recovering, passed, lost>>
    BY <1>11 DEF BeginCancel
  <2>2. spent' \in [Kinds -> Nat]
    BY <1>1, <2>1, DisturbTyped DEF Kinds
  <2>3. HistoryTyped /\ MemoryTyped
    BY <1>1, <2>1, <2>2 DEF HistoryTyped, MemoryTyped
  <2> QED
    BY <2>1, <2>3, StaysTyped
<1>12. CASE CommitCancel
  <2>1. cancelling' = FALSE /\ mission' = "cancelled"
        /\ task' = [t \in Tasks |-> IF task[t] \in Pending \cup {"running"} THEN "cancelled" ELSE task[t]]
        /\ UNCHANGED <<plan, asked, agent, attempts, retries, handled, inbox, job, recovering, history>>
    BY <1>12 DEF CommitCancel
  <2>2. task' \in [Tasks -> TaskStatus] /\ mission' \in MissionStatus
    BY <1>1, <2>1 DEF TaskStatus, MissionStatus
  <2>3. RowsTyped
    BY <1>1, <1>5, <1>6, <2>1, <2>2
  <2>4. MemoryTyped
    BY <1>1, <2>1 DEF MemoryTyped
  <2> QED
    BY <2>1, <2>3, <2>4, StaysTyped DEF history
<1> QED
  BY <1>7, <1>8, <1>9, <1>10, <1>11, <1>12 DEF UserStep

(* A crash and the start-up keep the types.                                *)
LEMMA RecoveryKeepsTypes ==
  ASSUME TypeOK, Growth, Restart \/ RecoveryStep
  PROVE  RowsTyped /\ MemoryTyped /\ HistoryTyped /\ InboxTyped /\ JobTyped
<1>1. /\ agent \in [Tasks -> Nat] /\ retries \in [Tasks -> Nat] /\ handled \subseteq Tasks \X Nat
      /\ \A t \in Tasks : agent[t] <= Len(attempts[t]) /\ Len(attempts[t]) \in Nat /\ Len(attempts[t]) <= MaxAgents
      /\ cancelling \in BOOLEAN /\ recovering \in BOOLEAN
      /\ passed \subseteq Tasks /\ lost \in BOOLEAN /\ spent \in [Kinds -> Nat] /\ MaxAgents \in Nat
  BY BoundsAssumption DEF TypeOK
<1>2. IsFiniteSet(Tasks) /\ IsFiniteSet(1 .. MaxAgents)
  BY <1>1, PlanTyped, FS_Interval DEF TypeOK
<1>3. ASSUME NEW t \in Tasks, NEW k \in Agents(t)
      PROVE  [type |-> "failed", t |-> t, k |-> k, pass |-> FALSE] \in Events /\ k \in 1 .. Len(attempts'[t])
  <2>1. k \in Nat /\ k \in 1 .. Len(attempts'[t])
    BY <1>1, <1>3, StaysTyped DEF Agents
  <2> QED
    BY <2>1 DEF Events
<1>4. CASE Restart
  <2>1. Disturb("crash") /\ UNCHANGED <<plan, mission, asked, task, agent, passed>>
        /\ retries' = [t \in Tasks |-> 0] /\ handled' = {} /\ cancelling' = FALSE /\ recovering' = TRUE
        /\ job' = [d \in {"queue", "route"} |-> Idle]
    BY <1>4 DEF Restart
  <2>2. PICK s \in OrphanOrders : inbox' = [i \in DOMAIN s |-> Event("failed", s[i][1], s[i][2], FALSE)]
    BY <1>4 DEF Restart
  <2>3. Cardinality(Orphans) \in Nat
    <3>1. IsFiniteSet(Tasks \X (1 .. MaxAgents))
      BY <1>2, FS_Product
    <3>2. Orphans \in SUBSET (Tasks \X (1 .. MaxAgents))
      BY DEF Orphans
    <3> QED
      BY <3>1, <3>2, FS_Subset, FS_CardinalityType
  <2>4. s \in [1 .. Cardinality(Orphans) -> Orphans] /\ DOMAIN s = 1 .. Cardinality(Orphans)
    BY DEF OrphanOrders
  <2>5. \A i \in 1 .. Cardinality(Orphans) : s[i][1] \in Tasks /\ s[i][2] \in Agents(s[i][1])
    BY <2>4 DEF Orphans
  <2>6. \A i \in 1 .. Cardinality(Orphans) :
           /\ Event("failed", s[i][1], s[i][2], FALSE) \in Events
           /\ s[i][2] \in 1 .. Len(attempts'[s[i][1]])
    BY <1>3, <2>5 DEF Event
  <2>7. inbox' \in Seq(Events) /\ Len(inbox') = Cardinality(Orphans)
    <3>1. inbox' = [i \in 1 .. Cardinality(Orphans) |-> Event("failed", s[i][1], s[i][2], FALSE)]
      BY <2>2, <2>4
    <3>2. inbox' \in [1 .. Cardinality(Orphans) -> Events]
      BY <2>6, <3>1
    <3> QED
      BY <2>3, <3>2
  <2>8. InboxTyped
    <3>1. \A i \in 1 .. Len(inbox') : inbox'[i] = Event("failed", s[i][1], s[i][2], FALSE)
      BY <2>2, <2>4, <2>7
    <3>2. \A i \in 1 .. Len(inbox') : inbox'[i].t = s[i][1] /\ inbox'[i].k = s[i][2]
      <4> SUFFICES ASSUME NEW i \in 1 .. Len(inbox')
                   PROVE  inbox'[i].t = s[i][1] /\ inbox'[i].k = s[i][2]
        OBVIOUS
      <4>1. inbox'[i] = [type |-> "failed", t |-> s[i][1], k |-> s[i][2], pass |-> FALSE]
        BY <3>1 DEF Event
      <4> QED
        BY <4>1
    <3>3. \A i \in 1 .. Len(inbox') : s[i][1] \in Tasks /\ s[i][2] \in 1 .. Len(attempts'[s[i][1]])
      BY <2>5, <2>6, <2>7
    <3> QED
      BY <2>7, <3>2, <3>3 DEF InboxTyped
  <2>9. lost' \in BOOLEAN
    <3>1. lost' = (\/ lost \/ cancelling \/ \E t \in Tasks : \E k \in Agents(t) : attempts[t][k] \in {"launching", "overdue"}
                   \/ \E i \in DOMAIN inbox : attempts[inbox[i].t][inbox[i].k] \in {"completed", "failed"})
      BY <1>4 DEF Restart
    <3> QED
      BY <1>1, <3>1
  <2>10. spent' \in [Kinds -> Nat]
    BY <1>1, <2>1, DisturbTyped DEF Kinds
  <2>11. HistoryTyped /\ MemoryTyped
    BY <1>1, <2>1, <2>9, <2>10 DEF HistoryTyped, MemoryTyped
  <2>12. JobTyped
    BY <2>1, JobsTyped DEF JobTyped, Flows
  <2> QED
    BY <2>1, <2>8, <2>11, <2>12, StaysTyped
<1>5. ASSUME NEW t \in Tasks, RecoverExpired(t)
      PROVE  RowsTyped /\ MemoryTyped /\ HistoryTyped /\ InboxTyped /\ JobTyped
  <2>1. /\ retries' = [retries EXCEPT ![t] = IF agent[t] - 1 > @ THEN agent[t] - 1 ELSE @]
        /\ inbox' = <<Event("failed", t, agent[t], FALSE)>>
        /\ UNCHANGED <<rows, handled, job, cancelling, recovering, history>>
        /\ t \in Unreported
    BY <1>5 DEF RecoverExpired
  <2>2. agent[t] \in Agents(t)
    <3>1. Claims(t) # {} /\ LatestAttempt(t) = agent[t]
      BY <2>1 DEF Unreported
    <3>2. attempts[t][agent[t]] = "expired" /\ agent[t] \in Nat /\ agent[t] <= Len(attempts[t])
      BY <1>1, <2>1 DEF Unreported
    <3>3. Claims(t) \in SUBSET Nat /\ Claims(t) # {} /\ Claims(t) \subseteq Agents(t)
      BY <1>1, <3>1 DEF Claims, Agents
    <3>4. \E k \in Claims(t) : \A n \in Claims(t) : n <= k
      <4> DEFINE gaps == {Len(attempts[t]) - n : n \in Claims(t)}
      <4>1. gaps \in SUBSET Nat /\ gaps # {}
        BY <1>1, <3>3 DEF Agents
      <4>2. PICK g \in gaps : \A m \in gaps : g <= m
        BY <4>1, LeastNatural
      <4>3. PICK k \in Claims(t) : g = Len(attempts[t]) - k
        BY <4>2
      <4>4. \A n \in Claims(t) : Len(attempts[t]) - k <= Len(attempts[t]) - n
        BY <4>2, <4>3
      <4>5. \A n \in Claims(t) : n <= k
        BY <1>1, <3>3, <4>3, <4>4
      <4> QED
        BY <4>3, <4>5
    <3>5. LatestAttempt(t) \in Claims(t)
      BY <3>4 DEF LatestAttempt
    <3> QED
      BY <3>1, <3>3, <3>5
  <2>3. retries' \in [Tasks -> Nat]
    BY <1>1, <2>1
  <2>4. MemoryTyped
    BY <1>1, <2>1, <2>3 DEF MemoryTyped
  <2>5. InboxTyped
    <3>1. Event("failed", t, agent[t], FALSE) \in Events /\ agent[t] \in 1 .. Len(attempts'[t])
      BY <1>3, <2>2 DEF Event
    <3> QED
      BY <2>1, <3>1 DEF InboxTyped, Event
  <2> QED
    BY <2>1, <2>4, <2>5, StaysTyped DEF rows, history
<1>6. CASE FinishRecovery
  <2>1. recovering' = FALSE /\ UNCHANGED <<rows, retries, handled, inbox, cancelling, history>>
        /\ SetJob("queue", IF mission = "active" THEN Job("due", {}) ELSE Idle)
    BY <1>6 DEF FinishRecovery
  <2>2. MemoryTyped
    BY <1>1, <2>1 DEF MemoryTyped
  <2>3. "queue" \in Flows /\ "due" \in JobKind /\ {} \in SUBSET Tasks
    BY DEF Flows, JobKind
  <2>4. Idle \in Jobs /\ Job("due", {}) \in Jobs
    BY <2>3, NewJobTyped
  <2>5. JobTyped
    BY <2>1, <2>3, <2>4, NewJobTyped
  <2> QED
    BY <2>1, <2>2, <2>5, StaysTyped DEF rows, history
<1> QED
  BY <1>4, <1>5, <1>6 DEF RecoveryStep

(* Every step keeps the types.                                             *)
LEMMA NextTypeOK ==
  ASSUME TypeOK, [Next]_vars
  PROVE  TypeOK'
<1>1. plan' = plan /\ Tasks' = Tasks /\ Growth
  BY StepsOnAttempts
<1>2. RowsTyped /\ MemoryTyped /\ HistoryTyped /\ InboxTyped /\ JobTyped
  <2>1. CASE AgentStep
    BY <1>1, <2>1, AgentsTyped
  <2>2. CASE QueueStep
    <3>1. CASE DispatchStep("queue")
      BY <1>1, <3>1, DispatchKeepsTypes DEF Flows
    <3>2. CASE ~ DispatchStep("queue")
      BY <1>1, <2>2, <3>2, QueueKeepsTypes DEF QueueStep
    <3> QED
      BY <3>1, <3>2
  <2>3. CASE DispatchStep("route")
    BY <1>1, <2>3, DispatchKeepsTypes DEF Flows
  <2>4. CASE UserStep \/ CommitCancel
    BY <1>1, <2>4, UserKeepsTypes
  <2>5. CASE Restart \/ RecoveryStep
    BY <1>1, <2>5, RecoveryKeepsTypes
  <2>6. CASE UNCHANGED vars
    BY <1>1, <2>6, StaysTyped DEF vars, rows, memory, history
  <2> QED
    BY <2>1, <2>2, <2>3, <2>4, <2>5, <2>6 DEF Next
<1>3. Events' = Events /\ Jobs' = Jobs
  BY <1>1 DEF Events, Jobs
<1>4. \A i \in 1 .. Len(inbox') : inbox'[i].k \in Agents(inbox[i].t)'
  BY <1>2 DEF InboxTyped, Agents
<1> QED
  BY <1>1, <1>2, <1>3, <1>4
     DEF TypeOK, RowsTyped, MemoryTyped, HistoryTyped, InboxTyped, JobTyped, Growth, Flows

(* So do the initial states. *)
LEMMA InitTypeOK == Init => TypeOK
<1> SUFFICES ASSUME Init
             PROVE  TypeOK
  OBVIOUS
<1>1. plan \in Plans /\ Tasks \subseteq Nat /\ Len(plan.role) \in Nat
  BY PlanTyped DEF Init
<1>2. Roots \in SUBSET Tasks
  BY DEF Roots
<1>3. Allocated(Roots) \in SUBSET Tasks
  BY <1>1, <1>2, AllocatedIsGreedy DEF Allocated
<1>4. Idle \in Jobs /\ Job("start", Allocated(Roots)) \in Jobs
  <2>1. "start" \in JobKind
    BY DEF JobKind
  <2> QED
    BY <1>3, <2>1, JobsTyped
<1>5. job \in [{"queue", "route"} -> Jobs]
  BY <1>4 DEF Init
<1>6. attempts \in [Tasks -> Seq(AttemptStatus)] /\ \A t \in Tasks : Len(attempts[t]) = 0 /\ agent[t] = 0
  BY DEF Init
<1>7. inbox \in Seq(Events) /\ Len(inbox) = 0
  BY DEF Init
<1>8. mission \in MissionStatus /\ asked \subseteq {"plan", "candidate_selection", "apply"}
      /\ task \in [Tasks -> TaskStatus] /\ agent \in [Tasks -> Nat] /\ retries \in [Tasks -> Nat]
      /\ handled \subseteq Tasks \X Nat /\ cancelling \in BOOLEAN /\ recovering \in BOOLEAN
      /\ spent \in [Kinds -> Nat] /\ passed \subseteq Tasks /\ lost \in BOOLEAN
  BY DEF Init, MissionStatus, TaskStatus
<1>9. MaxAgents \in Nat
  BY BoundsAssumption
<1> QED
  BY <1>1, <1>5, <1>6, <1>7, <1>8, <1>9 DEF TypeOK

(* The types hold in every reachable state.                                *)
LEMMA TypesHold == Spec => []TypeOK
<1>1. TypeOK /\ [Next]_vars => TypeOK'
  BY NextTypeOK
<1> QED
  BY <1>1, InitTypeOK, PTL DEF Spec

-----------------------------------------------------------------------------
(* Which reports count.                                                    *)

(* A completion in the inbox is about an attempt that has ended by its own *)
(* report, and not because somebody took it for lost.                      *)
EventsTrue == \A i \in 1 .. Len(inbox) :
  inbox[i].type = "completed" => attempts[inbox[i].t][inbox[i].k] \in {"completed", "failed"}

(* Where a report that waits after a step comes from. *)
Told(i) == \/ inbox'[i].type = "failed"
           \/ \E j \in 1 .. Len(inbox) : inbox'[i] = inbox[j]
           \/ attempts'[inbox'[i].t][inbox'[i].k] \in {"completed", "failed"}

(* The agents report what has happened to their attempts.                  *)
LEMMA AgentsTell ==
  ASSUME TypeOK, AgentStep
  PROVE  \A i \in 1 .. Len(inbox') : Told(i)
<1>0. PICK t \in Tasks : \E k \in Agents(t) :
         \/ ClaimAttempt(t, k) \/ StartAgent(t, k) \/ LaunchFails(t, k)
         \/ Report(t, k) \/ ReportAgain(t, k) \/ ExpireAttempt(t, k)
  BY DEF AgentStep
<1>1. PICK k \in Agents(t) :
         \/ ClaimAttempt(t, k) \/ StartAgent(t, k) \/ LaunchFails(t, k)
         \/ Report(t, k) \/ ReportAgain(t, k) \/ ExpireAttempt(t, k)
  BY <1>0
<1>2. ASSUME NEW type \in {"completed", "failed"}, NEW pass \in BOOLEAN,
             inbox' = Append(inbox, Event(type, t, k, pass)),
             type = "failed" \/ attempts'[t][k] \in {"completed", "failed"}
      PROVE  \A i \in 1 .. Len(inbox') : Told(i)
  <2>1. /\ Len(inbox') = Len(inbox) + 1 /\ Len(inbox) \in Nat
        /\ \A i \in 1 .. Len(inbox) : inbox'[i] = inbox[i]
        /\ inbox'[Len(inbox) + 1] = Event(type, t, k, pass)
    BY <1>2, AppendTyped
  <2>2. ASSUME NEW i \in 1 .. Len(inbox')
        PROVE  Told(i)
    <3>1. CASE i \in 1 .. Len(inbox)
      BY <2>1, <3>1 DEF Told
    <3>2. CASE i = Len(inbox) + 1
      <4>1. inbox'[i].type = type /\ inbox'[i].t = t /\ inbox'[i].k = k
        BY <2>1, <3>2 DEF Event
      <4> QED
        BY <1>2, <4>1 DEF Told
    <3> QED
      BY <2>1, <3>1, <3>2
  <2> QED
    BY <2>2
<1>3. ASSUME inbox' = inbox
      PROVE  \A i \in 1 .. Len(inbox') : Told(i)
  BY <1>3 DEF Told
<1>4. CASE ClaimAttempt(t, k) \/ StartAgent(t, k)
  BY <1>3, <1>4 DEF ClaimAttempt, StartAgent, memory
<1>5. CASE LaunchFails(t, k) \/ ExpireAttempt(t, k)
  BY <1>2, <1>5 DEF LaunchFails, ExpireAttempt
<1>6. CASE Report(t, k)
  <2>1. PICK type \in {"completed", "failed"}, pass \in BOOLEAN :
                SetAttempt(t, k, type) /\ inbox' = Append(inbox, Event(type, t, k, pass))
    BY <1>6 DEF Report
  <2>2. type \in AttemptStatus /\ attempts \in [Tasks -> Seq(AttemptStatus)]
    BY DEF AttemptStatus, TypeOK
  <2>3. attempts'[t][k] = type
    BY <2>1, <2>2, SetAttemptTyped
  <2> QED
    BY <1>2, <2>1, <2>3
<1>7. CASE ReportAgain(t, k)
  <2>1. PICK type \in {"completed", "failed"} : inbox' = Append(inbox, Event(type, t, k, TRUE))
    BY <1>7 DEF ReportAgain
  <2>2. attempts'[t][k] \in {"completed", "failed"}
    BY <1>7 DEF ReportAgain, rows
  <2> QED
    BY <1>2, <2>1, <2>2
<1> QED
  BY <1>1, <1>4, <1>5, <1>6, <1>7

(* No step puts another completion into the inbox.                         *)
LEMMA StepsTell ==
  ASSUME TypeOK, [Next]_vars
  PROVE  \A i \in 1 .. Len(inbox') : Told(i)
<1>1. ASSUME inbox' = inbox
      PROVE  \A i \in 1 .. Len(inbox') : Told(i)
  BY <1>1 DEF Told
<1>2. ASSUME inbox # <<>>, inbox' = Tail(inbox)
      PROVE  \A i \in 1 .. Len(inbox') : Told(i)
  BY <1>2, HeadTyped DEF Told
<1>3. ASSUME NEW d \in Flows, DispatchStep(d)
      PROVE  inbox' = inbox
  BY <1>3 DEF DispatchStep, Dispatch, SkipTask, PreflightPasses, PreflightFails, RetryRefused, EndBatch
<1>4. CASE DropEvent \/ GateFails \/ TaskFailedRetries \/ TaskFailedExhausted
  <2>1. inbox # <<>> /\ inbox' = Tail(inbox)
    BY <1>4 DEF DropEvent, GateFails, TaskFailedRetries, TaskFailedExhausted, HasEvent, Taken
  <2> QED
    BY <1>2, <2>1
<1>5. CASE TaskCompleted
  <2>1. inbox # <<>> /\ inbox' = Tail(inbox)
    BY <1>5 DEF TaskCompleted, Complete, HasEvent, Taken
  <2> QED
    BY <1>2, <2>1
<1>6. CASE Reconcile \/ UserStep \/ CommitCancel \/ FinishRecovery \/ UNCHANGED vars
  <2>1. inbox' = inbox
    BY <1>6
       DEF Reconcile, UserStep, DecidePlan, DecideApply, SelectCandidate, RetryMission, BeginCancel,
           RouteOnly,
                CommitCancel, FinishRecovery, vars, memory
  <2> QED
    BY <1>1, <2>1
<1>7. CASE Restart
  <2>1. PICK s \in OrphanOrders : inbox' = [i \in DOMAIN s |-> Event("failed", s[i][1], s[i][2], FALSE)]
    BY <1>7 DEF Restart
  <2>2. \A i \in DOMAIN s : inbox'[i].type = "failed"
    BY <2>1 DEF Event
  <2>3. inbox' \in Seq(Events)
    BY NextTypeOK, StepsOnAttempts DEF TypeOK, Events
  <2>4. DOMAIN inbox' = 1 .. Len(inbox') /\ DOMAIN inbox' = DOMAIN s
    BY <2>1, <2>3
  <2> QED
    BY <2>2, <2>4 DEF Told
<1>8. ASSUME NEW t \in Tasks, RecoverExpired(t)
      PROVE  \A i \in 1 .. Len(inbox') : Told(i)
  <2>1. inbox' = <<Event("failed", t, agent[t], FALSE)>>
    BY <1>8 DEF RecoverExpired
  <2>2. Len(inbox') = 1 /\ inbox'[1].type = "failed"
    BY <2>1 DEF Event
  <2> QED
    BY <2>2 DEF Told
<1>9. CASE DispatchStep("queue") \/ DispatchStep("route")
  <2>1. inbox' = inbox
    BY <1>3, <1>9 DEF Flows
  <2> QED
    BY <1>1, <2>1
<1>10. CASE AgentStep
  BY <1>10, AgentsTell
<1> QED
  BY <1>4, <1>5, <1>6, <1>7, <1>8, <1>9, <1>10 DEF Next, QueueStep, RecoveryStep

(* So completions stay true.                                               *)
LEMMA NextEventsTrue ==
  ASSUME TypeOK, EventsTrue, [Next]_vars
  PROVE  EventsTrue'
<1> SUFFICES ASSUME NEW i \in 1 .. Len(inbox'), inbox'[i].type = "completed"
             PROVE  attempts'[inbox'[i].t][inbox'[i].k] \in {"completed", "failed"}
  BY DEF EventsTrue
<1>1. Told(i) /\ Growth
  BY StepsTell, StepsOnAttempts
<1>2. ASSUME NEW j \in 1 .. Len(inbox), inbox'[i] = inbox[j]
      PROVE  attempts'[inbox'[i].t][inbox'[i].k] \in {"completed", "failed"}
  <2>1. attempts[inbox[j].t][inbox[j].k] \in {"completed", "failed"}
    BY <1>2 DEF EventsTrue
  <2>2. inbox[j] \in Events /\ inbox[j].k \in Agents(inbox[j].t)
    BY DEF TypeOK
  <2>3. inbox[j].t \in Tasks
    BY <2>2 DEF Events
  <2> QED
    BY <1>1, <1>2, <2>1, <2>2, <2>3 DEF Growth
<1> QED
  BY <1>1, <1>2 DEF Told

(* The completion that is accepted is that of the agent its task has.      *)
LEMMA CompletionIsReal ==
  ASSUME TypeOK, EventsTrue, HasEvent, Accepted(Head(inbox)), Head(inbox).type = "completed"
  PROVE  /\ Head(inbox).t \in Tasks /\ Head(inbox).k \in Agents(Head(inbox).t)
         /\ Head(inbox).k = agent[Head(inbox).t] /\ task[Head(inbox).t] = "running"
         /\ attempts[Head(inbox).t][Head(inbox).k] = "completed"
<1> DEFINE e == Head(inbox)
<1>1. e \in Events /\ e.t \in Tasks /\ e.k \in Agents(e.t) /\ 1 \in 1 .. Len(inbox) /\ e = inbox[1]
  BY HeadTyped DEF HasEvent
<1>2. attempts[e.t][e.k] \in {"completed", "failed"}
  BY <1>1 DEF EventsTrue
<1>3. Correlated(e) /\ e.k = agent[e.t]
  BY DEF Accepted
<1>4. e.k \in Claims(e.t)
  BY <1>1, <1>2 DEF Claims
<1>5. attempts[e.t][e.k] \in {"claimed", "live", "completed"}
  BY <1>3, <1>4 DEF Correlated
<1> QED
  BY <1>1, <1>2, <1>3, <1>5 DEF Correlated

(* Only a completion that is accepted makes a task done.                   *)
LEMMA WhoIsDone ==
  ASSUME TypeOK, [Next]_vars, NEW t \in Tasks, task[t] # "done", task'[t] = "done"
  PROVE  /\ TaskCompleted /\ HasEvent /\ Accepted(Head(inbox)) /\ Head(inbox).type = "completed"
         /\ GoodVerdict(Head(inbox)) /\ t = Head(inbox).t
<1>1. task \in [Tasks -> TaskStatus] /\ job \in [Flows -> Jobs]
  BY DEF TypeOK, Flows
<1>2. ~ AgentStep
  BY <1>1, ZenonT(40) DEF AgentStep, ClaimAttempt, StartAgent, LaunchFails, Report, ReportAgain, ExpireAttempt, rows
<1>3. ASSUME NEW d \in Flows, DispatchStep(d)
      PROVE  FALSE
  <2>1. ASSUME Dispatch(d)
        PROVE  FALSE
    <3>1. PICK u \in Tasks, now \in [Tasks -> TaskStatus] :
             /\ now[u] \in {task[u], "ready"} /\ \A v \in Tasks : v # u => now[v] = task[v]
             /\ task' = now \/ Assign(u, now)
      BY <2>1, DispatchTyped
    <3> QED
      BY <3>1 DEF Assign
  <2>2. ASSUME PreflightPasses(d)
        PROVE  FALSE
    BY <1>1, <2>2 DEF PreflightPasses, Assign
  <2>3. ASSUME PreflightFails(d)
        PROVE  FALSE
    BY <1>1, <2>3 DEF PreflightFails, AbortRetry
  <2>4. ASSUME RetryRefused(d)
        PROVE  FALSE
    BY <1>1, <2>4 DEF RetryRefused, AbortRetry
  <2>5. ~ SkipTask(d) /\ ~ EndBatch(d)
    BY DEF SkipTask, EndBatch, rows
  <2> QED
    BY <1>3, <2>1, <2>2, <2>3, <2>4, <2>5 DEF DispatchStep
<1>4. ~ Reconcile /\ ~ DropEvent /\ ~ GateFails
  BY <1>1 DEF Reconcile, DropEvent, GateFails, rows
<1>5. ~ TaskFailedRetries /\ ~ TaskFailedExhausted
  BY <1>1 DEF TaskFailedRetries, TaskFailedExhausted
<1>6. ~ UserStep
  BY <1>1 DEF UserStep, DecidePlan, DecideApply, SelectCandidate, RetryMission, BeginCancel
<1>7. ~ CommitCancel /\ ~ Restart /\ ~ RecoveryStep /\ ~ UNCHANGED vars
  BY <1>1 DEF CommitCancel, Restart, RecoveryStep, FinishRecovery, RecoverExpired, rows, vars
<1>8. TaskCompleted
  BY <1>2, <1>3, <1>4, <1>5, <1>6, <1>7 DEF Next, QueueStep, Flows
<1>9. /\ HasEvent /\ Accepted(Head(inbox)) /\ Head(inbox).type = "completed" /\ GoodVerdict(Head(inbox))
      /\ task' = [task EXCEPT ![Head(inbox).t] = "done"]
  BY <1>8 DEF TaskCompleted, Complete
<1> QED
  BY <1>1, <1>8, <1>9

(* A cancelled mission with nothing under way stays as it is.              *)
LEMMA CancelledStays ==
  ASSUME TypeOK, [Next]_vars, mission = "cancelled", job["queue"] = Idle, job["route"] = Idle
  PROVE  mission' = "cancelled" /\ \A t \in Tasks : Len(attempts'[t]) = Len(attempts[t])
<1>1. Growth /\ 0 \notin Tasks
  BY StepsOnAttempts, PlanTyped DEF TypeOK
<1>2. \A d \in Flows : job[d] = Idle /\ job[d].todo = {} /\ job[d].at = 0 /\ job[d].kind = "idle"
  BY DEF Flows, Idle
<1>3. \A t \in Tasks : ~ MayGrow(t)
  BY <1>1, <1>2 DEF MayGrow
<1>4. ASSUME NEW d \in Flows, DispatchStep(d)
      PROVE  FALSE
  BY <1>2, <1>4 DEF DispatchStep, Dispatch, SkipTask, PreflightPasses, PreflightFails, RetryRefused, EndBatch
<1>5. ASSUME NEW e, Accepted(e)
      PROVE  FALSE
  BY <1>5 DEF Accepted, Correlated, TerminalMission
<1>6. mission' = mission
  <2>1. CASE AgentStep
    BY <2>1 DEF AgentStep, ClaimAttempt, StartAgent, LaunchFails, Report, ReportAgain, ExpireAttempt, rows
  <2>2. ~ Reconcile
    BY <1>2 DEF Reconcile, Flows
  <2>3. ~ GateFails /\ ~ TaskCompleted /\ ~ TaskFailedRetries /\ ~ TaskFailedExhausted
    BY <1>5 DEF GateFails, TaskCompleted, Complete, TaskFailedRetries, TaskFailedExhausted
  <2>4. CASE UserStep \/ CommitCancel
    BY <2>4 DEF UserStep, DecidePlan, DecideApply, SelectCandidate, RetryMission, RetryPossible, BeginCancel,
                TerminalMission, CommitCancel
  <2>5. CASE DropEvent \/ Restart \/ RecoveryStep \/ UNCHANGED vars
    BY <2>5 DEF DropEvent, Restart, RecoveryStep, FinishRecovery, RecoverExpired, rows, vars
  <2> QED
    BY <1>4, <2>1, <2>2, <2>3, <2>4, <2>5 DEF Next, QueueStep, Flows
<1> QED
  BY <1>1, <1>3, <1>6 DEF Growth

(* A completion that waits is always about an attempt that has ended.      *)
LEMMA EventsAreTrue == Spec => [](TypeOK /\ EventsTrue)
<1>1. Init => TypeOK /\ EventsTrue
  BY InitTypeOK DEF Init, EventsTrue
<1>2. TypeOK /\ EventsTrue /\ [Next]_vars => (TypeOK /\ EventsTrue)'
  BY NextTypeOK, NextEventsTrue
<1> QED
  BY <1>1, <1>2, PTL DEF Spec

(* A report counts only for the task and the agent it names, and only      *)
(* while the mission goes on.                                              *)
THEOREM ReportsAlwaysCount == Spec => ReportsCount
<1>1. TypeOK /\ EventsTrue /\ [Next]_vars =>
        [\A t \in Tasks : task[t] # "done" /\ task'[t] = "done" =>
           /\ task[t] = "running" /\ inbox # <<>> /\ Head(inbox).t = t /\ Head(inbox).k = agent[t]
           /\ attempts[t][agent[t]] = "completed"]_vars
  <2> SUFFICES ASSUME TypeOK, EventsTrue, [Next]_vars, NEW t \in Tasks, task[t] # "done", task'[t] = "done"
               PROVE  /\ task[t] = "running" /\ inbox # <<>> /\ Head(inbox).t = t /\ Head(inbox).k = agent[t]
                      /\ attempts[t][agent[t]] = "completed"
    OBVIOUS
  <2>1. /\ HasEvent /\ Accepted(Head(inbox)) /\ Head(inbox).type = "completed" /\ t = Head(inbox).t
    BY WhoIsDone
  <2> QED
    BY <2>1, CompletionIsReal DEF HasEvent
<1>2. TypeOK /\ [Next]_vars =>
        [mission = "cancelled" /\ job["queue"] = Idle /\ job["route"] = Idle =>
           mission' = "cancelled" /\ \A t \in Tasks : Len(attempts'[t]) = Len(attempts[t])]_vars
  BY CancelledStays
<1> QED
  BY <1>1, <1>2, EventsAreTrue, PTL DEF Spec, ReportsCount, OnlyItsAgentCompletes, CancelledIsQuiet

-----------------------------------------------------------------------------
(* The order of the plan.                                                  *)

(* A completion marks its task done, and what follows is one of a few. *)
LEMMA CompletionShapes ==
  ASSUME TaskCompleted
  PROVE  /\ HasEvent /\ Accepted(Head(inbox)) /\ Head(inbox).type = "completed" /\ GoodVerdict(Head(inbox))
         /\ task' = [task EXCEPT ![Head(inbox).t] = "done"]
         /\ passed' = IF IsGate(Head(inbox).t) /\ Head(inbox).pass THEN passed \cup {Head(inbox).t} ELSE passed
         /\ asked' \subseteq asked \cup {"apply", "candidate_selection"}
         /\ mission' = "applying" => mission = "applying" \/ AllDone(task')
         /\ \/ SetJob("queue", Idle)
            \/ SetJob("queue", Job("due", {}))
            \/ /\ SetJob("queue", Job("legacy", AllocatedIn(task', ReadyIn(task'))))
               /\ ~ AskSelection(ReadyIn(task'))
         /\ UNCHANGED <<plan, agent, attempts, retries, cancelling, recovering, lost, spent>>
<1> DEFINE e == Head(inbox)
           done == [task EXCEPT ![e.t] = "done"]
           onMission == IF IsGate(e.t) THEN "active" ELSE mission
           applied == IF AllDone(done) THEN "applying" ELSE "blocked"
           due == Job("due", {})
           batch == Job("legacy", AllocatedIn(done, ReadyIn(done)))
<1>1. \/ Complete(e, done, "completed", {}, Idle) \/ Complete(e, done, onMission, {}, due)
      \/ Complete(e, done, "blocked", {}, Idle) \/ Complete(e, done, "waiting", {"apply"}, Idle)
      \/ Complete(e, done, applied, {}, Idle) \/ Complete(e, done, "failed", {}, Idle)
      \/ Complete(e, done, "waiting", {"candidate_selection"}, Idle)
      \/ ~ AskSelection(ReadyIn(done)) /\ Complete(e, done, onMission, {}, batch)
  BY Zenon DEF TaskCompleted
<1>2. onMission = "applying" => mission = "applying"
  OBVIOUS
<1>3. applied = "applying" => AllDone(done)
  OBVIOUS
<1>4. \A after, wait, j : Complete(e, done, after, wait, j) =>
        /\ HasEvent /\ Accepted(e) /\ e.type = "completed" /\ GoodVerdict(e)
        /\ task' = done /\ mission' = after /\ asked' = asked \cup wait /\ SetJob("queue", j)
        /\ passed' = IF IsGate(e.t) /\ e.pass THEN passed \cup {e.t} ELSE passed
        /\ UNCHANGED <<plan, agent, attempts, retries, cancelling, recovering, lost, spent>>
  BY DEF Complete
<1> HIDE DEF e, done, onMission, applied, due, batch
<1>5. /\ HasEvent /\ Accepted(e) /\ e.type = "completed" /\ GoodVerdict(e)
      /\ task' = done
      /\ passed' = IF IsGate(e.t) /\ e.pass THEN passed \cup {e.t} ELSE passed
      /\ UNCHANGED <<plan, agent, attempts, retries, cancelling, recovering, lost, spent>>
  BY <1>1, <1>4
<1>6. asked' \subseteq asked \cup {"apply", "candidate_selection"}
  BY <1>1, <1>4
<1>7. mission' = "applying" => mission = "applying" \/ AllDone(done)
  BY <1>1, <1>2, <1>3, <1>4
<1>8. SetJob("queue", Idle) \/ SetJob("queue", due) \/ (~ AskSelection(ReadyIn(done)) /\ SetJob("queue", batch))
  BY <1>1, <1>4
<1> QED
  BY <1>5, <1>6, <1>7, <1>8 DEF e, done, due, batch

(* The tasks that flow d has still to dispatch.                            *)
Pend(d) == job[d].todo \cup ({job[d].at} \ {0})

(* A flow goes on with what it has.                                        *)
GoesOn(d) ==
  /\ job'[d].kind = job[d].kind /\ job'[d].todo \subseteq job[d].todo
  /\ \/ job'[d].at \in {job[d].at, 0}
     \/ /\ job'[d].at \in job[d].todo \ job'[d].todo /\ plan.role[job'[d].at] = "builder"
        /\ Dispatch(d)
  /\ job'[d] = job[d] \/ job[d].todo # {} \/ job[d].at # 0

(* A flow is given something to do.                                        *)
GetsJob(d) ==
  \/ /\ job'[d] = Job("due", {})
     /\ \/ job[d].kind = "legacy" /\ EndBatch(d)
        \/ d = "queue" /\ (FinishRecovery \/ TaskCompleted)
  \/ d = "queue" /\ Reconcile /\ ~ AskSelection(Ready) /\ job'[d] = Job("reconcile", Allocated(Ready))
  \/ /\ d = "queue" /\ TaskCompleted /\ ~ AskSelection(ReadyIn(task'))
     /\ job'[d] = Job("legacy", AllocatedIn(task', ReadyIn(task')))
  \/ /\ d = "queue" /\ TaskFailedRetries /\ job'[d] = Job("single", {Head(inbox).t})
     /\ Allocated({Head(inbox).t}) # {}
  \/ d = "route" /\ DecidePlan(TRUE) /\ job'[d] = Job("approve", Allocated(Roots))
  \/ d = "route" /\ \E c \in Tasks : SelectCandidate(c) /\ job'[d] = Job("select", AllocatedIn(task', ReadyIn(task')))
  \/ /\ d = "route"
     /\ \E chosen \in SUBSET Tasks :
          /\ RetryMission(chosen)
          /\ job'[d] = Job("retry", {t \in chosen : \A u \in plan.deps[t] : task[u] \in TerminalTask})

(* What a step does to the flows. *)
LEMMA StepsOnJobs ==
  ASSUME TypeOK, [Next]_vars, NEW d \in Flows
  PROVE  GoesOn(d) \/ job'[d] = Idle \/ GetsJob(d)
<1>1. job \in [Flows -> Jobs] /\ "queue" \in Flows /\ "route" \in Flows
      /\ Idle \in Jobs /\ \A kind \in JobKind, S \in SUBSET Tasks : Job(kind, S) \in Jobs
  BY NewJobTyped DEF TypeOK, Flows
<1>2. ASSUME job'[d] = job[d]
      PROVE  GoesOn(d)
  BY <1>2 DEF GoesOn
<1>3. ASSUME NEW f \in Flows, NEW j \in Jobs, SetJob(f, j)
      PROVE  job'[f] = j /\ (f # d => GoesOn(d))
  BY <1>1, <1>2, <1>3, SetJobTyped
<1>4. ASSUME NEW f \in Flows, DispatchStep(f)
      PROVE  GoesOn(d) \/ job'[d] = Idle \/ GetsJob(d)
  <2>1. CASE Dispatch(f)
    <3>1. PICK t \in Tasks : /\ t \in job[f].todo /\ job[f].at = 0
                             /\ \A g \in Flows : g # f => job'[g] = job[g]
                             /\ job'[f].kind = job[f].kind /\ job'[f].todo = job[f].todo \ {t}
                             /\ \/ plan.role[t] = "builder" /\ job'[f].at = t
                                \/ job'[f].at = 0
      BY <2>1, DispatchTyped
    <3>2. CASE f = d
      BY <2>1, <3>1, <3>2 DEF GoesOn
    <3> QED
      BY <1>2, <3>1, <3>2
  <2>2. CASE PreflightPasses(f)
    <3>1. PICK t \in Tasks : /\ job[f].at = t /\ \A g \in Flows : g # f => job'[g] = job[g]
                             /\ job'[f].kind = job[f].kind /\ job'[f].todo = job[f].todo /\ job'[f].at = 0
      BY <2>2, PassTyped
    <3>2. job[f].at # 0
      BY <2>2 DEF PreflightPasses
    <3>3. CASE f = d
      BY <3>1, <3>2, <3>3 DEF GoesOn
    <3> QED
      BY <1>2, <3>1, <3>3
  <2>3. CASE PreflightFails(f) \/ RetryRefused(f)
    <3>1. SetJob(f, Idle)
      BY <2>3 DEF PreflightFails, RetryRefused
    <3> QED
      BY <1>1, <1>3, <3>1
  <2>4. CASE SkipTask(f)
    <3>1. job[f] \in Jobs /\ job[f].todo # {} /\ job[f].at = 0 /\ SetJob(f, Rest(f, NextTask(f)))
      BY <1>1, <2>4 DEF SkipTask
    <3>2. /\ Rest(f, NextTask(f)) \in Jobs /\ Rest(f, NextTask(f)).kind = job[f].kind
          /\ Rest(f, NextTask(f)).todo \subseteq job[f].todo /\ Rest(f, NextTask(f)).at = 0
      BY <3>1 DEF Rest, Jobs
    <3>3. CASE f = d
      BY <1>3, <3>1, <3>2, <3>3 DEF GoesOn
    <3> QED
      BY <1>3, <3>1, <3>2, <3>3
  <2>5. CASE EndBatch(f)
    <3>1. SetJob(f, IF job[f].kind = "legacy" /\ mission \notin {"failed", "cancelled", "blocked"} THEN Job("due", {}) ELSE Idle)
      BY <2>5 DEF EndBatch
    <3>2. Job("due", {}) \in Jobs
      BY <1>1 DEF JobKind
    <3>3. job'[f] = Idle \/ (job[f].kind = "legacy" /\ job'[f] = Job("due", {}))
      BY <1>1, <1>3, <3>1, <3>2
    <3>4. f # d => GoesOn(d)
      BY <1>1, <1>3, <3>1, <3>2
    <3> QED
      BY <2>5, <3>3, <3>4 DEF GetsJob
  <2> QED
    BY <1>4, <2>1, <2>2, <2>3, <2>4, <2>5 DEF DispatchStep
<1>5. CASE AgentStep \/ DropEvent \/ GateFails \/ TaskFailedExhausted \/ BeginCancel \/ CommitCancel \/ UNCHANGED vars
  <2>1. job' = job
    BY <1>5, ZenonT(40)
       DEF AgentStep, ClaimAttempt, StartAgent, LaunchFails, Report, ReportAgain, ExpireAttempt, DropEvent,
           GateFails,
                TaskFailedExhausted, BeginCancel, CommitCancel, vars, memory
  <2> QED
    BY <1>2, <2>1
<1>6. CASE Reconcile
  <2>1. Allocated(Ready) \in SUBSET Tasks
    BY AllocatedTyped DEF Allocated, Ready, ReadyIn
  <2>2. Job("reconcile", Allocated(Ready)) \in Jobs
    BY <1>1, <2>1 DEF JobKind
  <2>3. SetJob("queue", Idle) \/ (SetJob("queue", Job("reconcile", Allocated(Ready))) /\ ~ AskSelection(Ready))
    BY <1>6 DEF Reconcile
  <2>4. d = "queue" => job'[d] = Idle \/ (job'[d] = Job("reconcile", Allocated(Ready)) /\ ~ AskSelection(Ready))
    BY <1>1, <1>3, <2>2, <2>3
  <2>5. d # "queue" => GoesOn(d)
    BY <1>1, <1>3, <2>2, <2>3
  <2> QED
    BY <1>6, <2>4, <2>5 DEF GetsJob
<1>7. CASE TaskCompleted
  <2> DEFINE batch == Job("legacy", AllocatedIn(task', ReadyIn(task')))
  <2>1. \/ SetJob("queue", Idle) \/ SetJob("queue", Job("due", {}))
        \/ SetJob("queue", batch) /\ ~ AskSelection(ReadyIn(task'))
    BY <1>7, CompletionShapes
  <2>2. ReadyIn(task') \in SUBSET Tasks
    BY DEF ReadyIn
  <2>3. AllocatedIn(task', ReadyIn(task')) \in SUBSET Tasks
    BY <2>2, AllocatedTyped
  <2>4. batch \in Jobs /\ Job("due", {}) \in Jobs
    BY <1>1, <2>3 DEF JobKind
  <2> HIDE DEF batch
  <2>5. d = "queue" => \/ job'[d] = Idle \/ job'[d] = Job("due", {})
                       \/ job'[d] = batch /\ ~ AskSelection(ReadyIn(task'))
    BY <1>1, <1>3, <2>1, <2>4
  <2>6. d # "queue" => GoesOn(d)
    BY <1>1, <1>3, <2>1, <2>4
  <2> QED
    BY <1>7, <2>5, <2>6 DEF GetsJob, batch
<1>8. CASE TaskFailedRetries
  <2>1. Head(inbox).t \in Tasks
    BY <1>8, HeadTyped DEF TaskFailedRetries, HasEvent
  <2>2. Job("single", {Head(inbox).t}) \in Jobs
    BY <1>1, <2>1 DEF JobKind
  <2>3. \/ SetJob("queue", Idle)
        \/ SetJob("queue", Job("single", {Head(inbox).t})) /\ Allocated({Head(inbox).t}) # {}
    BY <1>8 DEF TaskFailedRetries
  <2>4. d = "queue" => job'[d] = Idle \/ (job'[d] = Job("single", {Head(inbox).t}) /\ Allocated({Head(inbox).t}) # {})
    BY <1>1, <1>3, <2>2, <2>3
  <2>5. d # "queue" => GoesOn(d)
    BY <1>1, <1>3, <2>2, <2>3
  <2> QED
    BY <1>8, <2>4, <2>5 DEF GetsJob
<1>9. ASSUME NEW approved \in BOOLEAN, DecidePlan(approved)
      PROVE  GoesOn(d) \/ GetsJob(d)
  <2>1. Allocated(Roots) \in SUBSET Tasks
    BY AllocatedTyped DEF Allocated, Roots
  <2>2. Job("approve", Allocated(Roots)) \in Jobs
    BY <1>1, <2>1 DEF JobKind
  <2>3. CASE ~ approved
    BY <1>2, <1>9, <2>3 DEF DecidePlan
  <2>4. CASE approved
    <3>1. DecidePlan(TRUE) /\ SetJob("route", Job("approve", Allocated(Roots)))
      BY <1>9, <2>4 DEF DecidePlan
    <3> QED
      BY <1>1, <1>3, <2>2, <3>1 DEF GetsJob
  <2> QED
    BY <2>3, <2>4
<1>10. ASSUME NEW c \in Tasks, SelectCandidate(c)
       PROVE  GoesOn(d) \/ GetsJob(d)
  <2>1. SetJob("route", Job("select", AllocatedIn(task', ReadyIn(task'))))
    BY <1>10 DEF SelectCandidate
  <2>2. ReadyIn(task') \in SUBSET Tasks
    BY DEF ReadyIn
  <2>3. AllocatedIn(task', ReadyIn(task')) \in SUBSET Tasks
    BY <2>2, AllocatedTyped
  <2>4. Job("select", AllocatedIn(task', ReadyIn(task'))) \in Jobs
    BY <1>1, <2>3 DEF JobKind
  <2>5. d = "route" => job'[d] = Job("select", AllocatedIn(task', ReadyIn(task')))
    BY <1>1, <1>3, <2>1, <2>4
  <2>6. d # "route" => GoesOn(d)
    BY <1>1, <1>3, <2>1, <2>4
  <2> QED
    BY <1>10, <2>5, <2>6 DEF GetsJob
<1>11. ASSUME NEW chosen \in SUBSET Tasks, RetryMission(chosen)
       PROVE  GoesOn(d) \/ GetsJob(d)
  <2> DEFINE ready == {t \in chosen : \A u \in plan.deps[t] : task[u] \in TerminalTask}
  <2>1. job' = job \/ SetJob("route", Job("retry", ready))
    BY <1>11 DEF RetryMission
  <2>2. Job("retry", ready) \in Jobs
    BY <1>1 DEF JobKind
  <2>3. CASE job' = job
    BY <1>2, <2>3
  <2>4. CASE SetJob("route", Job("retry", ready))
    <3> HIDE DEF ready
    <3>1. d = "route" => job'[d] = Job("retry", ready)
      BY <1>1, <1>3, <2>2, <2>4
    <3>2. d # "route" => GoesOn(d)
      BY <1>1, <1>3, <2>2, <2>4
    <3> QED
      BY <1>11, <3>1, <3>2 DEF GetsJob, ready
  <2> QED
    BY <2>1, <2>3, <2>4
<1>12. ASSUME NEW approved \in BOOLEAN, DecideApply(approved)
       PROVE  GoesOn(d)
  BY <1>2, <1>12 DEF DecideApply
<1>13. CASE Restart
  <2>1. job'[d] = Idle
    BY <1>13 DEF Restart, Flows
  <2> QED
    BY <2>1
<1>14. ASSUME NEW t \in Tasks, RecoverExpired(t)
       PROVE  GoesOn(d)
  BY <1>2, <1>14 DEF RecoverExpired
<1>15. CASE FinishRecovery
  <2>1. Job("due", {}) \in Jobs
    BY <1>1 DEF JobKind
  <2>2. SetJob("queue", Job("due", {})) \/ SetJob("queue", Idle)
    BY <1>15 DEF FinishRecovery
  <2>3. d = "queue" => job'[d] = Job("due", {}) \/ job'[d] = Idle
    BY <1>1, <1>3, <2>1, <2>2
  <2>4. d # "queue" => GoesOn(d)
    BY <1>1, <1>3, <2>1, <2>2
  <2> QED
    BY <1>15, <2>3, <2>4 DEF GetsJob
<1>16. CASE UserStep
  BY <1>5, <1>9, <1>10, <1>11, <1>12, <1>16 DEF UserStep
<1>17. CASE RecoveryStep
  BY <1>14, <1>15, <1>17 DEF RecoveryStep
<1>18. CASE QueueStep
  BY <1>1, <1>4, <1>5, <1>6, <1>7, <1>8, <1>18 DEF QueueStep
<1>19. CASE DispatchStep("route")
  BY <1>1, <1>4, <1>19
<1> QED
  BY <1>5, <1>13, <1>16, <1>17, <1>18, <1>19 DEF Next

(* Somebody has completed the task.                                        *)
Finished(t) == \E k \in Agents(t) : attempts[t][k] = "completed"

(* What a flow may hold: the queue and the route have jobs of their own,   *)
(* and what waits for its preflight is a Builder.                          *)
JobShape ==
  /\ job["queue"].kind \in {"idle", "legacy", "reconcile", "single", "due"}
  /\ job["route"].kind \in {"idle", "start", "approve", "select", "retry"}
  /\ \A d \in Flows : /\ job[d].kind = "idle" => job[d] = Idle
                      /\ job[d].at # 0 => plan.role[job[d].at] = "builder" /\ job[d].at \notin job[d].todo
  /\ recovering => job["route"] = Idle

(* Work that counts as done has been completed.                            *)
WorkDone == \A t \in Tasks : task[t] \in TerminalTask => Finished(t)

(* So has the work before anything that was or will be dispatched.         *)
DependenciesMet == \A t \in Tasks :
  attempts[t] # <<>> \/ t \in Pend("queue") \/ t \in Pend("route") => \A d \in plan.deps[t] : Finished(d)

(* The last verdict of a gate that is done was a pass.                     *)
GatesPassed == \A t \in Tasks : IsGate(t) /\ task[t] = "done" => t \in passed

(* While the user is asked about the plan, nothing has been dispatched.    *)
PlanUntouched == "plan" \in asked =>
  /\ asked = {"plan"} /\ mission \in {"waiting", "cancelled"}
  /\ job["queue"] = Idle /\ job["route"] = Idle
  /\ \A t \in Tasks : task[t] \in {"planned", "cancelled"} /\ attempts[t] = <<>>

(* The route that starts a plan works before anything is completed, the    *)
(* one of a selection dispatches no Builder, the one of a retry no gate    *)
(* for the first time.                                                     *)
RouteShape ==
  /\ job["route"].kind \in {"start", "approve"} => \A t \in Tasks : ~ Finished(t)
  /\ job["route"].kind = "select" => job["route"].at = 0 /\ \A t \in job["route"].todo : plan.role[t] # "builder"
  /\ job["route"].kind = "retry" => \A t \in job["route"].todo : IsGate(t) => attempts[t] # <<>>

(* A gate that has had no agent is waiting for its turn.                   *)
UntriedGate == \A t \in Tasks : IsGate(t) /\ attempts[t] = <<>> => task[t] \in {"planned", "ready", "cancelled"}

(* A QA is dispatched for the first time when not every Builder is done:   *)
(* either none was yet, or the selection has superseded one.               *)
SelectionMade == plan.kind = "candidate" /\ Cardinality(Builders) > 1 =>
  \A d \in Flows : \A t \in job[d].todo :
    plan.role[t] = "qa" /\ attempts[t] = <<>> => \E c \in Builders : task[c] # "done"

PlanInv == /\ TypeOK /\ EventsTrue /\ JobShape /\ WorkDone /\ DependenciesMet /\ GatesPassed
           /\ PlanUntouched /\ RouteShape /\ UntriedGate /\ SelectionMade

(* The fields of a job that is given. *)
LEMMA JobFields ==
  /\ Idle.kind = "idle" /\ Idle.todo = {} /\ Idle.at = 0
  /\ \A kind, S : Job(kind, S).kind = kind /\ Job(kind, S).todo = S /\ Job(kind, S).at = 0
BY DEF Idle, Job

(* Only a selection supersedes a task, a Builder that is done.             *)
LEMMA WhoIsSuperseded ==
  ASSUME TypeOK, [Next]_vars, NEW t \in Tasks, task[t] # "superseded", task'[t] = "superseded"
  PROVE  task[t] = "done"
<1>1. task \in [Tasks -> TaskStatus] /\ job \in [Flows -> Jobs]
  BY DEF TypeOK, Flows
<1>2. ~ AgentStep
  BY <1>1, ZenonT(40) DEF AgentStep, ClaimAttempt, StartAgent, LaunchFails, Report, ReportAgain, ExpireAttempt, rows
<1>3. ASSUME NEW d \in Flows, DispatchStep(d)
      PROVE  FALSE
  <2>1. ASSUME Dispatch(d)
        PROVE  FALSE
    <3>1. PICK u \in Tasks, now \in [Tasks -> TaskStatus] :
             /\ now[u] \in {task[u], "ready"} /\ \A v \in Tasks : v # u => now[v] = task[v]
             /\ task' = now \/ Assign(u, now)
      BY <2>1, DispatchTyped
    <3> QED
      BY <3>1 DEF Assign
  <2>2. ASSUME PreflightPasses(d)
        PROVE  FALSE
    BY <1>1, <2>2 DEF PreflightPasses, Assign
  <2>3. ASSUME PreflightFails(d)
        PROVE  FALSE
    BY <1>1, <2>3 DEF PreflightFails, AbortRetry
  <2>4. ASSUME RetryRefused(d)
        PROVE  FALSE
    BY <1>1, <2>4 DEF RetryRefused, AbortRetry
  <2>5. ~ SkipTask(d) /\ ~ EndBatch(d)
    BY DEF SkipTask, EndBatch, rows
  <2> QED
    BY <1>3, <2>1, <2>2, <2>3, <2>4, <2>5 DEF DispatchStep
<1>4. ~ Reconcile /\ ~ DropEvent /\ ~ GateFails
  BY <1>1 DEF Reconcile, DropEvent, GateFails, rows
<1>5. ~ TaskFailedRetries /\ ~ TaskFailedExhausted
  BY <1>1 DEF TaskFailedRetries, TaskFailedExhausted
<1>6. ~ TaskCompleted
  <2>1. ASSUME TaskCompleted
        PROVE  FALSE
    <3>1. task' = [task EXCEPT ![Head(inbox).t] = "done"]
      BY <2>1, CompletionShapes
    <3> QED
      BY <1>1, <3>1
  <2> QED
    BY <2>1
<1>7. ~ CommitCancel /\ ~ Restart /\ ~ RecoveryStep /\ ~ UNCHANGED vars
  BY <1>1 DEF CommitCancel, Restart, RecoveryStep, FinishRecovery, RecoverExpired, rows, vars
<1>8. \E c \in Tasks : SelectCandidate(c)
  <2>1. UserStep
    BY <1>2, <1>3, <1>4, <1>5, <1>6, <1>7 DEF Next, QueueStep, Flows
  <2>2. \A approved \in BOOLEAN : ~ DecidePlan(approved) /\ ~ DecideApply(approved)
    BY DEF DecidePlan, DecideApply
  <2>3. \A chosen \in SUBSET Tasks : ~ RetryMission(chosen)
    BY DEF RetryMission
  <2>4. ~ BeginCancel
    BY DEF BeginCancel
  <2> QED
    BY <2>1, <2>2, <2>3, <2>4 DEF UserStep
<1> QED
  BY <1>8 DEF SelectCandidate, Builders

(* A pass is withdrawn only with the task itself.                          *)
LEMMA WhoLosesItsPass ==
  ASSUME TypeOK, [Next]_vars, NEW t \in passed, t \notin passed'
  PROVE  task'[t] # "done"
<1>1. t \in Tasks
  BY DEF TypeOK
<1>2. CASE GateFails
  BY <1>1, <1>2 DEF GateFails
<1>3. CASE TaskCompleted
  <2>1. passed' = passed \/ passed' = passed \cup {Head(inbox).t}
    BY <1>3, CompletionShapes
  <2> QED
    BY <2>1
<1>4. CASE AgentStep \/ DispatchStep("queue") \/ DispatchStep("route") \/ Reconcile \/ DropEvent
           \/ TaskFailedRetries \/ TaskFailedExhausted
  <2>1. passed' = passed
    BY <1>4, ZenonT(40) DEF AgentStep, ClaimAttempt, StartAgent, LaunchFails, Report, ReportAgain, ExpireAttempt,
           DispatchStep, Dispatch, SkipTask, PreflightPasses, PreflightFails, RetryRefused, EndBatch, Reconcile,
           DropEvent, TaskFailedRetries, TaskFailedExhausted, history
  <2> QED
    BY <2>1
<1>5. CASE UserStep \/ CommitCancel \/ Restart \/ RecoveryStep \/ UNCHANGED vars
  <2>1. passed' = passed
    BY <1>5
       DEF UserStep, DecidePlan, DecideApply, SelectCandidate, RetryMission, BeginCancel, RouteOnly,
           CommitCancel,
           Restart, RecoveryStep, FinishRecovery, RecoverExpired, vars, history
  <2> QED
    BY <2>1
<1> QED
  BY <1>2, <1>3, <1>4, <1>5 DEF Next, QueueStep

(* Only a completion of the last task or the user's approval, once every   *)
(* task is done, sets a mission to applying.                               *)
LEMMA WhoApplies ==
  ASSUME TypeOK, [Next]_vars, mission # "applying", mission' = "applying"
  PROVE  \A t \in Tasks : task'[t] = "done"
<1>1. CASE TaskCompleted
  <2>1. AllDone(task')
    BY <1>1, CompletionShapes
  <2> QED
    BY <2>1 DEF AllDone
<1>2. ASSUME NEW approved \in BOOLEAN, DecideApply(approved)
      PROVE  \A t \in Tasks : task'[t] = "done"
  BY <1>2 DEF DecideApply, AllDone
<1>3. ~ AgentStep
  BY ZenonT(40) DEF AgentStep, ClaimAttempt, StartAgent, LaunchFails, Report, ReportAgain, ExpireAttempt, rows
<1>4. ASSUME NEW d \in Flows, DispatchStep(d)
      PROVE  FALSE
  BY <1>4
     DEF DispatchStep, Dispatch, SkipTask, PreflightPasses, PreflightFails, RetryRefused, EndBatch, Assign,
              AbortRetry, rows
<1>5. ~ Reconcile /\ ~ DropEvent /\ ~ GateFails /\ ~ TaskFailedRetries /\ ~ TaskFailedExhausted
  BY DEF Reconcile, DropEvent, GateFails, TaskFailedRetries, TaskFailedExhausted, rows
<1>6. ~ CommitCancel /\ ~ Restart /\ ~ RecoveryStep /\ ~ UNCHANGED vars
  BY DEF CommitCancel, Restart, RecoveryStep, FinishRecovery, RecoverExpired, rows, vars
<1>7. CASE UserStep
  BY <1>2, <1>7 DEF UserStep, DecidePlan, SelectCandidate, RetryMission, BeginCancel
<1> QED
  BY <1>1, <1>3, <1>4, <1>5, <1>6, <1>7 DEF Next, QueueStep, Flows

(* A gate without an agent waits, or gets its first agent in this step.    *)
LEMMA UntriedStays ==
  ASSUME TypeOK, JobShape, UntriedGate, [Next]_vars, NEW t \in Tasks, IsGate(t), attempts'[t] = <<>>
  PROVE  task'[t] \in {"planned", "ready", "cancelled"}
<1>1. /\ task \in [Tasks -> TaskStatus] /\ job \in [Flows -> Jobs] /\ attempts \in [Tasks -> Seq(AttemptStatus)]
      /\ agent \in [Tasks -> Nat]
  BY DEF TypeOK, Flows
<1>2. attempts[t] = <<>> /\ Agents(t) = {}
  <2>1. Growth
    BY StepsOnAttempts
  <2>2. Len(attempts'[t]) \in {Len(attempts[t]), Len(attempts[t]) + 1} /\ Len(attempts'[t]) = 0 /\ Len(attempts[t]) \in Nat
    BY <1>1, <2>1 DEF Growth
  <2>3. Len(attempts[t]) = 0
    BY <2>2
  <2> QED
    BY <1>1, <2>3 DEF Agents
<1>3. task[t] \in {"planned", "ready", "cancelled"} /\ plan.role[t] # "builder"
  BY <1>2 DEF UntriedGate, IsGate
<1>4. CASE AgentStep
  <2>1. PICK u \in Tasks : \E k \in Agents(u) :
           \/ ClaimAttempt(u, k) \/ StartAgent(u, k) \/ LaunchFails(u, k)
           \/ Report(u, k) \/ ReportAgain(u, k) \/ ExpireAttempt(u, k)
    BY <1>4 DEF AgentStep
  <2>2. u # t
    BY <1>2, <2>1
  <2>3. task'[t] = task[t]
    BY <1>1, <2>1, <2>2 DEF ClaimAttempt, StartAgent, LaunchFails, Report, ReportAgain, ExpireAttempt, rows
  <2> QED
    BY <1>3, <2>3
<1>5. ASSUME NEW d \in Flows, DispatchStep(d)
      PROVE  task'[t] \in {"planned", "ready", "cancelled"}
  <2>0. ASSUME NEW u \in Tasks, NEW now \in [Tasks -> TaskStatus], Assign(u, now)
        PROVE  u # t /\ task'[t] = now[t]
    <3>1. /\ Len(attempts'[u]) = Len(attempts[u]) + 1 /\ Len(attempts[u]) \in Nat
          /\ \A v \in Tasks : v # u => task'[v] = now[v]
      BY <1>1, <2>0, AssignTyped
    <3>2. Len(attempts'[t]) = 0
      OBVIOUS
    <3> QED
      BY <3>1, <3>2
  <2>1. CASE Dispatch(d)
    <3>1. PICK u \in Tasks, now \in [Tasks -> TaskStatus] :
             /\ now[u] \in {task[u], "ready"} /\ \A v \in Tasks : v # u => now[v] = task[v]
             /\ task' = now \/ Assign(u, now)
      BY <2>1, DispatchTyped
    <3>2. task'[t] = now[t]
      BY <2>0, <3>1
    <3> QED
      BY <1>3, <3>1, <3>2
  <2>2. CASE PreflightPasses(d)
    <3>1. PICK u \in Tasks : Assign(u, task)
      BY <2>2, PassTyped
    <3> QED
      BY <1>1, <1>3, <2>0, <3>1
  <2>3. CASE PreflightFails(d)
    <3>1. job[d].at # t
      BY <1>3, <2>3 DEF PreflightFails, JobShape
    <3>2. task'[t] = task[t]
      BY <1>1, <1>3, <2>3, <3>1 DEF PreflightFails, AbortRetry
    <3> QED
      BY <1>3, <3>2
  <2>4. CASE RetryRefused(d)
    <3>1. task'[t] = task[t]
      BY <1>3, <2>4 DEF RetryRefused, AbortRetry
    <3> QED
      BY <1>3, <3>1
  <2>5. CASE SkipTask(d) \/ EndBatch(d)
    BY <1>3, <2>5 DEF SkipTask, EndBatch, rows
  <2> QED
    BY <1>5, <2>1, <2>2, <2>3, <2>4, <2>5 DEF DispatchStep
<1>6. ASSUME HasEvent
      PROVE  Head(inbox).t \in Tasks /\ Head(inbox).t # t
  <2>1. Head(inbox).t \in Tasks /\ Head(inbox).k \in Agents(Head(inbox).t)
    BY <1>6, HeadTyped DEF HasEvent
  <2> QED
    BY <1>2, <2>1
<1>7. CASE Reconcile \/ DropEvent
  BY <1>3, <1>7 DEF Reconcile, DropEvent, rows
<1>8. CASE GateFails
  BY <1>3, <1>6, <1>8 DEF GateFails
<1>9. CASE TaskCompleted
  <2>1. HasEvent /\ task' = [task EXCEPT ![Head(inbox).t] = "done"]
    BY <1>9, CompletionShapes
  <2> QED
    BY <1>1, <1>3, <1>6, <2>1
<1>10. CASE TaskFailedRetries \/ TaskFailedExhausted
  <2>1. HasEvent /\ \E s \in TaskStatus : task' = [task EXCEPT ![Head(inbox).t] = s]
    BY <1>10 DEF TaskFailedRetries, TaskFailedExhausted, TaskStatus
  <2> QED
    BY <1>1, <1>3, <1>6, <2>1
<1>11. CASE UserStep
  <2>1. ASSUME NEW approved \in BOOLEAN, DecidePlan(approved) \/ DecideApply(approved)
        PROVE  task'[t] = task[t]
    BY <2>1 DEF DecidePlan, DecideApply
  <2>2. ASSUME NEW c \in Tasks, SelectCandidate(c)
        PROVE  task'[t] = task[t]
    BY <1>3, <2>2 DEF SelectCandidate
  <2>3. ASSUME NEW chosen \in SUBSET Tasks, RetryMission(chosen)
        PROVE  task'[t] \in {task[t], "planned"}
    BY <2>3 DEF RetryMission
  <2>4. ASSUME BeginCancel
        PROVE  task'[t] = task[t]
    BY <2>4 DEF BeginCancel
  <2> QED
    BY <1>3, <1>11, <2>1, <2>2, <2>3, <2>4 DEF UserStep
<1>12. CASE CommitCancel
  BY <1>3, <1>12 DEF CommitCancel
<1>13. CASE Restart \/ RecoveryStep \/ UNCHANGED vars
  BY <1>3, <1>13 DEF Restart, RecoveryStep, FinishRecovery, RecoverExpired, rows, vars
<1> QED
  BY <1>4, <1>5, <1>7, <1>8, <1>9, <1>10, <1>11, <1>12, <1>13 DEF Next, QueueStep, Flows

(* The question about a plan is asked once, before anything happens.       *)
LEMMA NextPlanUntouched ==
  ASSUME TypeOK, PlanUntouched, [Next]_vars, "plan" \in asked'
  PROVE  /\ asked' = {"plan"} /\ mission' \in {"waiting", "cancelled"}
         /\ job'["queue"] = Idle /\ job'["route"] = Idle
         /\ \A t \in Tasks : task'[t] \in {"planned", "cancelled"} /\ attempts'[t] = <<>>
<1>0. asked' \subseteq asked \cup {"apply", "candidate_selection"}
  <2>1. CASE TaskCompleted
    BY <2>1, CompletionShapes
  <2>2. CASE AgentStep \/ DispatchStep("queue") \/ DispatchStep("route") \/ Reconcile \/ DropEvent \/ GateFails
             \/ TaskFailedRetries \/ TaskFailedExhausted
    BY <2>2 DEF AgentStep, ClaimAttempt, StartAgent, LaunchFails, Report, ReportAgain, ExpireAttempt,
           DispatchStep, Dispatch, SkipTask, PreflightPasses, PreflightFails, RetryRefused, EndBatch, Reconcile,
           DropEvent, GateFails, TaskFailedRetries, TaskFailedExhausted, rows
  <2>3. CASE UserStep \/ CommitCancel \/ Restart \/ RecoveryStep \/ UNCHANGED vars
    BY <2>3 DEF UserStep, DecidePlan, DecideApply, SelectCandidate, RetryMission, BeginCancel, CommitCancel,
           Restart, RecoveryStep, FinishRecovery, RecoverExpired, vars, rows
  <2> QED
    BY <2>1, <2>2, <2>3 DEF Next, QueueStep
<1>1. "plan" \in asked
  BY <1>0
<1>2. /\ asked = {"plan"} /\ mission \in {"waiting", "cancelled"}
      /\ job["queue"] = Idle /\ job["route"] = Idle
      /\ \A t \in Tasks : task[t] \in {"planned", "cancelled"} /\ attempts[t] = <<>>
  BY <1>1 DEF PlanUntouched
<1>3. /\ job["queue"].todo = {} /\ job["queue"].at = 0 /\ job["queue"].kind = "idle"
      /\ job["route"].todo = {} /\ job["route"].at = 0 /\ job["route"].kind = "idle"
  BY <1>2, JobFields
<1>4. \A t \in Tasks : Agents(t) = {}
  BY <1>2 DEF Agents
<1>5. Growth /\ 0 \notin Tasks /\ attempts \in [Tasks -> Seq(AttemptStatus)]
  BY StepsOnAttempts, PlanTyped DEF TypeOK
<1>6. \A t \in Tasks : attempts'[t] = <<>>
  <2>1. ASSUME NEW t \in Tasks
        PROVE  attempts'[t] = <<>>
    <3>1. ~ MayGrow(t)
      BY <1>3, <1>5 DEF MayGrow, Flows
    <3>2. Len(attempts'[t]) = 0 /\ attempts'[t] \in Seq(AttemptStatus)
      BY <1>2, <1>5, <3>1 DEF Growth
    <3> QED
      BY <3>2
  <2> QED
    BY <2>1
<1>7. inbox = <<>>
  <2>1. ASSUME inbox # <<>>
        PROVE  FALSE
    BY <1>4, <2>1, HeadTyped
  <2> QED
    BY <2>1
<1>8. ~ AgentStep
  BY <1>4 DEF AgentStep
<1>9. ~ DispatchStep("queue") /\ ~ DispatchStep("route")
  BY <1>2, <1>3 DEF DispatchStep, Dispatch, SkipTask, PreflightPasses, PreflightFails, RetryRefused, EndBatch
<1>10. ~ QueueStep
  BY <1>3, <1>7, <1>9 DEF QueueStep, Reconcile, DropEvent, GateFails, TaskCompleted, TaskFailedRetries,
                          TaskFailedExhausted, HasEvent
<1>11. ASSUME UNCHANGED <<mission, asked, task, job>>
       PROVE  /\ asked' = {"plan"} /\ mission' \in {"waiting", "cancelled"}
              /\ job'["queue"] = Idle /\ job'["route"] = Idle
              /\ \A t \in Tasks : task'[t] \in {"planned", "cancelled"} /\ attempts'[t] = <<>>
  BY <1>2, <1>6, <1>11
<1>12. CASE UserStep
  <2>1. \A approved \in BOOLEAN : ~ DecidePlan(approved)
    BY DEF DecidePlan
  <2>2. \A approved \in BOOLEAN : ~ DecideApply(approved)
    BY <1>2 DEF DecideApply
  <2>3. \A c \in Tasks : ~ SelectCandidate(c)
    BY <1>2 DEF SelectCandidate, Builders
  <2>4. \A chosen \in SUBSET Tasks : ~ RetryMission(chosen)
    BY <1>2 DEF RetryMission, RetryPossible
  <2>5. BeginCancel
    BY <1>12, <2>1, <2>2, <2>3, <2>4 DEF UserStep
  <2> QED
    BY <1>11, <2>5 DEF BeginCancel
<1>13. CASE CommitCancel
  <2>1. UNCHANGED <<asked, job>> /\ mission' = "cancelled"
        /\ \A t \in Tasks : task'[t] = IF task[t] \in Pending \cup {"running"} THEN "cancelled" ELSE task[t]
    BY <1>13 DEF CommitCancel
  <2> QED
    BY <1>2, <1>6, <2>1
<1>14. CASE Restart
  <2>1. UNCHANGED <<asked, mission, task>> /\ job'["queue"] = Idle /\ job'["route"] = Idle
    BY <1>14 DEF Restart
  <2> QED
    BY <1>2, <1>6, <2>1
<1>15. \A t \in Tasks : ~ RecoverExpired(t)
  BY <1>2 DEF RecoverExpired, Unreported, Running
<1>16. CASE FinishRecovery
  <2>1. UNCHANGED <<asked, mission, task>> /\ SetJob("queue", Idle) /\ job \in [Flows -> Jobs]
    BY <1>2, <1>16 DEF FinishRecovery, rows, TypeOK, Flows
  <2>2. job'["queue"] = Idle /\ job'["route"] = job["route"]
    BY <2>1 DEF SetJob, Flows
  <2> QED
    BY <1>2, <1>6, <2>1, <2>2
<1>17. CASE UNCHANGED vars
  BY <1>11, <1>17 DEF vars, rows, memory
<1> QED
  BY <1>8, <1>9, <1>10, <1>12, <1>13, <1>14, <1>15, <1>16, <1>17 DEF Next, RecoveryStep

(* What was completed stays completed.                                     *)
LEMMA FinishedStays ==
  ASSUME TypeOK, [Next]_vars, NEW t \in Tasks, Finished(t)
  PROVE  Finished(t)'
<1>1. PICK k \in Agents(t) : attempts[t][k] = "completed"
  BY DEF Finished
<1>2. Growth
  BY StepsOnAttempts
<1>3. attempts'[t][k] = "completed" /\ Len(attempts[t]) \in Nat /\ Len(attempts'[t]) \in {Len(attempts[t]), Len(attempts[t]) + 1}
  BY <1>1, <1>2 DEF Growth, TypeOK
<1>4. k \in 1 .. Len(attempts'[t])
  BY <1>3 DEF Agents
<1> QED
  BY <1>3, <1>4 DEF Finished, Agents

(* A completion finishes its task. *)
LEMMA NextWorkDone ==
  ASSUME TypeOK, EventsTrue, WorkDone, [Next]_vars
  PROVE  WorkDone'
<1>1. Tasks' = Tasks
  BY StepsOnAttempts
<1>2. TerminalTask' = TerminalTask
  BY DEF TerminalTask
<1>3. ASSUME NEW t \in Tasks, task'[t] \in TerminalTask
      PROVE  Finished(t)'
  <2>1. CASE task[t] \in TerminalTask
    <3>1. Finished(t)
      BY <2>1 DEF WorkDone
    <3> QED
      BY <3>1, FinishedStays
  <2>2. CASE task[t] \notin TerminalTask
    <3>1. task[t] # "done" /\ task[t] # "superseded" /\ task'[t] \in {"done", "superseded"}
      BY <1>3, <2>2 DEF TerminalTask
    <3>2. task'[t] = "done"
      BY <3>1, WhoIsSuperseded
    <3>3. HasEvent /\ Accepted(Head(inbox)) /\ Head(inbox).type = "completed" /\ t = Head(inbox).t
      BY <3>1, <3>2, WhoIsDone
    <3>4. Head(inbox).k \in Agents(t) /\ attempts[t][Head(inbox).k] = "completed"
      BY <3>3, CompletionIsReal
    <3>5. Finished(t)
      BY <3>4 DEF Finished
    <3> QED
      BY <3>5, FinishedStays
  <2> QED
    BY <2>1, <2>2
<1> QED
  BY <1>1, <1>2, <1>3 DEF WorkDone

(* The verdict that finishes a gate is a pass. *)
LEMMA NextGatesPassed ==
  ASSUME TypeOK, GatesPassed, [Next]_vars
  PROVE  GatesPassed'
<1>1. Tasks' = Tasks /\ plan' = plan
  BY StepsOnAttempts
<1>2. ASSUME NEW t \in Tasks, IsGate(t), task'[t] = "done"
      PROVE  t \in passed'
  <2>1. CASE task[t] = "done"
    <3>1. t \in passed
      BY <1>2, <2>1 DEF GatesPassed
    <3> QED
      BY <1>2, <3>1, WhoLosesItsPass
  <2>2. CASE task[t] # "done"
    <3>1. TaskCompleted /\ GoodVerdict(Head(inbox)) /\ t = Head(inbox).t
      BY <1>2, <2>2, WhoIsDone
    <3>2. passed' = IF IsGate(Head(inbox).t) /\ Head(inbox).pass THEN passed \cup {Head(inbox).t} ELSE passed
      BY <3>1, CompletionShapes
    <3> QED
      BY <1>2, <3>1, <3>2 DEF GoodVerdict
  <2> QED
    BY <2>1, <2>2
<1> QED
  BY <1>1, <1>2 DEF GatesPassed, IsGate

(* The flows keep to their shapes. *)
LEMMA NextJobShape ==
  ASSUME TypeOK, JobShape, [Next]_vars
  PROVE  JobShape'
<1>1. plan' = plan /\ job \in [Flows -> Jobs] /\ job' \in [Flows -> Jobs] /\ "queue" \in Flows /\ "route" \in Flows
      /\ 0 \notin Tasks
  BY StepsOnAttempts, NextTypeOK, PlanTyped DEF TypeOK, Flows, Jobs
<1>2. ASSUME NEW d \in Flows, GoesOn(d)
      PROVE  /\ job'[d].kind = job[d].kind
             /\ job'[d].kind = "idle" => job'[d] = Idle
             /\ job'[d].at # 0 => plan.role[job'[d].at] = "builder" /\ job'[d].at \notin job'[d].todo
             /\ job[d] = Idle => job'[d] = Idle
  <2>1. job'[d].kind = job[d].kind
    BY <1>2 DEF GoesOn
  <2>2. job[d] = Idle => job'[d] = Idle
    BY <1>2, JobFields DEF GoesOn
  <2>3. job'[d].kind = "idle" => job'[d] = Idle
    BY <2>1, <2>2 DEF JobShape
  <2>4. job'[d].at # 0 => plan.role[job'[d].at] = "builder" /\ job'[d].at \notin job'[d].todo
    BY <1>2 DEF GoesOn, JobShape
  <2> QED
    BY <2>1, <2>2, <2>3, <2>4
<1>3. ASSUME NEW d \in Flows, GetsJob(d)
      PROVE  /\ job'[d].kind # "idle" /\ job'[d].at = 0
             /\ d = "queue" => job'[d].kind \in {"due", "reconcile", "legacy", "single"}
             /\ d = "route" => job'[d].kind \in {"approve", "select", "retry"} /\ ~ recovering
  <2>1. d = "route" => job[d].kind # "legacy"
    BY DEF JobShape
  <2>2. CASE d = "route"
    <3>1. \/ DecidePlan(TRUE) /\ job'[d] = Job("approve", Allocated(Roots))
          \/ \E c \in Tasks : SelectCandidate(c) /\ job'[d] = Job("select", AllocatedIn(task', ReadyIn(task')))
          \/ \E chosen \in SUBSET Tasks :
               /\ RetryMission(chosen)
               /\ job'[d] = Job("retry", {t \in chosen : \A u \in plan.deps[t] : task[u] \in TerminalTask})
      BY <1>3, <2>1, <2>2, Zenon DEF GetsJob
    <3>2. ~ recovering
      BY <3>1 DEF DecidePlan, SelectCandidate, RetryMission, RetryPossible, Serving
    <3>3. \E S : job'[d] = Job("approve", S) \/ job'[d] = Job("select", S) \/ job'[d] = Job("retry", S)
      BY <3>1
    <3> QED
      BY <2>2, <3>2, <3>3, JobFields
  <2>3. CASE d = "queue"
    <3>1. \E S : \/ job'[d] = Job("due", S) \/ job'[d] = Job("reconcile", S)
                 \/ job'[d] = Job("legacy", S) \/ job'[d] = Job("single", S)
      BY <1>3, <2>3 DEF GetsJob
    <3> QED
      BY <2>3, <3>1, JobFields
  <2> QED
    BY <2>2, <2>3 DEF Flows
<1>4. /\ \A d \in Flows : GoesOn(d) \/ job'[d] = Idle \/ GetsJob(d)
  BY StepsOnJobs
<1>5. job'["queue"].kind \in {"idle", "legacy", "reconcile", "single", "due"}
  BY <1>1, <1>2, <1>3, <1>4, JobFields DEF JobShape
<1>6. job'["route"].kind \in {"idle", "start", "approve", "select", "retry"}
  BY <1>1, <1>2, <1>3, <1>4, JobFields DEF JobShape
<1>7. ASSUME NEW d \in Flows
      PROVE  /\ job'[d].kind = "idle" => job'[d] = Idle
             /\ job'[d].at # 0 => plan.role[job'[d].at] = "builder" /\ job'[d].at \notin job'[d].todo
  BY <1>2, <1>3, <1>4, JobFields
<1>8. recovering' => job'["route"] = Idle
  <2>1. CASE Restart
    BY <2>1 DEF Restart
  <2>2. CASE ~ Restart /\ recovering'
    <3>1. recovering
      <4>1. CASE TaskCompleted
        BY <2>2, <4>1, CompletionShapes
      <4>2. CASE AgentStep \/ DispatchStep("queue") \/ DispatchStep("route") \/ Reconcile \/ DropEvent \/ GateFails
                 \/ TaskFailedRetries \/ TaskFailedExhausted
        BY <2>2, <4>2, ZenonT(40)
           DEF AgentStep, ClaimAttempt, StartAgent, LaunchFails, Report, ReportAgain, ExpireAttempt,
               DispatchStep, Dispatch, SkipTask, PreflightPasses, PreflightFails, RetryRefused, EndBatch, Reconcile,
               DropEvent, GateFails, TaskFailedRetries, TaskFailedExhausted, memory
      <4>3. CASE UserStep \/ CommitCancel \/ RecoveryStep \/ UNCHANGED vars
        BY <2>2, <4>3
           DEF UserStep, DecidePlan, DecideApply, SelectCandidate, RetryMission, BeginCancel, RouteOnly,
               CommitCancel, RecoveryStep, FinishRecovery, RecoverExpired, vars, memory
      <4> QED
        BY <2>2, <4>1, <4>2, <4>3 DEF Next, QueueStep
    <3>2. job["route"] = Idle
      BY <3>1 DEF JobShape
    <3> QED
      BY <1>1, <1>2, <1>3, <1>4, <3>1, <3>2
  <2> QED
    BY <2>1, <2>2
<1> QED
  BY <1>1, <1>5, <1>6, <1>7, <1>8 DEF JobShape, Flows

(* What a flow is given has its dependencies behind it, or an agent. *)
LEMMA GivenWorkIsMet ==
  ASSUME TypeOK, WorkDone, WorkDone', DependenciesMet, [Next]_vars, NEW d \in Flows, GetsJob(d),
         NEW t \in job'[d].todo
  PROVE  t \in Tasks /\ \A u \in plan.deps[t] : Finished(u)'
<1>1. /\ Tasks' = Tasks /\ job' \in [Flows -> Jobs]
      /\ \A v \in Tasks : plan.deps[v] \subseteq Tasks
      /\ \A u \in Tasks : Finished(u) => Finished(u)'
  BY StepsOnAttempts, NextTypeOK, PlanTyped, FinishedStays DEF TypeOK, Flows, Jobs
<1>2. t \in Tasks
  <2>1. job'[d] \in Jobs
    BY <1>1
  <2> QED
    BY <2>1 DEF Jobs
<1>3. ASSUME \A u \in plan.deps[t] : task[u] \in TerminalTask
      PROVE  \A u \in plan.deps[t] : Finished(u)'
  <2>1. \A u \in plan.deps[t] : Finished(u)
    BY <1>1, <1>2, <1>3 DEF WorkDone
  <2> QED
    BY <1>1, <1>2, <2>1
<1>4. ASSUME t \in ReadyIn(task')
      PROVE  \A u \in plan.deps[t] : Finished(u)'
  <2>1. \A u \in plan.deps[t] : u \in Tasks /\ task'[u] \in TerminalTask
    BY <1>1, <1>2, <1>4 DEF ReadyIn
  <2>2. \A u \in Tasks : task'[u] \in TerminalTask => Finished(u)'
    BY <1>1 DEF WorkDone, TerminalTask
  <2> QED
    BY <2>1, <2>2
<1>5. \A S \in SUBSET Tasks : \A now : AllocatedIn(now, S) \subseteq S
  BY AllocatedTyped
<1>6. ReadyIn(task') \in SUBSET Tasks /\ Ready \in SUBSET Tasks /\ Roots \in SUBSET Tasks
  BY DEF ReadyIn, Ready, Roots
<1>7. CASE job'[d] = Job("due", {})
  BY <1>7, JobFields
<1>8. CASE job'[d] = Job("reconcile", Allocated(Ready))
  <2>1. t \in Ready
    BY <1>5, <1>6, <1>8, JobFields DEF Allocated
  <2> QED
    BY <1>3, <2>1 DEF Ready, ReadyIn
<1>9. CASE \/ job'[d] = Job("legacy", AllocatedIn(task', ReadyIn(task')))
           \/ job'[d] = Job("select", AllocatedIn(task', ReadyIn(task')))
  <2>1. t \in ReadyIn(task')
    BY <1>5, <1>6, <1>9, JobFields
  <2> QED
    BY <1>2, <1>4, <2>1
<1>10. CASE TaskFailedRetries /\ job'[d] = Job("single", {Head(inbox).t})
  <2>1. t = Head(inbox).t
    BY <1>10, JobFields
  <2>2. Head(inbox).k \in Agents(t)
    BY <1>10, <2>1, HeadTyped DEF TaskFailedRetries, HasEvent
  <2>3. attempts[t] # <<>>
    BY <2>2 DEF Agents
  <2>4. \A u \in plan.deps[t] : Finished(u)
    BY <1>2, <2>3 DEF DependenciesMet
  <2> QED
    BY <1>1, <1>2, <2>4
<1>11. CASE job'[d] = Job("approve", Allocated(Roots))
  <2>1. t \in Roots
    BY <1>5, <1>6, <1>11, JobFields DEF Allocated
  <2> QED
    BY <2>1 DEF Roots
<1>12. ASSUME NEW chosen, job'[d] = Job("retry", {v \in chosen : \A u \in plan.deps[v] : task[u] \in TerminalTask})
       PROVE  \A u \in plan.deps[t] : Finished(u)'
  <2>1. t \in {v \in chosen : \A u \in plan.deps[v] : task[u] \in TerminalTask}
    BY <1>12, JobFields
  <2> QED
    BY <1>3, <2>1
<1>13. \A u \in plan.deps[t] : Finished(u)'
  BY <1>7, <1>8, <1>9, <1>10, <1>11, <1>12, Zenon DEF GetsJob
<1> QED
  BY <1>2, <1>13

(* Nothing is dispatched before its dependencies. *)
LEMMA NextDependenciesMet ==
  ASSUME TypeOK, EventsTrue, WorkDone, DependenciesMet, [Next]_vars
  PROVE  DependenciesMet'
<1>1. /\ Tasks' = Tasks /\ plan' = plan /\ Growth /\ WorkDone'
      /\ job \in [Flows -> Jobs] /\ job' \in [Flows -> Jobs] /\ 0 \notin Tasks
      /\ attempts \in [Tasks -> Seq(AttemptStatus)]
  BY StepsOnAttempts, NextTypeOK, NextWorkDone, PlanTyped DEF TypeOK, Flows, Jobs
<1>2. ASSUME NEW t \in Tasks, \A u \in plan.deps[t] : Finished(u)
      PROVE  \A u \in plan.deps[t] : Finished(u)'
  <2>1. plan.deps[t] \subseteq Tasks
    BY PlanTyped DEF TypeOK
  <2> QED
    BY <1>2, <2>1, FinishedStays
<1>3. \A t \in Tasks : t \in Pend("queue") \/ t \in Pend("route") <=> \E d \in Flows : t \in Pend(d)
  BY DEF Flows
<1>4. ASSUME NEW t \in Tasks, attempts'[t] # <<>>
      PROVE  \A u \in plan.deps[t] : Finished(u)'
  <2>1. CASE attempts[t] # <<>>
    BY <1>2, <2>1 DEF DependenciesMet
  <2>2. CASE attempts[t] = <<>>
    <3>1. Len(attempts[t]) = 0 /\ Len(attempts'[t]) # 0
      BY <1>1, <1>4, <2>2 DEF Growth
    <3>2. MayGrow(t)
      BY <1>1, <3>1 DEF Growth
    <3>3. \E d \in Flows : t \in Pend(d)
      BY <1>1, <3>2 DEF MayGrow, Pend
    <3> QED
      BY <1>2, <1>3, <3>3 DEF DependenciesMet
  <2> QED
    BY <2>1, <2>2
<1>5. ASSUME NEW t \in Tasks, NEW d \in Flows, t \in Pend(d)'
      PROVE  \A u \in plan.deps[t] : Finished(u)'
  <2>1. t \in job'[d].todo \/ (t = job'[d].at /\ t # 0)
    BY <1>5 DEF Pend
  <2>2. CASE GoesOn(d)
    <3>1. t \in Pend(d)
      BY <2>1, <2>2 DEF GoesOn, Pend
    <3> QED
      BY <1>2, <1>3, <1>5, <3>1 DEF DependenciesMet
  <2>3. CASE job'[d] = Idle
    BY <2>1, <2>3, JobFields
  <2>4. CASE GetsJob(d)
    <3>1. job'[d].at = 0
      <4>1. \E kind, S : job'[d] = Job(kind, S)
        BY <2>4 DEF GetsJob
      <4> QED
        BY <4>1, JobFields
    <3>2. t \in job'[d].todo
      BY <2>1, <3>1
    <3> QED
      BY <1>1, <2>4, <3>2, GivenWorkIsMet
  <2> QED
    BY <2>2, <2>3, <2>4, StepsOnJobs
<1>6. ASSUME NEW t \in Tasks, attempts'[t] # <<>> \/ t \in Pend("queue")' \/ t \in Pend("route")'
      PROVE  \A u \in plan.deps[t] : Finished(u)'
  BY <1>4, <1>5, <1>6 DEF Flows
<1> QED
  BY <1>1, <1>6 DEF DependenciesMet

(* The route keeps to its shape.                                           *)
LEMMA NextRouteShape ==
  ASSUME TypeOK, JobShape, PlanUntouched, RouteShape, UntriedGate, [Next]_vars
  PROVE  RouteShape'
<1>1. /\ Tasks' = Tasks /\ plan' = plan /\ Growth
      /\ job \in [Flows -> Jobs] /\ job' \in [Flows -> Jobs] /\ "route" \in Flows
      /\ attempts \in [Tasks -> Seq(AttemptStatus)]
  BY StepsOnAttempts, NextTypeOK DEF TypeOK, Flows, Jobs
<1>2. job'["route"].todo \subseteq Tasks
  <2>1. job'["route"] \in Jobs
    BY <1>1
  <2> QED
    BY <2>1 DEF Jobs
<1>3. ASSUME NEW t \in Tasks, attempts[t] # <<>>
      PROVE  attempts'[t] # <<>>
  <2>1. Len(attempts[t]) > 0
    BY <1>1, <1>3
  <2>2. Len(attempts'[t]) > 0
    BY <1>1, <2>1 DEF Growth
  <2> QED
    BY <1>1, <2>2 DEF Growth
<1>4. ASSUME NEW t \in Tasks, NoNewWork, ~ Finished(t)
      PROVE  ~ Finished(t)'
  BY <1>4 DEF Finished, NoNewWork, Agents
<1>5. CASE GoesOn("route")
  <2>1. /\ job'["route"].kind = job["route"].kind /\ job'["route"].todo \subseteq job["route"].todo
        /\ \/ job'["route"].at \in {job["route"].at, 0}
           \/ job'["route"].at \in job["route"].todo /\ plan.role[job'["route"].at] = "builder"
    BY <1>5 DEF GoesOn
  <2>2. ASSUME job'["route"].kind \in {"start", "approve"}, NEW t \in Tasks
        PROVE  ~ Finished(t)'
    <3>1. ~ Finished(t) /\ job["route"] # Idle
      BY <2>1, <2>2, JobFields DEF RouteShape
    <3>2. NoNewWork
      BY <1>1, <3>1 DEF Growth
    <3> QED
      BY <1>4, <3>1, <3>2
  <2>3. ASSUME job'["route"].kind = "select"
        PROVE  job'["route"].at = 0 /\ \A t \in job'["route"].todo : plan.role[t] # "builder"
    BY <2>1, <2>3 DEF RouteShape
  <2>4. ASSUME job'["route"].kind = "retry", NEW t \in job'["route"].todo, IsGate(t)
        PROVE  attempts'[t] # <<>>
    BY <1>2, <1>3, <2>1, <2>4 DEF RouteShape
  <2>5. \A t \in Tasks : IsGate(t)' <=> IsGate(t)
    BY <1>1 DEF IsGate
  <2> QED
    BY <1>1, <1>2, <2>2, <2>3, <2>4, <2>5 DEF RouteShape
<1>6. CASE job'["route"] = Idle
  BY <1>6, JobFields DEF RouteShape
<1>7. CASE GetsJob("route")
  <2>0. job["route"].kind # "legacy"
    BY DEF JobShape
  <2>1. \/ DecidePlan(TRUE) /\ job'["route"] = Job("approve", Allocated(Roots))
        \/ \E c \in Tasks : SelectCandidate(c) /\ job'["route"] = Job("select", AllocatedIn(task', ReadyIn(task')))
        \/ \E chosen \in SUBSET Tasks :
             /\ RetryMission(chosen)
             /\ job'["route"] = Job("retry", {t \in chosen : \A u \in plan.deps[t] : task[u] \in TerminalTask})
    BY <1>7, <2>0, Zenon DEF GetsJob
  <2>2. CASE DecidePlan(TRUE) /\ job'["route"] = Job("approve", Allocated(Roots))
    <3>1. "plan" \in asked /\ attempts' = attempts
      BY <2>2 DEF DecidePlan
    <3>2. \A t \in Tasks : attempts'[t] = <<>>
      BY <3>1 DEF PlanUntouched
    <3>3. \A t \in Tasks : ~ Finished(t)'
      BY <3>2 DEF Finished, Agents
    <3> QED
      BY <1>1, <2>2, <3>3, JobFields DEF RouteShape
  <2>3. ASSUME NEW c \in Tasks, SelectCandidate(c), job'["route"] = Job("select", AllocatedIn(task', ReadyIn(task')))
        PROVE  RouteShape'
    <3>1. ReadyIn(task') \in SUBSET Tasks
      BY DEF ReadyIn
    <3>2. AllocatedIn(task', ReadyIn(task')) \subseteq ReadyIn(task')
      BY <3>1, AllocatedTyped
    <3>3. \A t \in Tasks : plan.role[t] = "builder" => task'[t] \in {"done", "superseded"}
      BY <2>3 DEF SelectCandidate, Builders
    <3>4. \A t \in ReadyIn(task') : plan.role[t] # "builder"
      BY <3>3 DEF ReadyIn
    <3> QED
      BY <1>1, <2>3, <3>2, <3>4, JobFields DEF RouteShape
  <2>4. ASSUME NEW chosen \in SUBSET Tasks, RetryMission(chosen),
               job'["route"] = Job("retry", {t \in chosen : \A u \in plan.deps[t] : task[u] \in TerminalTask})
        PROVE  RouteShape'
    <3>1. chosen \subseteq Retryable /\ attempts' = attempts
      BY <2>4 DEF RetryMission
    <3>2. \A t \in chosen : IsGate(t) => attempts'[t] # <<>>
      BY <3>1 DEF Retryable, UntriedGate
    <3>3. \A t \in Tasks : IsGate(t)' <=> IsGate(t)
      BY <1>1 DEF IsGate
    <3> QED
      BY <2>4, <3>2, <3>3, JobFields DEF RouteShape
  <2> QED
    BY <2>1, <2>2, <2>3, <2>4
<1> QED
  BY <1>1, <1>5, <1>6, <1>7, StepsOnJobs

(* Several Builders are at least two. *)
LEMMA SeveralBuilders ==
  ASSUME Cardinality(Builders) > 1
  PROVE  \A c : \E b \in Builders : b # c
<1> SUFFICES ASSUME NEW c, \A b \in Builders : b = c
             PROVE  FALSE
  OBVIOUS
<1>1. CASE Builders = {}
  BY <1>1, FS_EmptySet
<1>2. CASE Builders = {c}
  <2>1. Cardinality({c}) = 1
    BY FS_Singleton
  <2> QED
    BY <1>2, <2>1
<1> QED
  BY <1>1, <1>2

(* A new QA comes after the selection. *)
LEMMA NextSelectionMade ==
  ASSUME TypeOK, EventsTrue, JobShape, PlanUntouched, RouteShape, UntriedGate, SelectionMade, [Next]_vars
  PROVE  SelectionMade'
<1>1. /\ Tasks' = Tasks /\ plan' = plan /\ Growth /\ RouteShape'
      /\ job \in [Flows -> Jobs] /\ job' \in [Flows -> Jobs]
      /\ attempts \in [Tasks -> Seq(AttemptStatus)] /\ task \in [Tasks -> TaskStatus]
  BY StepsOnAttempts, NextTypeOK, NextRouteShape DEF TypeOK, Flows, Jobs
<1>2. Builders' = Builders /\ Builders \subseteq Tasks
  BY <1>1 DEF Builders
<1> SUFFICES ASSUME plan.kind = "candidate", Cardinality(Builders) > 1, NEW d \in Flows, NEW t \in job'[d].todo,
                    plan.role[t] = "qa", attempts'[t] = <<>>
             PROVE  \E c \in Builders : task'[c] # "done"
  BY <1>1, <1>2 DEF SelectionMade
<1>3. t \in Tasks /\ IsGate(t)
  <2>1. job'[d] \in Jobs
    BY <1>1
  <2> QED
    BY <2>1 DEF Jobs, IsGate
<1>4. attempts[t] = <<>>
  <2>1. Len(attempts'[t]) \in {Len(attempts[t]), Len(attempts[t]) + 1} /\ Len(attempts'[t]) = 0 /\ Len(attempts[t]) \in Nat
    BY <1>1, <1>3 DEF Growth
  <2>2. Len(attempts[t]) = 0
    BY <2>1
  <2> QED
    BY <1>1, <1>3, <2>2
<1>5. CASE GoesOn(d)
  <2>1. t \in job[d].todo
    BY <1>5 DEF GoesOn
  <2>2. PICK c \in Builders : task[c] # "done"
    BY <1>4, <2>1 DEF SelectionMade
  <2>3. ASSUME task'[c] = "done"
        PROVE  FALSE
    <3>1. HasEvent /\ Accepted(Head(inbox)) /\ Head(inbox).type = "completed"
      BY <1>2, <2>2, <2>3, WhoIsDone
    <3>2. \E u \in Tasks : Finished(u)
      BY <3>1, CompletionIsReal DEF Finished
    <3>3. d = "route" /\ job["route"] # Idle
      BY <2>1, <3>1, JobFields DEF HasEvent, Flows
    <3>4. job["route"].at # 0
      BY <3>1, <3>3 DEF HasEvent, Yielded
    <3>5. job["route"].kind \in {"start", "approve", "select", "retry"}
      BY <3>3 DEF JobShape, Flows
    <3> QED
      BY <1>3, <1>4, <2>1, <3>2, <3>3, <3>4, <3>5 DEF RouteShape
  <2> QED
    BY <2>2, <2>3
<1>6. CASE job'[d] = Idle
  BY <1>6, JobFields
<1>7. CASE GetsJob(d)
  <2>1. \A S \in SUBSET Tasks : \A now : AllocatedIn(now, S) \subseteq S
    BY AllocatedTyped
  <2>2. ReadyIn(task') \in SUBSET Tasks /\ Ready \in SUBSET Tasks
    BY DEF ReadyIn, Ready
  <2>3. CASE job'[d] = Job("due", {})
    BY <2>3, JobFields
  <2>4. CASE Reconcile /\ ~ AskSelection(Ready) /\ job'[d] = Job("reconcile", Allocated(Ready))
    <3>1. t \in Ready
      BY <2>1, <2>2, <2>4, JobFields DEF Allocated
    <3>2. \E b \in Builders : task[b] = "superseded"
      BY <2>4, <3>1 DEF AskSelection, SelectionPending
    <3>3. task' = task
      BY <2>4 DEF Reconcile
    <3> QED
      BY <3>2, <3>3
  <2>5. CASE /\ TaskCompleted /\ ~ AskSelection(ReadyIn(task'))
             /\ job'[d] = Job("legacy", AllocatedIn(task', ReadyIn(task')))
    <3>1. t \in ReadyIn(task')
      BY <2>1, <2>2, <2>5, JobFields
    <3>2. PICK b \in Builders : task[b] = "superseded"
      BY <2>5, <3>1 DEF AskSelection, SelectionPending
    <3>3. ASSUME task'[b] = "done"
          PROVE  FALSE
      <4>1. HasEvent /\ Accepted(Head(inbox)) /\ Head(inbox).type = "completed" /\ b = Head(inbox).t
        BY <1>2, <3>2, <3>3, WhoIsDone
      <4> QED
        BY <3>2, <4>1, CompletionIsReal
    <3> QED
      BY <3>2, <3>3
  <2>6. CASE TaskFailedRetries /\ job'[d] = Job("single", {Head(inbox).t})
    <3>1. t = Head(inbox).t
      BY <2>6, JobFields
    <3>2. Head(inbox).k \in Agents(t)
      BY <2>6, <3>1, HeadTyped DEF TaskFailedRetries, HasEvent
    <3> QED
      BY <1>4, <3>2 DEF Agents
  <2>7. CASE DecidePlan(TRUE)
    <3>1. "plan" \in asked /\ task' = task
      BY <2>7 DEF DecidePlan
    <3>2. \A c \in Tasks : task'[c] # "done"
      BY <3>1 DEF PlanUntouched
    <3>3. \E c \in Builders : c # 0
      BY SeveralBuilders
    <3> QED
      BY <1>2, <3>2, <3>3
  <2>8. ASSUME NEW c \in Tasks, SelectCandidate(c)
        PROVE  \E b \in Builders : task'[b] # "done"
    <3>1. PICK b \in Builders : b # c
      BY SeveralBuilders
    <3>2. task'[b] = "superseded"
      BY <1>2, <2>8, <3>1 DEF SelectCandidate, Builders
    <3> QED
      BY <3>1, <3>2
  <2>9. ASSUME d = "route", NEW chosen \in SUBSET Tasks, RetryMission(chosen),
               job'[d] = Job("retry", {v \in chosen : \A u \in plan.deps[v] : task[u] \in TerminalTask})
        PROVE  FALSE
    <3>1. job'["route"].kind = "retry" /\ t \in job'["route"].todo
      BY <2>9, JobFields
    <3>2. IsGate(t)'
      BY <1>1, <1>3 DEF IsGate
    <3> QED
      BY <1>1, <3>1, <3>2 DEF RouteShape
  <2> QED
    BY <1>7, <2>3, <2>4, <2>5, <2>6, <2>7, <2>8, <2>9, Zenon DEF GetsJob
<1> QED
  BY <1>5, <1>6, <1>7, StepsOnJobs

(* The invariant holds at the start.                                       *)
LEMMA InitPlanInv == Init => PlanInv
<1> SUFFICES ASSUME Init
             PROVE  PlanInv
  OBVIOUS
<1>1. TypeOK /\ EventsTrue
  BY InitTypeOK DEF Init, EventsTrue
<1>2. /\ \A t \in Tasks : task[t] = "planned" /\ attempts[t] = <<>>
      /\ job["queue"] = Idle /\ ~ recovering
  BY DEF Init
<1>3. /\ \/ mission = "waiting" /\ asked = {"plan"} /\ job["route"] = Idle
         \/ asked = {} /\ job["route"] = Job("start", Allocated(Roots))
  BY DEF Init
<1>4. \A t \in Tasks : ~ Finished(t)
  BY <1>2 DEF Finished, Agents
<1>5. Allocated(Roots) \subseteq Roots
  <2>1. Roots \in SUBSET Tasks
    BY DEF Roots
  <2> QED
    BY <1>1, <2>1, AllocatedTyped DEF Allocated
<1>6. /\ job["queue"].kind = "idle" /\ job["queue"].todo = {} /\ job["queue"].at = 0
      /\ job["route"].at = 0 /\ job["route"].todo \subseteq Roots
      /\ job["route"].kind = "start" \/ job["route"] = Idle
  BY <1>2, <1>3, <1>5, JobFields
<1>7. JobShape
  BY <1>2, <1>6, JobFields DEF JobShape, Flows
<1>8. WorkDone /\ GatesPassed
  BY <1>2 DEF WorkDone, GatesPassed, TerminalTask
<1>9. DependenciesMet
  <2>1. \A t \in Roots : plan.deps[t] = {}
    BY DEF Roots
  <2> QED
    BY <1>2, <1>6, <2>1 DEF DependenciesMet, Pend
<1>10. PlanUntouched
  BY <1>2, <1>3 DEF PlanUntouched
<1>11. RouteShape
  BY <1>4, <1>6, JobFields DEF RouteShape
<1>12. UntriedGate
  BY <1>2 DEF UntriedGate
<1>13. SelectionMade
  <2> SUFFICES ASSUME Cardinality(Builders) > 1
               PROVE  \E c \in Builders : task[c] # "done"
    BY DEF SelectionMade
  <2>1. PICK c \in Builders : c # 0
    BY SeveralBuilders
  <2> QED
    BY <1>2, <2>1 DEF Builders
<1> QED
  BY <1>1, <1>7, <1>8, <1>9, <1>10, <1>11, <1>12, <1>13 DEF PlanInv

(* Every step keeps it. *)
LEMMA NextPlanInv ==
  ASSUME PlanInv, [Next]_vars
  PROVE  PlanInv'
<1>1. /\ TypeOK /\ EventsTrue /\ JobShape /\ WorkDone /\ DependenciesMet /\ GatesPassed
      /\ PlanUntouched /\ RouteShape /\ UntriedGate /\ SelectionMade
  BY DEF PlanInv
<1>2. TypeOK' /\ EventsTrue' /\ JobShape' /\ WorkDone' /\ DependenciesMet' /\ GatesPassed' /\ RouteShape' /\ SelectionMade'
  BY <1>1, NextTypeOK, NextEventsTrue, NextJobShape, NextWorkDone, NextDependenciesMet, NextGatesPassed,
     NextRouteShape,
     NextSelectionMade
<1>3. Tasks' = Tasks /\ plan' = plan
  BY <1>1, StepsOnAttempts
<1>4. PlanUntouched'
  BY <1>1, <1>3, NextPlanUntouched DEF PlanUntouched, Idle
<1>5. UntriedGate'
  BY <1>1, <1>3, UntriedStays DEF UntriedGate, IsGate
<1> QED
  BY <1>2, <1>4, <1>5 DEF PlanInv

(* The order of the plan is kept by an invariant.                          *)
LEMMA PlanInvariant == Spec => []PlanInv
<1>1. PlanInv /\ [Next]_vars => PlanInv'
  BY NextPlanInv
<1> QED
  BY <1>1, InitPlanInv, PTL DEF Spec

(* Work proceeds in the order of the plan: dependencies, the selection and *)
(* the gates come before what waits for them.                              *)
THEOREM PlanIsFollowed == Spec => PlanOrder
<1>1. PlanInv /\ [Next]_vars =>
        [\A t \in Tasks : Len(attempts'[t]) > Len(attempts[t]) =>
           \A d \in plan.deps[t] : task[d] = "superseded" \/ \E k \in Agents(d) : attempts[d][k] = "completed"]_vars
  <2> SUFFICES ASSUME PlanInv, [Next]_vars, NEW t \in Tasks, Len(attempts'[t]) > Len(attempts[t]), NEW d \in plan.deps[t]
               PROVE  \E k \in Agents(d) : attempts[d][k] = "completed"
    OBVIOUS
  <2>1. TypeOK /\ DependenciesMet /\ Growth /\ 0 \notin Tasks
    BY StepsOnAttempts, PlanTyped DEF PlanInv, TypeOK
  <2>2. MayGrow(t)
    <3>1. Len(attempts[t]) \in Nat
      BY <2>1 DEF TypeOK
    <3> QED
      BY <2>1, <3>1 DEF Growth
  <2>3. t \in Pend("queue") \/ t \in Pend("route")
    BY <2>1, <2>2 DEF MayGrow, Pend, Flows
  <2> QED
    BY <2>1, <2>3 DEF DependenciesMet, Finished
<1>2. PlanInv /\ [Next]_vars =>
        [\A t \in Tasks :
           plan.kind = "candidate" /\ Cardinality(Builders) > 1 /\ plan.role[t] = "qa"
           /\ attempts[t] = <<>> /\ attempts'[t] # <<>> => \E c \in Builders : task[c] # "done"]_vars
  <2> SUFFICES ASSUME PlanInv, [Next]_vars, NEW t \in Tasks, plan.kind = "candidate", Cardinality(Builders) > 1,
                      plan.role[t] = "qa", attempts[t] = <<>>, attempts'[t] # <<>>
               PROVE  \E c \in Builders : task[c] # "done"
    OBVIOUS
  <2>1. JobShape /\ SelectionMade /\ Growth /\ 0 \notin Tasks
    BY StepsOnAttempts, PlanTyped DEF PlanInv, TypeOK
  <2>2. MayGrow(t)
    <3>1. Len(attempts[t]) = 0 /\ Len(attempts'[t]) # 0
      BY <2>1 DEF Growth
    <3> QED
      BY <2>1, <3>1 DEF Growth
  <2>3. \E d \in Flows : t \in job[d].todo
    BY <2>1, <2>2 DEF MayGrow, JobShape
  <2> QED
    BY <2>1, <2>3 DEF SelectionMade
<1>3. PlanInv /\ PlanInv' /\ [Next]_vars =>
        [mission # "applying" /\ mission' = "applying" =>
           \A t \in Tasks : task'[t] = "done" /\ (IsGate(t) => t \in passed')]_vars
  <2> SUFFICES ASSUME PlanInv, PlanInv', [Next]_vars, mission # "applying", mission' = "applying", NEW t \in Tasks
               PROVE  task'[t] = "done" /\ (IsGate(t) => t \in passed')
    OBVIOUS
  <2>1. task'[t] = "done" /\ Tasks' = Tasks /\ plan' = plan
    BY WhoApplies, StepsOnAttempts DEF PlanInv
  <2>2. GatesPassed'
    BY DEF PlanInv
  <2> QED
    BY <2>1, <2>2 DEF GatesPassed, IsGate
<1> QED
  BY <1>1, <1>2, <1>3, PlanInvariant, PTL
     DEF Spec, PlanOrder, DependenciesFirst, SelectedBeforeQA, GatesBeforeApply

-----------------------------------------------------------------------------
(* Capacity and budget, until the user retries a mission.                  *)

(* What is running or will run without another look at the capacity.       *)
Held == Running \cup Pend("queue") \cup Pend("route")

(* Only one flow at a time plans ahead: the queue's batches and the        *)
(* route's do not meet, except that a single retry may join the route.     *)
FlowKinds ==
  /\ job["route"].kind # "retry"
  /\ job["queue"].kind \in {"legacy", "reconcile", "due"} => job["route"] = Idle
  /\ job["route"].kind = "select" => job["queue"] = Idle

(* No task is planned twice, and what is planned is not at work.           *)
PendApart ==
  /\ Pend("queue") \cap Pend("route") = {}
  /\ \A t \in Pend("queue") \cup Pend("route") : task[t] \notin {"running", "done", "superseded"}

(* The limits hold for all that is running or planned.                     *)
HeldFits == /\ Cardinality(Held) <= MaxParallel
            /\ \A r \in DOMAIN RoleLimit : Cardinality(WithRole(Held, r)) <= RoleLimit[r]

(* An agent that a task may still get without a failure, and the failures  *)
(* that count in its budget.                                               *)
Owed(t) == IF task[t] \in {"planned", "ready"} \/ t \in Pend("queue") \cup Pend("route") THEN 1 ELSE 0
Failures(t) == IF retries[t] < MaxTaskRetries THEN retries[t] ELSE MaxTaskRetries

(* A life of the gateway gives a task one agent and one for each failure;  *)
(* each earlier one has given at most a full budget.                       *)
BudgetKept == \A t \in Tasks :
  Len(attempts[t]) + Owed(t) <= (MaxTaskRetries + 1) * spent["crash"] + 1 + Failures(t)

CapacityInv == spent["userRetry"] = 0 => FlowKinds /\ PendApart /\ HeldFits /\ BudgetKept

(* What a step that gives no agent too many does to the planned work: all  *)
(* that is held was held, or is what was running and a new batch.          *)
HeldNext ==
  \/ Held' \subseteq Held
  \/ /\ Running' \subseteq Running
     /\ \E C \in SUBSET {t \in Tasks : task'[t] \in {"planned", "ready"}} :
          Held' \subseteq Running' \cup AllocatedIn(task', C)
Frugal == \A t \in Tasks : Len(attempts'[t]) + Owed(t)' <= Len(attempts[t]) + Owed(t)
Moves == PendApart' /\ HeldNext /\ Frugal

(* A subset is no larger. *)
LEMMA SmallerSet ==
  ASSUME NEW S, NEW T, IsFiniteSet(T), S \subseteq T, NEW n \in Nat, Cardinality(T) <= n
  PROVE  Cardinality(S) <= n
<1>1. IsFiniteSet(S) /\ Cardinality(S) <= Cardinality(T)
  BY FS_Subset
<1>2. Cardinality(S) \in Nat /\ Cardinality(T) \in Nat
  BY <1>1, FS_CardinalityType
<1> QED
  BY <1>1, <1>2

(* What a flow plans are tasks.                                            *)
LEMMA PendTyped ==
  ASSUME TypeOK, NEW d \in Flows
  PROVE  Pend(d) \in SUBSET Tasks
<1>1. job[d] \in Jobs
  BY DEF TypeOK, Flows
<1> QED
  BY <1>1 DEF Pend, Jobs

(* The limits go on to hold. *)
LEMMA NextHeldFits ==
  ASSUME TypeOK, TypeOK', Tasks' = Tasks, plan' = plan, HeldFits, HeldNext
  PROVE  HeldFits'
<1>1. /\ Len(plan.role) \in Nat /\ IsFiniteSet(Tasks)
      /\ MaxParallel \in Nat /\ \A r \in DOMAIN RoleLimit : RoleLimit[r] \in Nat
  BY PlanTyped, BoundsAssumption DEF TypeOK
<1>2. Held \in SUBSET Tasks /\ Running \in SUBSET Tasks /\ Running \subseteq Held
  BY PendTyped DEF Held, Running, Flows
<1>3. IsFiniteSet(Held) /\ \A r : IsFiniteSet(WithRole(Held, r))
  <2>1. \A r : WithRole(Held, r) \subseteq Tasks
    BY <1>2 DEF WithRole
  <2> QED
    BY <1>1, <1>2, <2>1, FS_Subset
<1>4. \A r : WithRole(Held', r) = WithRole(Held, r)'
  BY DEF WithRole
<1>5. CASE Held' \subseteq Held
  <2>1. Cardinality(Held') <= MaxParallel
    BY <1>1, <1>3, <1>5, SmallerSet DEF HeldFits
  <2>2. ASSUME NEW r \in DOMAIN RoleLimit
        PROVE  Cardinality(WithRole(Held', r)) <= RoleLimit[r]
    <3>1. WithRole(Held', r) \subseteq WithRole(Held, r)
      BY <1>5 DEF WithRole
    <3>2. Cardinality(WithRole(Held, r)) <= RoleLimit[r]
      BY DEF HeldFits
    <3> QED
      BY <1>1, <1>3, <3>1, <3>2, SmallerSet
  <2>3. \A r : WithRole(Held, r)' = {t \in Held' : plan.role[t] = r}
    BY DEF WithRole
  <2> QED
    BY <2>1, <2>2, <2>3 DEF HeldFits, WithRole
<1>6. CASE /\ Running' \subseteq Running
           /\ \E C \in SUBSET {t \in Tasks : task'[t] \in {"planned", "ready"}} :
                Held' \subseteq Running' \cup AllocatedIn(task', C)
  <2>1. PICK C \in SUBSET {t \in Tasks : task'[t] \in {"planned", "ready"}} :
                Held' \subseteq Running' \cup AllocatedIn(task', C)
    BY <1>6
  <2> DEFINE batch == AllocatedIn(task', C)
  <2>2. C \in SUBSET Tasks /\ Running' \in SUBSET Tasks
    BY <1>2, <1>6
  <2>3. {t \in Tasks : task'[t] = "running"} \ C = Running'
    BY DEF Running
  <2>4. batch \in SUBSET C /\ Greedy(Running', C, batch)
    BY <1>1, <2>2, <2>3, AllocatedIsGreedy
  <2> HIDE DEF batch
  <2>5. ASSUME NEW chosen \in SUBSET Tasks, NEW limit \in Nat, Cardinality(Held \cap chosen) <= limit,
               \A t \in C \cap chosen : \A taken \in SUBSET Tasks :
                  Fits(t, taken) => Cardinality(taken \cap chosen) < limit
        PROVE  Cardinality(Held' \cap chosen) <= limit
    <3>1. IsFiniteSet(Held \cap chosen) /\ Running' \cap chosen \subseteq Held \cap chosen
      BY <1>1, <1>2, <1>6, FS_Subset
    <3>2. Cardinality(Running' \cap chosen) <= limit
      BY <2>5, <3>1, SmallerSet
    <3>3. Cardinality((Running' \cup batch) \cap chosen) <= limit
      BY <1>1, <2>2, <2>4, <2>5, <3>2, GreedyFits
    <3>4. IsFiniteSet((Running' \cup batch) \cap chosen)
      BY <1>1, FS_Subset
    <3>5. Held' \cap chosen \subseteq (Running' \cup batch) \cap chosen
      BY <2>1 DEF batch
    <3> QED
      BY <3>3, <3>4, <3>5, SmallerSet
  <2>6. Held' \in SUBSET Tasks
    BY <2>1, <2>2, <2>4 DEF batch
  <2>7. Cardinality(Held') <= MaxParallel
    <3>1. Held \cap Tasks = Held /\ Held' \cap Tasks = Held'
      BY <1>2, <2>6
    <3>2. \A t \in C \cap Tasks : \A taken \in SUBSET Tasks : Fits(t, taken) => Cardinality(taken \cap Tasks) < MaxParallel
      <4>1. \A taken \in SUBSET Tasks : taken \cap Tasks = taken
        OBVIOUS
      <4> QED
        BY <4>1 DEF Fits
    <3>3. Cardinality(Held \cap Tasks) <= MaxParallel
      BY <3>1 DEF HeldFits
    <3>4. Cardinality(Held' \cap Tasks) <= MaxParallel
      BY <1>1, <2>5, <3>2, <3>3
    <3> QED
      BY <3>1, <3>4
  <2>8. ASSUME NEW r \in DOMAIN RoleLimit
        PROVE  Cardinality(WithRole(Held', r)) <= RoleLimit[r]
    <3> DEFINE chosen == {t \in Tasks : plan.role[t] = r}
    <3>1. \A S \in SUBSET Tasks : S \cap chosen = WithRole(S, r)
      BY DEF WithRole
    <3>2. \A t \in C \cap chosen : \A taken \in SUBSET Tasks : Fits(t, taken) => Cardinality(taken \cap chosen) < RoleLimit[r]
      BY <3>1 DEF Fits
    <3>3. Cardinality(Held \cap chosen) <= RoleLimit[r] /\ chosen \in SUBSET Tasks
      BY <1>2, <3>1 DEF HeldFits
    <3> HIDE DEF chosen
    <3>4. Cardinality(Held' \cap chosen) <= RoleLimit[r]
      BY <1>1, <2>5, <3>2, <3>3
    <3> QED
      BY <2>6, <3>1, <3>4
  <2> QED
    BY <2>7, <2>8 DEF HeldFits, WithRole
<1> QED
  BY <1>5, <1>6 DEF HeldNext

(* No step but a restart changes what both flows have to do. *)
LEMMA OneAtATime ==
  ASSUME TypeOK, [Next]_vars
  PROVE  \/ job'["queue"] = Idle /\ job'["route"] = Idle
         \/ job'["queue"] = job["queue"]
         \/ job'["route"] = job["route"]
<1>1. job \in [Flows -> Jobs]
  BY DEF TypeOK, Flows
<1>2. ASSUME NEW d \in Flows, NEW j, SetJob(d, j)
      PROVE  job'["queue"] = job["queue"] \/ job'["route"] = job["route"]
  BY <1>1, <1>2 DEF SetJob, Flows
<1>3. ASSUME job' = job
      PROVE  job'["queue"] = job["queue"]
  BY <1>3
<1>4. ASSUME NEW d \in Flows, DispatchStep(d)
      PROVE  job'["queue"] = job["queue"] \/ job'["route"] = job["route"]
  <2>1. \E j : SetJob(d, j)
    BY <1>4 DEF DispatchStep, Dispatch, SkipTask, PreflightPasses, PreflightFails, RetryRefused, EndBatch
  <2> QED
    BY <1>2, <2>1
<1>5. CASE AgentStep \/ DropEvent \/ GateFails \/ TaskFailedExhausted \/ BeginCancel \/ CommitCancel \/ UNCHANGED vars
  BY <1>3, <1>5, ZenonT(40)
     DEF AgentStep, ClaimAttempt, StartAgent, LaunchFails, Report, ReportAgain, ExpireAttempt, DropEvent,
                GateFails, TaskFailedExhausted, BeginCancel, CommitCancel, vars, memory
<1>6. CASE Reconcile \/ TaskCompleted \/ TaskFailedRetries \/ FinishRecovery
  <2>1. "queue" \in Flows
    BY DEF Flows
  <2>2. CASE Reconcile
    <3>1. \E j : SetJob("queue", j)
      BY <2>2 DEF Reconcile
    <3> QED
      BY <1>2, <2>1, <3>1
  <2>3. CASE TaskCompleted
    <3>1. \E j : SetJob("queue", j)
      BY <2>3, CompletionShapes
    <3> QED
      BY <1>2, <2>1, <3>1
  <2>4. CASE TaskFailedRetries
    BY <1>2, <2>1, <2>4 DEF TaskFailedRetries
  <2>5. CASE FinishRecovery
    BY <1>2, <2>1, <2>5 DEF FinishRecovery
  <2> QED
    BY <1>6, <2>2, <2>3, <2>4, <2>5
<1>7. CASE UserStep
  <2>1. job' = job \/ \E j : SetJob("route", j)
    BY <1>7 DEF UserStep, DecidePlan, DecideApply, SelectCandidate, RetryMission, BeginCancel
  <2>2. "route" \in Flows
    BY DEF Flows
  <2> QED
    BY <1>2, <1>3, <2>1, <2>2
<1>8. CASE Restart
  BY <1>8 DEF Restart
<1>9. CASE \E t \in Tasks : RecoverExpired(t)
  BY <1>3, <1>9 DEF RecoverExpired
<1> QED
  BY <1>4, <1>5, <1>6, <1>7, <1>8, <1>9 DEF Next, QueueStep, RecoveryStep, Flows

(* A completion does not find the other flow at work. *)
LEMMA CompletionAlone ==
  ASSUME TypeOK, EventsTrue, JobShape, RouteShape, FlowKinds, TaskCompleted
  PROVE  job["queue"] = Idle /\ job["route"] = Idle
<1>1. HasEvent /\ Accepted(Head(inbox)) /\ Head(inbox).type = "completed"
  BY CompletionShapes
<1>2. \E t \in Tasks : Finished(t)
  BY <1>1, CompletionIsReal DEF Finished
<1>3. job["queue"] = Idle /\ (job["route"] = Idle \/ job["route"].at # 0)
  BY <1>1 DEF HasEvent, Yielded
<1> QED
  BY <1>2, <1>3 DEF JobShape, RouteShape, FlowKinds, Flows

(* Nor does a selection. *)
LEMMA SelectionAlone ==
  ASSUME TypeOK, JobShape, PendApart, NEW c \in Tasks, SelectCandidate(c)
  PROVE  job["queue"] = Idle /\ job["route"] = Idle
<1>1. job["route"] = Idle /\ (job["queue"] = Idle \/ job["queue"].at # 0)
  BY DEF SelectCandidate, Serving, Yielded
<1>2. ASSUME job["queue"].at # 0
      PROVE  FALSE
  <2>1. job["queue"].at \in Pend("queue") /\ plan.role[job["queue"].at] = "builder"
    BY <1>2 DEF Pend, JobShape, Flows
  <2>2. job["queue"].at \in Tasks
    BY <2>1, PendTyped DEF Flows
  <2> QED
    BY <2>1, <2>2 DEF PendApart, SelectCandidate, Builders
<1> QED
  BY <1>1, <1>2

(* What the flows do at the same time. *)
LEMMA NextFlowKinds ==
  ASSUME PlanInv, FlowKinds, PendApart, [Next]_vars, \A chosen \in SUBSET Tasks : ~ RetryMission(chosen)
  PROVE  FlowKinds'
<1>1. TypeOK /\ EventsTrue /\ JobShape /\ RouteShape /\ PlanUntouched
  BY DEF PlanInv
<1>2. /\ \A d \in Flows : GoesOn(d) \/ job'[d] = Idle \/ GetsJob(d)
      /\ "queue" \in Flows /\ "route" \in Flows
  BY <1>1, StepsOnJobs DEF Flows
<1>3. \A d \in Flows : GoesOn(d) => job'[d].kind = job[d].kind /\ (job[d] = Idle => job'[d] = Idle)
  BY JobFields DEF GoesOn
<1>4. ASSUME GetsJob("route")
      PROVE  /\ job["queue"] = Idle /\ job["route"] = Idle
             /\ job'["route"].kind \in {"approve", "select"}
  <2>1. job["route"].kind # "legacy"
    BY <1>1 DEF JobShape
  <2>2. \/ DecidePlan(TRUE) /\ job'["route"] = Job("approve", Allocated(Roots))
        \/ \E c \in Tasks : SelectCandidate(c) /\ job'["route"] = Job("select", AllocatedIn(task', ReadyIn(task')))
    BY <1>4, <2>1, Zenon DEF GetsJob
  <2>3. CASE DecidePlan(TRUE) /\ job'["route"] = Job("approve", Allocated(Roots))
    BY <1>1, <2>3, JobFields DEF DecidePlan, PlanUntouched
  <2>4. ASSUME NEW c \in Tasks, SelectCandidate(c), job'["route"] = Job("select", AllocatedIn(task', ReadyIn(task')))
        PROVE  /\ job["queue"] = Idle /\ job["route"] = Idle
               /\ job'["route"].kind \in {"approve", "select"}
    BY <1>1, <2>4, SelectionAlone, JobFields
  <2> QED
    BY <2>2, <2>3, <2>4
<1>5. ASSUME GetsJob("queue")
      PROVE  /\ job'["queue"].kind = "single" \/ job["route"] = Idle
             /\ job["route"].kind # "select"
  <2>1. CASE job["queue"].kind = "legacy"
    BY <2>1, JobFields DEF FlowKinds
  <2>2. CASE FinishRecovery
    <3>1. job["route"] = Idle
      BY <1>1, <2>2 DEF FinishRecovery, JobShape
    <3> QED
      BY <3>1, JobFields
  <2>3. CASE TaskCompleted
    <3>1. job["route"] = Idle
      BY <1>1, <2>3, CompletionAlone
    <3> QED
      BY <3>1, JobFields
  <2>4. CASE Reconcile
    <3>1. job["route"] = Idle
      BY <2>4 DEF Reconcile, FlowKinds
    <3> QED
      BY <3>1, JobFields
  <2>5. CASE TaskFailedRetries /\ job'["queue"] = Job("single", {Head(inbox).t})
    <3>1. job["route"] = Idle \/ job["route"].at # 0
      BY <2>5 DEF TaskFailedRetries, HasEvent, Yielded
    <3> QED
      BY <1>1, <2>5, <3>1, JobFields DEF RouteShape
  <2> QED
    BY <1>5, <2>1, <2>2, <2>3, <2>4, <2>5, Zenon DEF GetsJob
<1>6. job'["route"].kind # "retry"
  BY <1>2, <1>3, <1>4, JobFields DEF FlowKinds
<1>7. CASE job'["queue"] = Idle /\ job'["route"] = Idle
  BY <1>7, JobFields DEF FlowKinds
<1>8. CASE job'["queue"] = job["queue"]
  <2>1. job'["queue"].kind \in {"legacy", "reconcile", "due"} => job'["route"] = Idle
    BY <1>2, <1>3, <1>4, <1>8, JobFields DEF FlowKinds
  <2>2. job'["route"].kind = "select" => job'["queue"] = Idle
    BY <1>2, <1>3, <1>4, <1>8, JobFields DEF FlowKinds
  <2> QED
    BY <1>6, <2>1, <2>2 DEF FlowKinds
<1>9. CASE job'["route"] = job["route"]
  <2>1. job'["queue"].kind \in {"legacy", "reconcile", "due"} => job'["route"] = Idle
    BY <1>2, <1>3, <1>5, <1>9, JobFields DEF FlowKinds
  <2>2. job'["route"].kind = "select" => job'["queue"] = Idle
    BY <1>2, <1>3, <1>5, <1>9, JobFields DEF FlowKinds
  <2> QED
    BY <1>6, <2>1, <2>2 DEF FlowKinds
<1> QED
  BY <1>1, <1>7, <1>8, <1>9, OneAtATime

(* A task that is at most given up, or marked ready once it is planned.    *)
GivenUp(t) == \/ task'[t] \in {task[t], "rejected", "cancelled", "blocked"}
              \/ task'[t] = "ready" /\ t \in Pend("queue") \cup Pend("route")

(* A step that takes work away and gives none keeps the planned work apart *)
(* and within what was held and owed.                                      *)
LEMMA LessWork ==
  ASSUME TypeOK, TypeOK', Tasks' = Tasks, PendApart,
         Pend("queue")' \subseteq Pend("queue"), Pend("route")' \subseteq Pend("route"),
         \A t \in Tasks : GivenUp(t),
         \A t \in Tasks : Len(attempts'[t]) = Len(attempts[t])
  PROVE  Moves
<1>1. Pend("queue")' \subseteq Pend("queue") /\ Pend("route")' \subseteq Pend("route")
  OBVIOUS
<1>2. Pend("queue") \in SUBSET Tasks /\ Pend("route") \in SUBSET Tasks
  BY PendTyped DEF Flows
<1>3. PendApart'
  BY <1>1, <1>2 DEF PendApart, GivenUp
<1>4. Running' \subseteq Running
  BY DEF Running, GivenUp
<1>5. HeldNext
  BY <1>1, <1>4 DEF HeldNext, Held
<1>6. ASSUME NEW t \in Tasks
      PROVE  Len(attempts'[t]) + Owed(t)' <= Len(attempts[t]) + Owed(t)
  <2>1. Len(attempts[t]) \in Nat /\ Len(attempts'[t]) = Len(attempts[t])
    BY DEF TypeOK
  <2>2. Owed(t) \in {0, 1} /\ Owed(t)' \in {0, 1} /\ (Owed(t)' = 1 => Owed(t) = 1)
    BY <1>1 DEF Owed, GivenUp
  <2> QED
    BY <2>1, <2>2
<1> QED
  BY <1>3, <1>5, <1>6 DEF Moves, Frugal

(* So does the step that gives a planned task its agent. *)
LEMMA AssignedWork ==
  ASSUME TypeOK, TypeOK', Tasks' = Tasks, PendApart, NEW d \in Flows, NEW t \in Tasks, NEW now \in [Tasks -> TaskStatus],
         \A u \in Tasks : u # t => now[u] = task[u], Assign(t, now),
         t \in Pend(d), Pend(d)' = Pend(d) \ {t}, \A f \in Flows : f # d => Pend(f)' = Pend(f)
  PROVE  Moves
<1>1. /\ \A f \in Flows : Pend(f)' \subseteq Pend(f) \ {t}
      /\ Pend("queue") \in SUBSET Tasks /\ Pend("route") \in SUBSET Tasks
  <2>1. ASSUME NEW f \in Flows, f # d
        PROVE  t \notin Pend(f)
    BY <2>1 DEF Flows, PendApart
  <2> QED
    BY <2>1, PendTyped DEF Flows
<1>2. /\ Len(attempts'[t]) = Len(attempts[t]) + 1
      /\ \A u \in Tasks : u # t => attempts'[u] = attempts[u]
      /\ task'[t] = "running" /\ \A u \in Tasks : u # t => task'[u] = task[u]
      /\ \A u \in Tasks : Len(attempts[u]) \in Nat
  BY AssignTyped DEF TypeOK
<1>3. PendApart'
  BY <1>1, <1>2 DEF PendApart, Flows
<1>4. HeldNext
  <2>1. Running' \subseteq Running \cup {t} /\ t \in Pend("queue") \cup Pend("route")
    BY <1>2 DEF Running, Flows
  <2> QED
    BY <1>1, <2>1 DEF HeldNext, Held, Flows
<1>5. ASSUME NEW u \in Tasks
      PROVE  Len(attempts'[u]) + Owed(u)' <= Len(attempts[u]) + Owed(u)
  <2>1. CASE u = t
    <3>1. Owed(t) = 1
      BY DEF Owed, Flows
    <3>2. Owed(t)' = 0
      BY <1>1, <1>2 DEF Owed, Flows
    <3> QED
      BY <1>2, <2>1, <3>1, <3>2
  <2>2. CASE u # t
    <3>1. Len(attempts'[u]) = Len(attempts[u]) /\ Len(attempts[u]) \in Nat
      BY <1>2, <2>2
    <3>2. Owed(u) \in {0, 1} /\ Owed(u)' \in {0, 1} /\ (Owed(u)' = 1 => Owed(u) = 1)
      BY <1>1, <1>2, <2>2 DEF Owed, Flows
    <3> QED
      BY <3>1, <3>2
  <2> QED
    BY <2>1, <2>2
<1> QED
  BY <1>3, <1>4, <1>5 DEF Moves, Frugal

(* And the step that gives one flow a batch while the other has nothing.   *)
LEMMA NewBatch ==
  ASSUME TypeOK, TypeOK', Tasks' = Tasks, NEW d \in Flows, NEW C \in SUBSET {t \in Tasks : task'[t] \in {"planned", "ready"}},
         Pend(d)' \subseteq AllocatedIn(task', C), \A f \in Flows : f # d => Pend(f)' = {},
         \A t \in Tasks : task'[t] \in {"planned", "ready", "running"} => task'[t] = task[t],
         \A t \in Tasks : Len(attempts'[t]) = Len(attempts[t])
  PROVE  Moves
<1>1. C \in SUBSET Tasks
  OBVIOUS
<1>2. AllocatedIn(task', C) \subseteq C
  BY <1>1, AllocatedTyped
<1>3. PendApart'
  BY <1>2 DEF PendApart, Flows
<1>4. Running' \subseteq Running
  BY DEF Running
<1>5. Held' \subseteq Running' \cup AllocatedIn(task', C)
  BY DEF Held, Flows
<1>6. HeldNext
  BY <1>4, <1>5 DEF HeldNext
<1>7. ASSUME NEW t \in Tasks
      PROVE  Len(attempts'[t]) + Owed(t)' <= Len(attempts[t]) + Owed(t)
  <2>1. Len(attempts[t]) \in Nat /\ Len(attempts'[t]) = Len(attempts[t])
    BY DEF TypeOK
  <2>2. t \in Pend("queue")' \cup Pend("route")' => t \in C
    BY <1>2 DEF Flows
  <2>3. Owed(t) \in {0, 1} /\ Owed(t)' \in {0, 1} /\ (Owed(t)' = 1 => Owed(t) = 1)
    BY <2>2 DEF Owed
  <2> QED
    BY <2>1, <2>3
<1> QED
  BY <1>3, <1>6, <1>7 DEF Moves, Frugal

(* Setting all attempts at once gives no agents. *)
LEMMA MappedLengths ==
  ASSUME TypeOK, NEW f, attempts' = [t \in Tasks |-> [k \in Agents(t) |-> f[t][k]]], TypeOK', Tasks' = Tasks
  PROVE  \A t \in Tasks : Len(attempts'[t]) = Len(attempts[t])
<1>1. ASSUME NEW t \in Tasks
      PROVE  Len(attempts'[t]) = Len(attempts[t])
  <2>1. attempts'[t] = [k \in Agents(t) |-> f[t][k]]
    OBVIOUS
  <2>2. DOMAIN attempts'[t] = 1 .. Len(attempts[t]) /\ attempts'[t] \in Seq(AttemptStatus) /\ Len(attempts[t]) \in Nat
    BY <2>1 DEF Agents, TypeOK
  <2> QED
    BY <2>2
<1> QED
  BY <1>1

(* Dispatching hands planned work to agents, or gives it up. *)
LEMMA DispatchMoves ==
  ASSUME TypeOK, TypeOK', Tasks' = Tasks, JobShape, FlowKinds, PendApart, NEW d \in Flows, DispatchStep(d)
  PROVE  Moves
<1>1. /\ job \in [Flows -> Jobs] /\ job[d] \in Jobs /\ job[d].todo \subseteq Tasks
      /\ 0 \notin Tasks /\ Idle \in Jobs /\ Job("due", {}) \in Jobs
      /\ \A t \in Tasks : task[t] \in TaskStatus
  <2>1. job \in [Flows -> Jobs] /\ \A t \in Tasks : task[t] \in TaskStatus
    BY DEF TypeOK, Flows
  <2>2. job[d] \in Jobs
    BY <2>1
  <2> QED
    BY <2>1, <2>2, PlanTyped, NewJobTyped DEF TypeOK, Jobs, JobKind
<1>2. \A f \in Flows : job'[f] = job[f] => Pend(f)' = Pend(f)
  BY DEF Pend
<1>3. ASSUME NEW j \in Jobs, SetJob(d, j), j.todo \subseteq job[d].todo, j.at \in {0, job[d].at}
      PROVE  \A f \in Flows : Pend(f)' \subseteq Pend(f)
  <2>1. job'[d] = j /\ \A f \in Flows : f # d => job'[f] = job[f]
    BY <1>1, <1>3, SetJobTyped
  <2>2. Pend(d)' \subseteq Pend(d)
    BY <1>3, <2>1 DEF Pend
  <2> QED
    BY <1>2, <2>1, <2>2
<1>4. ASSUME UNCHANGED attempts, \A f \in Flows : Pend(f)' \subseteq Pend(f),
             \A t \in Tasks : GivenUp(t)
      PROVE  Moves
  <2>1. \A t \in Tasks : Len(attempts'[t]) = Len(attempts[t])
    BY <1>4
  <2>2. Pend("queue")' \subseteq Pend("queue") /\ Pend("route")' \subseteq Pend("route")
    BY <1>4 DEF Flows
  <2> QED
    BY <1>4, <2>1, <2>2, LessWork
<1>5. CASE Dispatch(d)
  <2>1. PICK t \in Tasks, now \in [Tasks -> TaskStatus] :
           /\ t \in job[d].todo /\ job[d].at = 0
           /\ now[t] \in {task[t], "ready"} /\ \A u \in Tasks : u # t => now[u] = task[u]
           /\ \A f \in Flows : f # d => job'[f] = job[f]
           /\ job'[d].todo = job[d].todo \ {t}
           /\ \/ /\ job'[d].at = t
                 /\ task' = now /\ UNCHANGED <<mission, agent, attempts>>
              \/ job'[d].at = 0 /\ Assign(t, now)
    BY <1>5, DispatchTyped
  <2>2. t \in Pend(d) /\ \A f \in Flows : f # d => Pend(f)' = Pend(f)
    BY <1>2, <2>1 DEF Pend
  <2>3. CASE job'[d].at = t /\ task' = now /\ UNCHANGED <<mission, agent, attempts>>
    <3>1. Pend(d)' \subseteq Pend(d)
      BY <2>1, <2>3 DEF Pend
    <3>2. \A f \in Flows : Pend(f)' \subseteq Pend(f)
      BY <2>2, <3>1
    <3>3. \A u \in Tasks : GivenUp(u)
      BY <2>1, <2>2, <2>3 DEF Flows, GivenUp
    <3> QED
      BY <1>4, <2>3, <3>2, <3>3
  <2>4. CASE job'[d].at = 0 /\ Assign(t, now)
    <3>1. Pend(d)' = Pend(d) \ {t}
      BY <2>1, <2>4 DEF Pend
    <3> QED
      BY <2>1, <2>2, <2>4, <3>1, AssignedWork
  <2> QED
    BY <2>1, <2>3, <2>4
<1>6. CASE PreflightPasses(d)
  <2>1. PICK t \in Tasks : /\ job[d].at = t /\ Assign(t, task)
                           /\ \A f \in Flows : f # d => job'[f] = job[f]
                           /\ job'[d].todo = job[d].todo /\ job'[d].at = 0
    BY <1>6, PassTyped
  <2>2. t # 0 /\ t \notin job[d].todo
    BY <1>1, <2>1 DEF JobShape
  <2>3. t \in Pend(d) /\ Pend(d)' = Pend(d) \ {t} /\ \A f \in Flows : f # d => Pend(f)' = Pend(f)
    BY <1>2, <2>1, <2>2 DEF Pend
  <2>4. task \in [Tasks -> TaskStatus]
    BY DEF TypeOK
  <2> QED
    BY <2>1, <2>3, <2>4, AssignedWork
<1>7. CASE PreflightFails(d)
  <2>1. job[d].kind # "retry" /\ SetJob(d, Idle)
    BY <1>7 DEF PreflightFails, JobShape, FlowKinds, Flows
  <2>2. \A f \in Flows : Pend(f)' \subseteq Pend(f)
    BY <1>1, <1>3, <2>1, JobFields
  <2>3. UNCHANGED attempts /\ \A t \in Tasks : GivenUp(t)
    BY <1>1, <1>7, <2>1 DEF PreflightFails, TypeOK, GivenUp
  <2> QED
    BY <1>4, <2>2, <2>3
<1>8. ~ RetryRefused(d)
  BY DEF RetryRefused, JobShape, FlowKinds, Flows
<1>9. CASE SkipTask(d)
  <2>1. SetJob(d, Rest(d, NextTask(d))) /\ UNCHANGED <<task, attempts>>
    BY <1>9 DEF SkipTask, rows
  <2>2. /\ Rest(d, NextTask(d)) \in Jobs /\ Rest(d, NextTask(d)).todo \subseteq job[d].todo
        /\ Rest(d, NextTask(d)).at = job[d].at
    BY <1>1 DEF Rest, Jobs
  <2>3. \A f \in Flows : Pend(f)' \subseteq Pend(f)
    BY <1>3, <2>1, <2>2
  <2>4. \A t \in Tasks : GivenUp(t)
    BY <2>1 DEF GivenUp
  <2> QED
    BY <1>4, <2>1, <2>3, <2>4
<1>10. CASE EndBatch(d)
  <2>1. PICK j \in {Idle, Job("due", {})} : SetJob(d, j)
    BY <1>10 DEF EndBatch
  <2>2. j \in Jobs /\ j.todo \subseteq job[d].todo /\ j.at = 0
    BY <1>1, <2>1, JobFields
  <2>3. \A f \in Flows : Pend(f)' \subseteq Pend(f)
    BY <1>3, <2>1, <2>2
  <2>4. UNCHANGED <<task, attempts>>
    BY <1>10 DEF EndBatch, rows
  <2>5. \A t \in Tasks : GivenUp(t)
    BY <2>4 DEF GivenUp
  <2> QED
    BY <1>4, <2>3, <2>4, <2>5
<1> QED
  BY <1>5, <1>6, <1>7, <1>8, <1>9, <1>10 DEF DispatchStep

(* The reports that are handled, but for the failure that is retried. *)
LEMMA QueueMoves ==
  ASSUME PlanInv, TypeOK', Tasks' = Tasks, FlowKinds, PendApart,
         Reconcile \/ DropEvent \/ GateFails \/ TaskCompleted \/ TaskFailedExhausted
  PROVE  Moves
<1>1. TypeOK /\ EventsTrue /\ JobShape /\ RouteShape
  BY DEF PlanInv
<1>2. /\ job \in [Flows -> Jobs] /\ task \in [Tasks -> TaskStatus] /\ "queue" \in Flows
      /\ Idle \in Jobs /\ \A kind \in JobKind, S \in SUBSET Tasks : Job(kind, S) \in Jobs
  BY <1>1, NewJobTyped DEF TypeOK, Flows
<1>4. ASSUME NEW j \in Jobs, SetJob("queue", j)
      PROVE  job'["queue"] = j /\ Pend("queue")' = j.todo \cup ({j.at} \ {0}) /\ Pend("route")' = Pend("route")
  <2>1. job'["queue"] = j /\ job'["route"] = job["route"]
    BY <1>2, <1>4 DEF SetJob, Flows
  <2> QED
    BY <2>1 DEF Pend
<1>5. ASSUME NEW j \in {Idle, Job("due", {})}, SetJob("queue", j)
      PROVE  \A f \in Flows : Pend(f)' \subseteq Pend(f)
  <2>1. j \in Jobs /\ j.todo = {} /\ j.at = 0
    BY <1>2, <1>5, JobFields DEF JobKind
  <2>2. Pend("queue")' = {} /\ Pend("route")' = Pend("route")
    BY <1>4, <1>5, <2>1
  <2> QED
    BY <2>2 DEF Flows
<1>6. ASSUME NEW kind \in JobKind, NEW C \in SUBSET {t \in Tasks : task'[t] \in {"planned", "ready"}}, job["route"] = Idle,
             SetJob("queue", Job(kind, AllocatedIn(task', C))), attempts' = attempts,
             \A t \in Tasks : task'[t] \in {"planned", "ready", "running"} => task'[t] = task[t]
      PROVE  Moves
  <2>1. C \in SUBSET Tasks
    OBVIOUS
  <2>2. AllocatedIn(task', C) \in SUBSET Tasks
    BY <1>1, <2>1, AllocatedTyped
  <2>3. Pend("queue")' = AllocatedIn(task', C) /\ Pend("route")' = Pend("route")
    <3> DEFINE j == Job(kind, AllocatedIn(task', C))
    <3>1. j \in Jobs /\ j.todo = AllocatedIn(task', C) /\ j.at = 0
      BY <1>2, <2>2, JobFields
    <3> HIDE DEF j
    <3>2. Pend("queue")' = j.todo \cup ({j.at} \ {0}) /\ Pend("route")' = Pend("route")
      BY <1>4, <1>6, <3>1 DEF j
    <3> QED
      BY <3>1, <3>2
  <2>4. Pend("route") = {}
    BY <1>6, JobFields DEF Pend
  <2>5. \A f \in Flows : f # "queue" => Pend(f)' = {}
    BY <2>3, <2>4 DEF Flows
  <2>6. \A t \in Tasks : Len(attempts'[t]) = Len(attempts[t])
    BY <1>6
  <2> QED
    BY <1>1, <1>2, <1>6, <2>3, <2>5, <2>6, NewBatch
<1>7. ASSUME UNCHANGED attempts, \A f \in Flows : Pend(f)' \subseteq Pend(f),
             \A t \in Tasks : GivenUp(t)
      PROVE  Moves
  <2>1. \A t \in Tasks : Len(attempts'[t]) = Len(attempts[t])
    BY <1>7
  <2>2. Pend("queue")' \subseteq Pend("queue") /\ Pend("route")' \subseteq Pend("route")
    BY <1>7 DEF Flows
  <2> QED
    BY <1>1, <1>7, <2>1, <2>2, LessWork
<1>13. job' = job => \A f \in Flows : Pend(f)' \subseteq Pend(f)
  BY DEF Pend
<1>8. CASE Reconcile
  <2>1. UNCHANGED <<plan, task, attempts>>
    BY <1>8 DEF Reconcile
  <2>2. job["route"] = Idle
    BY <1>8 DEF Reconcile, FlowKinds
  <2>3. SetJob("queue", Idle) \/ SetJob("queue", Job("reconcile", Allocated(Ready)))
    BY <1>8 DEF Reconcile
  <2>4. CASE SetJob("queue", Idle)
    <3>1. \A f \in Flows : Pend(f)' \subseteq Pend(f)
      BY <1>5, <2>4
    <3> QED
      BY <1>7, <2>1, <3>1 DEF GivenUp
  <2>5. CASE SetJob("queue", Job("reconcile", Allocated(Ready)))
    <3>1. Ready \in SUBSET {t \in Tasks : task'[t] \in {"planned", "ready"}}
      BY <2>1 DEF Ready, ReadyIn
    <3>2. Allocated(Ready) = AllocatedIn(task', Ready) /\ "reconcile" \in JobKind
      BY <2>1 DEF Allocated, JobKind
    <3>3. \A t \in Tasks : task'[t] = task[t]
      BY <2>1
    <3>4. SetJob("queue", Job("reconcile", AllocatedIn(task', Ready)))
      BY <2>5, <3>2
    <3> QED
      BY <1>6, <2>1, <2>2, <3>1, <3>2, <3>3, <3>4
  <2> QED
    BY <2>3, <2>4, <2>5
<1>9. CASE DropEvent
  BY <1>7, <1>9, <1>13 DEF DropEvent, rows, GivenUp
<1>10. CASE GateFails
  <2>1. UNCHANGED <<job, attempts>>
        /\ \A t \in Tasks : GivenUp(t)
    BY <1>10 DEF GateFails, GivenUp
  <2> QED
    BY <1>7, <1>13, <2>1
<1>11. CASE TaskFailedExhausted
  <2>1. UNCHANGED <<job, attempts>> /\ task' = [task EXCEPT ![Head(inbox).t] = "rejected"]
    BY <1>11 DEF TaskFailedExhausted
  <2>2. \A t \in Tasks : GivenUp(t)
    BY <1>2, <2>1 DEF GivenUp
  <2> QED
    BY <1>7, <1>13, <2>1, <2>2
<1>12. CASE TaskCompleted
  <2>1. /\ task' = [task EXCEPT ![Head(inbox).t] = "done"] /\ attempts' = attempts
        /\ HasEvent /\ Accepted(Head(inbox)) /\ Head(inbox).type = "completed"
        /\ \/ SetJob("queue", Idle) \/ SetJob("queue", Job("due", {}))
           \/ SetJob("queue", Job("legacy", AllocatedIn(task', ReadyIn(task'))))
    BY <1>12, CompletionShapes
  <2>2. job["route"] = Idle /\ job["queue"] = Idle
    BY <1>1, <1>12, CompletionAlone
  <2>3. \A t \in Tasks : task'[t] \in {"planned", "ready", "running"} => task'[t] = task[t]
    BY <1>2, <2>1
  <2>4. ReadyIn(task') \in SUBSET {t \in Tasks : task'[t] \in {"planned", "ready"}}
    BY DEF ReadyIn
  <2>5. CASE SetJob("queue", Job("legacy", AllocatedIn(task', ReadyIn(task'))))
    <3>1. "legacy" \in JobKind
      BY DEF JobKind
    <3> QED
      BY <1>6, <2>1, <2>2, <2>3, <2>4, <2>5, <3>1
  <2>6. CASE SetJob("queue", Idle) \/ SetJob("queue", Job("due", {}))
    <3>1. Pend("queue")' = {} /\ Pend("route")' = {}
      <4>1. Pend("queue") = {} /\ Pend("route") = {}
        BY <2>2, JobFields DEF Pend
      <4>2. \A f \in Flows : Pend(f)' \subseteq Pend(f)
        BY <1>5, <2>6
      <4> QED
        BY <4>1, <4>2 DEF Flows
    <3>2. {} \in SUBSET {t \in Tasks : task'[t] \in {"planned", "ready"}} /\ Pend("queue")' \subseteq AllocatedIn(task', {})
          /\ \A f \in Flows : f # "queue" => Pend(f)' = {}
      BY <3>1 DEF Flows
    <3>3. \A t \in Tasks : Len(attempts'[t]) = Len(attempts[t])
      BY <2>1
    <3> QED
      BY <1>1, <1>2, <2>3, <3>2, <3>3, NewBatch
  <2> QED
    BY <2>1, <2>5, <2>6
<1> QED
  BY <1>8, <1>9, <1>10, <1>11, <1>12

(* What agents, users and the start-up do to the planned work, but for a   *)
(* retry by the user.                                                      *)
LEMMA OtherMoves ==
  ASSUME PlanInv, TypeOK', Tasks' = Tasks, FlowKinds, PendApart,
         \A chosen \in SUBSET Tasks : ~ RetryMission(chosen),
         AgentStep \/ UserStep \/ CommitCancel \/ RecoveryStep \/ UNCHANGED vars
  PROVE  Moves
<1>1. TypeOK /\ EventsTrue /\ JobShape /\ RouteShape /\ PlanUntouched
  BY DEF PlanInv
<1>2. /\ job \in [Flows -> Jobs] /\ task \in [Tasks -> TaskStatus] /\ "queue" \in Flows /\ "route" \in Flows
      /\ Idle \in Jobs /\ \A kind \in JobKind, S \in SUBSET Tasks : Job(kind, S) \in Jobs
  BY <1>1, NewJobTyped DEF TypeOK, Flows
<1>3. job' = job => Pend("queue")' \subseteq Pend("queue") /\ Pend("route")' \subseteq Pend("route")
  BY DEF Pend
<1>4. ASSUME job' = job, UNCHANGED attempts, \A t \in Tasks : GivenUp(t)
      PROVE  Moves
  <2>1. \A t \in Tasks : Len(attempts'[t]) = Len(attempts[t])
    BY <1>4
  <2> QED
    BY <1>1, <1>3, <1>4, <2>1, LessWork
<1>5. task' = task => \A t \in Tasks : GivenUp(t)
  BY DEF GivenUp
<1>6. CASE AgentStep
  <2>1. \A t \in Tasks : Len(attempts'[t]) = Len(attempts[t])
    BY <1>1, <1>6, AgentsKeepAttempts DEF Kept
  <2>2. job' = job
    BY <1>6, ZenonT(40) DEF AgentStep, ClaimAttempt, StartAgent, LaunchFails, Report, ReportAgain, ExpireAttempt, memory
  <2>3. \A t \in Tasks : task'[t] \in {task[t], "rejected"}
    BY <1>2, <1>6, ZenonT(40)
       DEF AgentStep, ClaimAttempt, StartAgent, LaunchFails, Report, ReportAgain, ExpireAttempt, rows
  <2>4. \A t \in Tasks : GivenUp(t)
    BY <2>3 DEF GivenUp
  <2> QED
    BY <1>1, <1>3, <2>1, <2>2, <2>4, LessWork
<1>7. ASSUME NEW kind \in JobKind, NEW C \in SUBSET {t \in Tasks : task'[t] \in {"planned", "ready"}}, job["queue"] = Idle,
             SetJob("route", Job(kind, AllocatedIn(task', C))), attempts' = attempts,
             \A t \in Tasks : task'[t] \in {"planned", "ready", "running"} => task'[t] = task[t]
      PROVE  Moves
  <2>1. C \in SUBSET Tasks
    OBVIOUS
  <2>2. AllocatedIn(task', C) \in SUBSET Tasks
    BY <1>1, <2>1, AllocatedTyped
  <2>3. Pend("route")' = AllocatedIn(task', C) /\ Pend("queue")' = {}
    <3> DEFINE j == Job(kind, AllocatedIn(task', C))
    <3>1. j \in Jobs /\ j.todo = AllocatedIn(task', C) /\ j.at = 0
      BY <1>2, <2>2, JobFields
    <3> HIDE DEF j
    <3>2. job'["route"] = j /\ job'["queue"] = Idle
      BY <1>2, <1>7, <3>1 DEF j, SetJob, Flows
    <3> QED
      BY <3>1, <3>2, JobFields DEF Pend
  <2>5. \A f \in Flows : f # "route" => Pend(f)' = {}
    BY <2>3 DEF Flows
  <2>6. \A t \in Tasks : Len(attempts'[t]) = Len(attempts[t])
    BY <1>7
  <2> QED
    BY <1>1, <1>2, <1>7, <2>3, <2>5, <2>6, NewBatch
<1>8. CASE UserStep
  <2>1. ASSUME NEW approved \in BOOLEAN, DecidePlan(approved)
        PROVE  Moves
    <3>1. "plan" \in asked /\ UNCHANGED <<task, attempts>>
      BY <2>1 DEF DecidePlan
    <3>2. CASE ~ approved
      BY <1>4, <1>5, <2>1, <3>1, <3>2 DEF DecidePlan
    <3>3. CASE approved
      <4>1. SetJob("route", Job("approve", Allocated(Roots)))
        BY <2>1, <3>3 DEF DecidePlan
      <4>2. Allocated(Roots) = AllocatedIn(task', Roots) /\ "approve" \in JobKind
        BY <3>1 DEF Allocated, JobKind
      <4>3. Roots \in SUBSET {t \in Tasks : task'[t] \in {"planned", "ready"}}
        BY <3>1 DEF Roots
      <4>4. job["queue"] = Idle
        BY <1>1, <3>1 DEF PlanUntouched
      <4>5. \A t \in Tasks : task'[t] = task[t]
        BY <3>1
      <4>6. SetJob("route", Job("approve", AllocatedIn(task', Roots)))
        BY <4>1, <4>2
      <4> QED
        BY <1>7, <3>1, <4>2, <4>3, <4>4, <4>5, <4>6
    <3> QED
      BY <3>2, <3>3
  <2>2. ASSUME NEW approved \in BOOLEAN, DecideApply(approved)
        PROVE  Moves
    BY <1>4, <1>5, <2>2 DEF DecideApply
  <2>3. ASSUME NEW c \in Tasks, SelectCandidate(c)
        PROVE  Moves
    <3>1. SetJob("route", Job("select", AllocatedIn(task', ReadyIn(task')))) /\ attempts' = attempts
      BY <2>3 DEF SelectCandidate
    <3>2. \A t \in Tasks : task'[t] \in {task[t], "superseded"}
      BY <2>3 DEF SelectCandidate
    <3>3. \A t \in Tasks : task'[t] \in {"planned", "ready", "running"} => task'[t] = task[t]
      BY <3>2
    <3>4. ReadyIn(task') \in SUBSET {t \in Tasks : task'[t] \in {"planned", "ready"}} /\ "select" \in JobKind
      BY DEF ReadyIn, JobKind
    <3>5. job["queue"] = Idle
      BY <1>1, <2>3, SelectionAlone
    <3> QED
      BY <1>7, <3>1, <3>3, <3>4, <3>5
  <2>4. ASSUME BeginCancel
        PROVE  Moves
    <3> DEFINE f == [t \in Tasks |-> [k \in Agents(t) |-> IF attempts[t][k] = "live" THEN "cancelled" ELSE attempts[t][k]]]
    <3>1. attempts' = [t \in Tasks |-> [k \in Agents(t) |-> f[t][k]]] /\ UNCHANGED <<task, job>>
      BY <2>4 DEF BeginCancel
    <3> HIDE DEF f
    <3>2. \A t \in Tasks : Len(attempts'[t]) = Len(attempts[t])
      BY <1>1, <3>1, MappedLengths
    <3> QED
      BY <1>1, <1>3, <1>5, <3>1, <3>2, LessWork
  <2> QED
    BY <1>8, <2>1, <2>2, <2>3, <2>4 DEF UserStep
<1>9. CASE CommitCancel
  <2>1. UNCHANGED <<attempts, job>> /\ \A t \in Tasks : task'[t] \in {task[t], "cancelled"}
    BY <1>9 DEF CommitCancel
  <2>2. \A t \in Tasks : GivenUp(t)
    BY <2>1 DEF GivenUp
  <2> QED
    BY <1>4, <2>1, <2>2
<1>10. CASE RecoveryStep
  <2>1. CASE FinishRecovery
    <3>1. PICK j \in {Idle, Job("due", {})} : SetJob("queue", j)
      BY <2>1 DEF FinishRecovery
    <3>2. j \in Jobs /\ j.todo = {} /\ j.at = 0
      BY <1>2, <3>1, JobFields DEF JobKind
    <3>3. job'["queue"] = j /\ job'["route"] = job["route"]
      BY <1>2, <3>1, <3>2 DEF SetJob, Flows
    <3>4. Pend("queue")' \subseteq Pend("queue") /\ Pend("route")' \subseteq Pend("route")
      BY <3>2, <3>3 DEF Pend
    <3>5. UNCHANGED <<task, attempts>>
      BY <2>1 DEF FinishRecovery, rows
    <3>6. \A t \in Tasks : Len(attempts'[t]) = Len(attempts[t])
      BY <3>5
    <3> QED
      BY <1>1, <1>5, <3>4, <3>5, <3>6, LessWork
  <2>2. ASSUME NEW t \in Tasks, RecoverExpired(t)
        PROVE  Moves
    BY <1>4, <1>5, <2>2 DEF RecoverExpired, rows
  <2> QED
    BY <1>10, <2>1, <2>2 DEF RecoveryStep
<1>11. CASE UNCHANGED vars
  BY <1>4, <1>5, <1>11 DEF vars, rows, memory
<1> QED
  BY <1>6, <1>8, <1>9, <1>10, <1>11

(* A failure that is retried keeps its task's place, and counts. *)
LEMMA RetriedWork ==
  ASSUME PlanInv, TypeOK', Tasks' = Tasks, FlowKinds, PendApart, BudgetKept, TaskFailedRetries
  PROVE  PendApart' /\ HeldNext /\ BudgetKept'
<1> DEFINE e == Head(inbox)
<1>1. TypeOK
  BY DEF PlanInv
<1>2. /\ job \in [Flows -> Jobs] /\ task \in [Tasks -> TaskStatus] /\ retries \in [Tasks -> Nat]
      /\ e.t \in Tasks /\ Idle \in Jobs /\ Job("single", {e.t}) \in Jobs
      /\ spent["crash"] \in Nat /\ MaxTaskRetries \in Nat
      /\ Pend("route") \in SUBSET Tasks
  <2>1. e.t \in Tasks
    BY <1>1, HeadTyped DEF TaskFailedRetries, HasEvent
  <2>2. {e.t} \in SUBSET Tasks /\ "single" \in JobKind
    BY <2>1 DEF JobKind
  <2> QED
    BY <1>1, <2>1, <2>2, NewJobTyped, PendTyped, BoundsAssumption DEF TypeOK, Flows, Kinds
<1>3. /\ job["queue"] = Idle /\ task[e.t] = "running" /\ retries[e.t] < MaxTaskRetries
      /\ task' = [task EXCEPT ![e.t] = "ready"] /\ retries' = [retries EXCEPT ![e.t] = retries[e.t] + 1]
      /\ attempts' = attempts /\ spent' = spent
      /\ SetJob("queue", Idle) \/ SetJob("queue", Job("single", {e.t}))
  BY DEF TaskFailedRetries, HasEvent, Accepted, Correlated, MayRetry, history
<1> HIDE DEF e
<1>4. job'["queue"] \in {Idle, Job("single", {e.t})} /\ job'["route"] = job["route"]
  BY <1>2, <1>3 DEF SetJob, Flows
<1>5. Pend("queue")' \subseteq {e.t} /\ Pend("route")' = Pend("route") /\ Pend("queue") = {}
  BY <1>2, <1>3, <1>4, JobFields DEF Pend
<1>6. e.t \notin Pend("route")
  BY <1>3 DEF PendApart
<1>7. task'[e.t] = "ready" /\ \A t \in Tasks : t # e.t => task'[t] = task[t]
  BY <1>2, <1>3
<1>8. PendApart'
  BY <1>2, <1>5, <1>6, <1>7 DEF PendApart
<1>9. HeldNext
  <2>1. Running' \subseteq Running /\ e.t \in Running
    BY <1>2, <1>3, <1>7 DEF Running
  <2> QED
    BY <1>5, <2>1 DEF HeldNext, Held
<1>10. BudgetKept'
  <2> DEFINE past == (MaxTaskRetries + 1) * spent["crash"]
  <2>1. past \in Nat
    BY <1>2
  <2>2. ((MaxTaskRetries + 1) * spent["crash"])' = past
    BY <1>3
  <2> SUFFICES ASSUME NEW t \in Tasks
               PROVE  Len(attempts'[t]) + Owed(t)' <= past + 1 + Failures(t)'
    BY <2>2 DEF BudgetKept
  <2>3. Len(attempts[t]) + Owed(t) <= past + 1 + Failures(t)
    BY DEF BudgetKept
  <2> HIDE DEF past
  <2>4. /\ Len(attempts[t]) \in Nat /\ Len(attempts'[t]) = Len(attempts[t]) /\ retries[t] \in Nat
        /\ Owed(t) \in {0, 1} /\ Owed(t)' \in {0, 1}
    BY <1>1, <1>2, <1>3 DEF TypeOK, Owed
  <2>5. CASE t = e.t
    <3>1. retries'[t] = retries[t] + 1 /\ retries[t] < MaxTaskRetries
      BY <1>2, <1>3, <2>5
    <3>2. Owed(t) = 0
      BY <1>3, <1>5, <1>6, <2>5 DEF Owed
    <3>3. Failures(t) = retries[t] /\ Failures(t)' = retries[t] + 1
      BY <1>2, <2>4, <3>1 DEF Failures
    <3> QED
      BY <2>1, <2>3, <2>4, <3>2, <3>3
  <2>6. CASE t # e.t
    <3>1. retries'[t] = retries[t]
      BY <1>2, <1>3, <2>6
    <3>2. Owed(t)' = 1 => Owed(t) = 1
      BY <1>5, <1>7, <2>6 DEF Owed
    <3>3. Failures(t)' = Failures(t) /\ Failures(t) \in Nat
      BY <1>2, <2>4, <3>1 DEF Failures
    <3> QED
      BY <2>1, <2>3, <2>4, <3>2, <3>3
  <2> QED
    BY <2>5, <2>6
<1> QED
  BY <1>8, <1>9, <1>10

(* Disturbances are counted up, and a retry of the user is one. *)
LEMMA SpentGrows ==
  ASSUME TypeOK, [Next]_vars
  PROVE  /\ spent["userRetry"] <= spent'["userRetry"]
         /\ spent'["userRetry"] = 0 => \A chosen \in SUBSET Tasks : ~ RetryMission(chosen)
         /\ ~ Restart => spent'["crash"] = spent["crash"]
<1>1. spent \in [Kinds -> Nat] /\ {"repeat", "expiry", "userRetry", "crash", "cancel"} = Kinds
  BY DEF TypeOK, Kinds
<1>2. ASSUME NEW kind \in Kinds, Disturb(kind)
      PROVE  /\ spent["userRetry"] <= spent'["userRetry"]
             /\ kind = "userRetry" => spent'["userRetry"] # 0
             /\ kind # "crash" => spent'["crash"] = spent["crash"]
  <2>1. /\ spent'[kind] = spent[kind] + 1
        /\ \A other \in Kinds : other # kind => spent'[other] = spent[other]
    BY <1>1, <1>2, DisturbTyped
  <2>2. spent["userRetry"] \in Nat /\ "userRetry" \in Kinds /\ "crash" \in Kinds
    BY <1>1
  <2> QED
    BY <2>1, <2>2
<1>3. ASSUME spent' = spent
      PROVE  spent["userRetry"] <= spent'["userRetry"] /\ spent'["crash"] = spent["crash"]
  BY <1>1, <1>3
<1>4. ASSUME NEW chosen \in SUBSET Tasks, RetryMission(chosen)
      PROVE  Disturb("userRetry")
  BY <1>4 DEF RetryMission
<1>5. spent'["userRetry"] = 0 => \A chosen \in SUBSET Tasks : ~ RetryMission(chosen)
  BY <1>1, <1>2, <1>4
<1>6. CASE Restart
  BY <1>1, <1>2, <1>5, <1>6 DEF Restart
<1>7. CASE TaskCompleted
  BY <1>3, <1>5, <1>7, CompletionShapes
<1>8. CASE DispatchStep("queue") \/ DispatchStep("route") \/ Reconcile \/ DropEvent \/ GateFails
           \/ TaskFailedRetries \/ TaskFailedExhausted \/ CommitCancel \/ RecoveryStep \/ UNCHANGED vars
  <2>1. spent' = spent
    BY <1>8
       DEF DispatchStep, Dispatch, SkipTask, PreflightPasses, PreflightFails, RetryRefused, EndBatch,
           Reconcile,
           DropEvent, GateFails, TaskFailedRetries, TaskFailedExhausted, CommitCancel, RecoveryStep, FinishRecovery,
           RecoverExpired, vars, history
  <2> QED
    BY <1>3, <1>5, <2>1
<1>9. CASE AgentStep
  <2>1. spent' = spent \/ Disturb("repeat") \/ Disturb("expiry")
    BY <1>9 DEF AgentStep, ClaimAttempt, StartAgent, LaunchFails, Report, ReportAgain, ExpireAttempt, history
  <2> QED
    BY <1>1, <1>2, <1>3, <1>5, <2>1
<1>10. CASE UserStep
  <2>1. spent' = spent \/ Disturb("userRetry") \/ Disturb("cancel")
    BY <1>10
       DEF UserStep, DecidePlan, DecideApply, SelectCandidate, RetryMission, BeginCancel, RouteOnly, history
  <2> QED
    BY <1>1, <1>2, <1>3, <1>5, <2>1
<1> QED
  BY <1>6, <1>7, <1>8, <1>9, <1>10 DEF Next, QueueStep

(* Only a restart and a retry of the user forget failures. *)
LEMMA RetriesGrow ==
  ASSUME TypeOK, [Next]_vars, ~ Restart, \A chosen \in SUBSET Tasks : ~ RetryMission(chosen)
  PROVE  \A t \in Tasks : retries[t] <= retries'[t]
<1>1. retries \in [Tasks -> Nat] /\ agent \in [Tasks -> Nat]
  BY DEF TypeOK
<1>2. ASSUME retries' = retries
      PROVE  \A t \in Tasks : retries[t] <= retries'[t]
  BY <1>1, <1>2
<1>3. CASE TaskCompleted
  BY <1>2, <1>3, CompletionShapes
<1>4. CASE AgentStep \/ DispatchStep("queue") \/ DispatchStep("route") \/ Reconcile \/ DropEvent \/ GateFails
           \/ TaskFailedExhausted
  <2>1. retries' = retries
    BY <1>4, ZenonT(40) DEF AgentStep, ClaimAttempt, StartAgent, LaunchFails, Report, ReportAgain, ExpireAttempt,
           DispatchStep, Dispatch, SkipTask, PreflightPasses, PreflightFails, RetryRefused, EndBatch, Reconcile,
           DropEvent, GateFails, TaskFailedExhausted, memory
  <2> QED
    BY <1>2, <2>1
<1>5. CASE UserStep \/ CommitCancel \/ FinishRecovery \/ UNCHANGED vars
  <2>1. retries' = retries
    BY <1>5
       DEF UserStep, DecidePlan, DecideApply, SelectCandidate, BeginCancel, RouteOnly, CommitCancel,
           FinishRecovery,
                vars, memory
  <2> QED
    BY <1>2, <2>1
<1>6. CASE TaskFailedRetries
  BY <1>1, <1>6 DEF TaskFailedRetries
<1>7. ASSUME NEW t \in Tasks, RecoverExpired(t)
      PROVE  \A u \in Tasks : retries[u] <= retries'[u]
  <2>1. retries' = [retries EXCEPT ![t] = IF agent[t] - 1 > retries[t] THEN agent[t] - 1 ELSE retries[t]]
    BY <1>7 DEF RecoverExpired
  <2> QED
    BY <1>1, <2>1
<1> QED
  BY <1>3, <1>4, <1>5, <1>6, <1>7 DEF Next, QueueStep, RecoveryStep

(* A frugal step keeps the budget. *)
LEMMA FrugalBudget ==
  ASSUME TypeOK, TypeOK', Tasks' = Tasks, BudgetKept, Frugal, spent'["crash"] = spent["crash"],
         \A t \in Tasks : retries[t] <= retries'[t]
  PROVE  BudgetKept'
<1> DEFINE past == (MaxTaskRetries + 1) * spent["crash"]
<1>1. MaxTaskRetries \in Nat /\ spent["crash"] \in Nat
  BY BoundsAssumption DEF TypeOK, Kinds
<1>2. past \in Nat /\ ((MaxTaskRetries + 1) * spent["crash"])' = past
  BY <1>1
<1> SUFFICES ASSUME NEW t \in Tasks
             PROVE  Len(attempts'[t]) + Owed(t)' <= past + 1 + Failures(t)'
  BY <1>2 DEF BudgetKept
<1>3. Len(attempts[t]) + Owed(t) <= past + 1 + Failures(t)
  BY DEF BudgetKept
<1>4. Len(attempts'[t]) + Owed(t)' <= Len(attempts[t]) + Owed(t)
  BY DEF Frugal
<1>5. /\ Len(attempts[t]) \in Nat /\ Owed(t) \in {0, 1} /\ Owed(t)' \in {0, 1}
      /\ retries[t] \in Nat /\ retries'[t] \in Nat /\ retries[t] <= retries'[t]
  BY DEF TypeOK, Owed
<1>6. Len(attempts'[t]) \in Nat
  BY DEF TypeOK
<1>7. Failures(t) \in Nat /\ Failures(t)' \in Nat /\ Failures(t) <= Failures(t)'
  BY <1>1, <1>5 DEF Failures
<1> HIDE DEF past
<1> QED
  BY <1>2, <1>3, <1>4, <1>5, <1>6, <1>7, SMTT(30)

(* A restart plans nothing, and starts the budget anew.                    *)
LEMMA RestartedWork ==
  ASSUME PlanInv, TypeOK', Tasks' = Tasks, BudgetKept, Restart
  PROVE  PendApart' /\ HeldNext /\ BudgetKept'
<1>1. TypeOK
  BY DEF PlanInv
<1>2. job'["queue"] = Idle /\ job'["route"] = Idle /\ UNCHANGED task /\ retries' = [t \in Tasks |-> 0]
  BY DEF Restart
<1>3. Pend("queue")' = {} /\ Pend("route")' = {}
  BY <1>2, JobFields DEF Pend
<1>4. PendApart'
  BY <1>3 DEF PendApart
<1>5. HeldNext
  <2>1. Running' = Running
    BY <1>2 DEF Running
  <2> QED
    BY <1>3, <2>1 DEF HeldNext, Held
<1>6. spent["crash"] \in Nat /\ spent'["crash"] = spent["crash"] + 1 /\ MaxTaskRetries \in Nat
  <2>1. spent \in [Kinds -> Nat] /\ "crash" \in Kinds /\ Disturb("crash")
    BY <1>1 DEF TypeOK, Kinds, Restart
  <2> QED
    BY <2>1, DisturbTyped, BoundsAssumption
<1>7. \A t \in Tasks : Len(attempts'[t]) = Len(attempts[t])
  <2> DEFINE f == [t \in Tasks |-> [k \in Agents(t) |->
                     CASE attempts[t][k] \in {"claimed", "live", "overdue"} -> "expired"
                       [] attempts[t][k] = "launching" -> "lost"
                       [] OTHER -> attempts[t][k]]]
  <2>1. attempts' = [t \in Tasks |-> [k \in Agents(t) |-> f[t][k]]]
    BY DEF Restart
  <2> HIDE DEF f
  <2> QED
    BY <1>1, <2>1, MappedLengths
<1>8. BudgetKept'
  <2> DEFINE past == (MaxTaskRetries + 1) * spent["crash"]
  <2>1. past \in Nat /\ ((MaxTaskRetries + 1) * spent["crash"])' = past + MaxTaskRetries + 1
    <3>1. \A m \in Nat, n \in Nat : (m + 1) * (n + 1) = (m + 1) * n + m + 1 /\ (m + 1) * n \in Nat
      OBVIOUS
    <3> QED
      BY <1>6, <3>1
  <2> SUFFICES ASSUME NEW t \in Tasks
               PROVE  Len(attempts'[t]) + Owed(t)' <= past + MaxTaskRetries + 1 + 1 + Failures(t)'
    BY <2>1 DEF BudgetKept
  <2>2. Len(attempts[t]) + Owed(t) <= past + 1 + Failures(t)
    BY DEF BudgetKept
  <2> HIDE DEF past
  <2>3. /\ Len(attempts[t]) \in Nat /\ Len(attempts'[t]) = Len(attempts[t])
        /\ Owed(t) \in {0, 1} /\ Owed(t)' \in {0, 1} /\ (Owed(t)' = 1 => Owed(t) = 1)
    BY <1>1, <1>2, <1>3, <1>7 DEF TypeOK, Owed
  <2>4. Failures(t) \in Nat /\ Failures(t) <= MaxTaskRetries
    BY <1>1, <1>6 DEF TypeOK, Failures
  <2>5. Failures(t)' = 0
    BY <1>2, <1>6 DEF Failures
  <2> QED
    BY <1>6, <2>1, <2>2, <2>3, <2>4, <2>5
<1> QED
  BY <1>4, <1>5, <1>8

(* Every step keeps the invariant until the user retries. *)
LEMMA NextCapacityInv ==
  ASSUME PlanInv, PlanInv', CapacityInv, [Next]_vars
  PROVE  CapacityInv'
<1> SUFFICES ASSUME spent'["userRetry"] = 0
             PROVE  FlowKinds' /\ PendApart' /\ HeldFits' /\ BudgetKept'
  BY DEF CapacityInv
<1>1. TypeOK /\ JobShape /\ TypeOK' /\ Tasks' = Tasks /\ plan' = plan
  BY StepsOnAttempts DEF PlanInv
<1>2. spent["userRetry"] = 0 /\ \A chosen \in SUBSET Tasks : ~ RetryMission(chosen)
  <2>1. spent["userRetry"] \in Nat
    BY <1>1 DEF TypeOK, Kinds
  <2> QED
    BY <1>1, <2>1, SpentGrows
<1>3. FlowKinds /\ PendApart /\ HeldFits /\ BudgetKept
  BY <1>2 DEF CapacityInv
<1>4. FlowKinds'
  BY <1>2, <1>3, NextFlowKinds
<1>5. CASE TaskFailedRetries
  BY <1>1, <1>3, <1>4, <1>5, RetriedWork, NextHeldFits
<1>6. CASE Restart
  BY <1>1, <1>3, <1>4, <1>6, RestartedWork, NextHeldFits
<1>7. CASE ~ TaskFailedRetries /\ ~ Restart
  <2>1. Moves
    <3>1. CASE DispatchStep("queue") \/ DispatchStep("route")
      BY <1>1, <1>3, <3>1, DispatchMoves DEF Flows
    <3>2. CASE Reconcile \/ DropEvent \/ GateFails \/ TaskCompleted \/ TaskFailedExhausted
      BY <1>1, <1>3, <3>2, QueueMoves
    <3>3. CASE AgentStep \/ UserStep \/ CommitCancel \/ RecoveryStep \/ UNCHANGED vars
      BY <1>1, <1>2, <1>3, <3>3, OtherMoves
    <3> QED
      BY <1>7, <3>1, <3>2, <3>3 DEF Next, QueueStep
  <2>2. PendApart' /\ HeldNext /\ Frugal
    BY <2>1 DEF Moves
  <2>3. HeldFits'
    BY <1>1, <1>3, <2>2, NextHeldFits
  <2>4. spent'["crash"] = spent["crash"] /\ \A t \in Tasks : retries[t] <= retries'[t]
    BY <1>1, <1>2, <1>7, SpentGrows, RetriesGrow
  <2>5. BudgetKept'
    BY <1>1, <1>3, <2>2, <2>4, FrugalBudget
  <2> QED
    BY <1>4, <2>2, <2>3, <2>5
<1> QED
  BY <1>5, <1>6, <1>7

(* It holds at the start: the roots of the plan are a batch.               *)
LEMMA InitCapacityInv == Init => CapacityInv
<1> SUFFICES ASSUME Init
             PROVE  FlowKinds /\ PendApart /\ HeldFits /\ BudgetKept
  BY DEF CapacityInv
<1>1. TypeOK
  BY InitTypeOK
<1>2. /\ Len(plan.role) \in Nat /\ IsFiniteSet(Tasks) /\ Roots \in SUBSET Tasks
      /\ MaxParallel \in Nat /\ MaxTaskRetries \in Nat /\ \A r \in DOMAIN RoleLimit : RoleLimit[r] \in Nat
  BY <1>1, PlanTyped, BoundsAssumption DEF TypeOK, Roots
<1>3. /\ \A t \in Tasks : task[t] = "planned" /\ attempts[t] = <<>> /\ retries[t] = 0
      /\ job["queue"] = Idle /\ (job["route"] = Idle \/ job["route"] = Job("start", Allocated(Roots)))
      /\ spent["crash"] = 0
  BY DEF Init, Kinds
<1>4. {t \in Tasks : task[t] = "running"} \ Roots = {}
  BY <1>3
<1>5. Allocated(Roots) \in SUBSET Roots /\ Greedy({}, Roots, Allocated(Roots))
  <2>1. /\ AllocatedIn(task, Roots) \in SUBSET Roots
        /\ Greedy({t \in Tasks : task[t] = "running"} \ Roots, Roots, AllocatedIn(task, Roots))
    BY <1>2, AllocatedIsGreedy
  <2> QED
    BY <1>4, <2>1 DEF Allocated
<1>6. FlowKinds
  BY <1>3, JobFields DEF FlowKinds
<1>7. Pend("queue") = {} /\ Pend("route") \subseteq Allocated(Roots)
  BY <1>3, JobFields DEF Pend
<1>8. PendApart
  BY <1>2, <1>3, <1>5, <1>7 DEF PendApart
<1>9. Held \subseteq Allocated(Roots)
  BY <1>3, <1>7 DEF Held, Running
<1>10. ASSUME NEW chosen \in SUBSET Tasks, NEW limit \in Nat,
              \A t \in Roots \cap chosen : \A taken \in SUBSET Tasks :
                 Fits(t, taken) => Cardinality(taken \cap chosen) < limit
       PROVE  Cardinality(Held \cap chosen) <= limit
  <2> DEFINE busy == {}
             batch == Allocated(Roots)
  <2>1. /\ busy \in SUBSET Tasks /\ batch \in SUBSET Roots /\ Greedy(busy, Roots, batch)
        /\ Cardinality(busy \cap chosen) <= limit /\ Held \subseteq busy \cup batch
    BY <1>5, <1>9, <1>10, FS_EmptySet
  <2> HIDE DEF busy, batch
  <2>2. Cardinality((busy \cup batch) \cap chosen) <= limit
    BY <1>2, <1>10, <2>1, GreedyFits
  <2>3. IsFiniteSet((busy \cup batch) \cap chosen)
    BY <1>2, <2>1, FS_Subset
  <2>4. Held \cap chosen \subseteq (busy \cup batch) \cap chosen
    BY <2>1
  <2> QED
    BY <1>10, <2>2, <2>3, <2>4, SmallerSet
<1>11. Held \in SUBSET Tasks
  BY <1>2, <1>5, <1>9
<1>12. Cardinality(Held) <= MaxParallel
  <2>1. \A taken \in SUBSET Tasks : taken \cap Tasks = taken
    OBVIOUS
  <2>2. \A t \in Roots \cap Tasks : \A taken \in SUBSET Tasks : Fits(t, taken) => Cardinality(taken \cap Tasks) < MaxParallel
    BY <2>1 DEF Fits
  <2>3. Cardinality(Held \cap Tasks) <= MaxParallel
    BY <1>2, <1>10, <2>2
  <2> QED
    BY <1>11, <2>1, <2>3
<1>13. ASSUME NEW r \in DOMAIN RoleLimit
       PROVE  Cardinality(WithRole(Held, r)) <= RoleLimit[r]
  <2> DEFINE chosen == {t \in Tasks : plan.role[t] = r}
  <2>1. \A S \in SUBSET Tasks : S \cap chosen = WithRole(S, r)
    BY DEF WithRole
  <2>2. \A t \in Roots \cap chosen : \A taken \in SUBSET Tasks : Fits(t, taken) => Cardinality(taken \cap chosen) < RoleLimit[r]
    BY <2>1 DEF Fits
  <2>3. chosen \in SUBSET Tasks
    OBVIOUS
  <2> HIDE DEF chosen
  <2>4. Cardinality(Held \cap chosen) <= RoleLimit[r]
    BY <1>2, <1>10, <2>2, <2>3
  <2> QED
    BY <1>11, <2>1, <2>4
<1>14. BudgetKept
  <2>1. (MaxTaskRetries + 1) * spent["crash"] = 0
    BY <1>2, <1>3
  <2>2. ASSUME NEW t \in Tasks
        PROVE  Len(attempts[t]) + Owed(t) <= 0 + 1 + Failures(t)
    <3>1. Len(attempts[t]) = 0 /\ Owed(t) \in {0, 1} /\ Failures(t) \in Nat
      BY <1>2, <1>3 DEF Owed, Failures
    <3> QED
      BY <3>1
  <2> QED
    BY <2>1, <2>2 DEF BudgetKept
<1> QED
  BY <1>6, <1>8, <1>12, <1>13, <1>14 DEF HeldFits

(* The variables have their types, and neither capacity nor the retry      *)
(* budget is exceeded, until the user retries a mission.                   *)
THEOREM SchedulerIsSafe == Spec => [](TypeOK /\ (spent["userRetry"] = 0 => SchedulerInv))
<1>1. Init => CapacityInv
  BY InitCapacityInv
<1>2. PlanInv /\ PlanInv' /\ CapacityInv /\ [Next]_vars => CapacityInv'
  BY NextCapacityInv
<1>3. PlanInv /\ CapacityInv => TypeOK /\ (spent["userRetry"] = 0 => SchedulerInv)
  <2> SUFFICES ASSUME PlanInv, CapacityInv, spent["userRetry"] = 0
               PROVE  SchedulerInv
    BY DEF PlanInv
  <2>1. TypeOK /\ HeldFits /\ BudgetKept
    BY DEF PlanInv, CapacityInv
  <2>2. MaxTaskRetries \in Nat /\ spent["crash"] \in Nat /\ MaxParallel \in Nat /\ \A r \in DOMAIN RoleLimit : RoleLimit[r] \in Nat
    BY <2>1, BoundsAssumption DEF TypeOK, Kinds
  <2>3. IsFiniteSet(Held) /\ Running \subseteq Held
    <3>1. IsFiniteSet(Tasks) /\ Held \subseteq Tasks
      BY <2>1, PlanTyped, PendTyped DEF TypeOK, Held, Running, Flows
    <3> QED
      BY <3>1, FS_Subset DEF Held
  <2>4. Cardinality(Running) <= MaxParallel
    BY <2>1, <2>2, <2>3, SmallerSet DEF HeldFits
  <2>5. ASSUME NEW r \in DOMAIN RoleLimit
        PROVE  Cardinality(WithRole(Running, r)) <= RoleLimit[r]
    <3>1. WithRole(Running, r) \subseteq WithRole(Held, r) /\ WithRole(Held, r) \subseteq Held
      BY <2>3 DEF WithRole
    <3>2. IsFiniteSet(WithRole(Held, r)) /\ Cardinality(WithRole(Held, r)) <= RoleLimit[r]
      BY <2>1, <2>3, <3>1, FS_Subset DEF HeldFits
    <3> QED
      BY <2>2, <3>1, <3>2, SmallerSet
  <2>6. RetryBudget
    <3> SUFFICES ASSUME NEW t \in Tasks
                 PROVE  Len(attempts[t]) <= (MaxTaskRetries + 1) * (1 + spent["userRetry"] + spent["crash"])
      BY DEF RetryBudget
    <3>1. \A m \in Nat, n \in Nat : (m + 1) * (1 + 0 + n) = (m + 1) * n + m + 1 /\ (m + 1) * n \in Nat
      OBVIOUS
    <3> DEFINE past == (MaxTaskRetries + 1) * spent["crash"]
    <3>2. past \in Nat /\ (MaxTaskRetries + 1) * (1 + spent["userRetry"] + spent["crash"]) = past + MaxTaskRetries + 1
      BY <2>2, <3>1
    <3>3. Len(attempts[t]) + Owed(t) <= past + 1 + Failures(t)
      BY <2>1 DEF BudgetKept
    <3> HIDE DEF past
    <3>4. /\ Len(attempts[t]) \in Nat /\ Owed(t) \in {0, 1}
          /\ Failures(t) \in Nat /\ Failures(t) <= MaxTaskRetries
      BY <2>1, <2>2 DEF TypeOK, Owed, Failures
    <3> QED
      BY <2>2, <3>2, <3>3, <3>4
  <2> QED
    BY <2>1, <2>4, <2>5, <2>6 DEF SchedulerInv, CapacityRespected
<1> QED
  BY <1>1, <1>2, <1>3, PlanInvariant, PTL DEF Spec
=============================================================================
