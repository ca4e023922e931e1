------------------------ MODULE ProjectMemory_proofs ------------------------
(***************************************************************************)
(* Theorems about the memory of a repository, for any number of            *)
(* workspaces, events, crashes and statements that throw: knowledge has    *)
(* its evidence, the status of the project is that of its links, and what  *)
(* has been said is accounted for.                                         *)
(***************************************************************************)
EXTENDS ProjectMemory, TLAPS

Step == [at : Stages, e : Events \cup {0}]

(* The drain goes on with the head of its queue, and rests only when the   *)
(* queue is empty.                                                         *)
LEMMA LiveGoesOn ==
  ASSUME MemoryTypeOK
  PROVE  /\ LiveTakes \in Step /\ LiveTakes.at \in {"idle", "resolve"}
         /\ QueueLeft \in Seq(Events) /\ Len(QueueLeft) <= QueueLimit
         /\ IF LiveTakes.at = "idle" THEN LiveTakes = Rest /\ QueueLeft = <<>> ELSE LiveTakes.e \in Events
         /\ \A i \in DOMAIN queue :
              LiveTakes.e = queue[i] \/ \E j \in DOMAIN QueueLeft : QueueLeft[j] = queue[i]
<1> USE MemoryAssumption DEF Step, Stages, Rest
<1>1. queue \in Seq(Events) /\ Len(queue) \in Nat /\ Len(queue) <= QueueLimit
  BY DEF MemoryTypeOK
<1>2. CASE queue = <<>>
  BY <1>1, <1>2 DEF LiveTakes, QueueLeft
<1>3. CASE queue # <<>>
  <2>1. /\ LiveTakes = [at |-> "resolve", e |-> Head(queue)] /\ QueueLeft = Tail(queue)
        /\ Head(queue) = queue[1] /\ Head(queue) \in Events
    BY <1>1, <1>3 DEF LiveTakes, QueueLeft
  <2>2. /\ Tail(queue) \in Seq(Events) /\ Len(Tail(queue)) = Len(queue) - 1
        /\ \A j \in 1 .. Len(queue) - 1 : Tail(queue)[j] = queue[j + 1]
    BY <1>1, <1>3
  <2>3. ASSUME NEW i \in DOMAIN queue, i # 1
        PROVE  \E j \in DOMAIN QueueLeft : QueueLeft[j] = queue[i]
    <3>1. i - 1 \in DOMAIN QueueLeft /\ QueueLeft[i - 1] = queue[i]
      BY <1>1, <2>1, <2>2, <2>3
    <3> QED
      BY <3>1
  <2> QED
    BY <1>1, <2>1, <2>2, <2>3
<1> QED
  BY <1>2, <1>3

(* When the drain has gone on, only the event it had at hand may be no     *)
(* longer on its way.                                                      *)
LEMMA StillPending ==
  ASSUME MemoryTypeOK, work'["live"] = LiveTakes, queue' = QueueLeft, NEW e \in Events, Pending(e)
  PROVE  Pending(e)' \/ e = work["live"].e
BY LiveGoesOn DEF Pending

(* Settled promises leave every event accounted for, and let the drain     *)
(* write only if they were kept.                                           *)
LEMMA SettleKeeps ==
  ASSUME MemoryTypeOK, ChainsAreTrue, NEW w \in Workspaces, NEW stages \in SUBSET {"attach", "fill"}, NEW ok \in BOOLEAN,
         NEW next \in [Flows -> Step], next["live"] = work["live"], Settle(w, stages, ok, next), evidence' = evidence
  PROVE  /\ work' \in [Flows -> Step] /\ \A v \in Workspaces : work'[v] = next[v]
         /\ queue' \in Seq(Events) /\ Len(queue') <= QueueLimit
         /\ reader' \in [at : {"idle", "attach", "fill"}, w : Flows]
         /\ excused \subseteq excused' /\ excused' \subseteq Events
         /\ IF At("live", "idle")' THEN work'["live"] = Rest /\ queue' = <<>> ELSE work'["live"].e \in Events
         /\ work'["live"].at = "insert" => ok \/ work["live"].at = "insert"
         /\ work'["live"].at = "curate" => work'["live"] = work["live"]
         /\ \A e \in Events : Accounted(e) => Accounted(e)'
<1> DEFINE e0 == work["live"].e
           over == Waits(w, stages) /\ ~(ok /\ Wanted(e0))
<1> USE MemoryAssumption DEF Flows, At
<1>1. Waits(w, stages) => work["live"].at \in {"attach", "fill"} /\ e0 \in Events
  BY DEF Waits, ChainsAreTrue
<1>2. /\ work' = [next EXCEPT !["live"] = IF over THEN LiveTakes
                    ELSE IF Waits(w, stages) THEN [next["live"] EXCEPT !.at = "insert"] ELSE next["live"]]
      /\ queue' = IF over THEN QueueLeft ELSE queue
      /\ excused' = IF over THEN excused \cup (IF ok THEN Withheld(e0) ELSE {e0}) ELSE excused
      /\ reader' = IF reader.at \in stages /\ reader.w = w THEN NoReader ELSE reader
  BY DEF Settle
<1>3. reader' \in [at : {"idle", "attach", "fill"}, w : Flows]
  BY <1>2 DEF MemoryTypeOK, NoReader
<1>4. next["live"] \in Step /\ work["live"] \in Step
  BY DEF MemoryTypeOK, Step
<1>5. /\ work'["live"] = IF over THEN LiveTakes
                         ELSE IF Waits(w, stages) THEN [work["live"] EXCEPT !.at = "insert"] ELSE work["live"]
      /\ \A v \in Workspaces : work'[v] = next[v]
  BY <1>2
<1>6. CASE over
  <2>1. work'["live"] = LiveTakes /\ queue' = QueueLeft /\ excused' = excused \cup (IF ok THEN Withheld(e0) ELSE {e0})
    BY <1>2, <1>5, <1>6
  <2>2. work' \in [Flows -> Step]
    BY <1>2, <1>6, LiveGoesOn
  <2>3. e0 \in Events /\ (e0 \in evidence \/ e0 \in excused') /\ excused' \subseteq Events
    BY <1>1, <1>6, <2>1 DEF Wanted, Withheld, MemoryTypeOK
  <2>4. \A e \in Events : Accounted(e) => Accounted(e)'
    BY <2>1, <2>3, StillPending DEF Accounted
  <2> QED
    BY <1>3, <1>5, <2>1, <2>2, <2>3, <2>4, LiveGoesOn
<1>7. CASE ~over
  <2>1. queue' = queue /\ excused' = excused
    BY <1>2, <1>7
  <2>2. work'["live"] = IF Waits(w, stages) THEN [work["live"] EXCEPT !.at = "insert"] ELSE work["live"]
    BY <1>5, <1>7
  <2>3. /\ work'["live"] \in Step /\ work'["live"].e = e0
        /\ Waits(w, stages) => ok /\ work'["live"].at = "insert"
        /\ ~Waits(w, stages) => work'["live"] = work["live"]
    BY <1>4, <1>7, <2>2 DEF Step, Stages
  <2>4. work' \in [Flows -> Step]
    BY <1>2, <1>5, <2>3
  <2>5. \A e \in Events : Accounted(e) => Accounted(e)'
    BY <2>1, <2>3 DEF Accounted, Pending
  <2> QED
    BY <1>1, <1>3, <1>5, <2>1, <2>3, <2>4, <2>5 DEF MemoryTypeOK, ChainsAreTrue
<1> QED
  BY <1>6, <1>7

(* What a step of a chain may change besides the knowledge itself.         *)
Unmoved == UNCHANGED <<opened, deletion, log, project, link, evidence>>
Counted == faults' \in 0 .. MaxFaults /\ (faults' = 0 => faults = 0)

(* A backfill that ends, well or not, preserves the invariant.             *)
LEMMA FillEndsKeeps ==
  ASSUME MemoryInv, NEW w \in Workspaces, NEW ok \in BOOLEAN, Filling(w), FillEnds(w, ok), Unmoved, Counted,
         ok => At(w, "next") /\ todo[w] = {}, known' \subseteq evidence
  PROVE  MemoryInv'
<1> USE MemoryAssumption DEF Flows, At, Filling, Unmoved, Counted
<1>0. PICK S, next : /\ S = IF attach[w] = "fill" THEN {"attach", "fill"} ELSE {"fill"}
                     /\ next = [work EXCEPT ![w] = Rest]
  OBVIOUS
<1>1. MemoryTypeOK /\ ChainsAreTrue /\ w # "live"
  BY DEF MemoryInv
<1>2. /\ next \in [Flows -> Step] /\ next["live"] = work["live"] /\ next[w] = Rest
      /\ \A v \in Workspaces : v # w => next[v] = work[v]
  BY <1>0, <1>1 DEF MemoryTypeOK, Step, Stages, Rest
<1>3. /\ filled' = IF ok THEN filled \cup {w} ELSE filled
      /\ todo' = [todo EXCEPT ![w] = {}]
      /\ attach' = IF attach[w] = "fill" THEN [attach EXCEPT ![w] = "none"] ELSE attach
      /\ Settle(w, S, ok, next)
  BY <1>0 DEF FillEnds
<1>4. S \in SUBSET {"attach", "fill"}
  BY <1>0
<1>5. /\ work' \in [Flows -> Step] /\ \A v \in Workspaces : work'[v] = next[v]
      /\ queue' \in Seq(Events) /\ Len(queue') <= QueueLimit
      /\ reader' \in [at : {"idle", "attach", "fill"}, w : Flows]
      /\ excused \subseteq excused' /\ excused' \subseteq Events
      /\ IF At("live", "idle")' THEN work'["live"] = Rest /\ queue' = <<>> ELSE work'["live"].e \in Events
      /\ work'["live"].at = "insert" => ok \/ work["live"].at = "insert"
      /\ work'["live"].at = "curate" => work'["live"] = work["live"]
      /\ \A e \in Events : Accounted(e) => Accounted(e)'
  <2>1. evidence' = evidence
    OBVIOUS
  <2> HIDE MemoryAssumption DEF Flows, At, Filling, Unmoved, Counted
  <2> QED
    BY <1>1, <1>2, <1>3, <1>4, <2>1, SettleKeeps
<1>6. MemoryTypeOK'
  BY <1>1, <1>3, <1>5 DEF MemoryTypeOK, MemoryInv, KnownIsBacked, Step, Stages
<1>7. project # "none" /\ KnownIsBacked'
  BY DEF MemoryInv, KnownIsBacked, ChainsAreTrue, WithoutProject
<1>8. NothingIsForgotten'
  <2>1. ASSUME NEW e \in log, WorkspaceOf[e] \in filled'
        PROVE  Accounted(e)
    <3>1. CASE WorkspaceOf[e] \in filled
      BY <2>1, <3>1 DEF MemoryInv, NothingIsForgotten
    <3>2. CASE WorkspaceOf[e] = w /\ ok
      BY <3>2 DEF MemoryInv, FillCovers
    <3> QED
      BY <1>3, <2>1, <3>1, <3>2
  <2> QED
    BY <1>5, <2>1, <1>1 DEF NothingIsForgotten, MemoryTypeOK
<1>9. LogIsOpen'
  BY DEF MemoryInv, LogIsOpen
<1>10. ChainsAreTrue'
  <2>1. \A f \in Flows : /\ work'[f].at = "insert" => work'[f].e \in Events
                         /\ work'[f].at = "curate" => work'[f].e \in evidence'
    BY <1>1, <1>2, <1>5 DEF ChainsAreTrue, Rest
  <2>2. \A v \in Workspaces : /\ work'[v].at \notin {"resolve", "attach", "fill"}
                              /\ work'[v].at # "idle" => v \in opened /\ link[v] # "none"
    BY <1>1, <1>2, <1>5 DEF ChainsAreTrue, Rest
  <2>3. \A v \in Workspaces : attach'[v] # "none" => v \in opened
    BY <1>1, <1>3 DEF ChainsAreTrue, MemoryTypeOK
  <2> QED
    BY <1>5, <2>1, <2>2, <2>3 DEF ChainsAreTrue
<1>11. WithoutProject'
  BY <1>7 DEF WithoutProject
<1>12. FillCovers'
  <2>1. ASSUME NEW v \in Workspaces, NEW e \in log, WorkspaceOf[e] = v, work'[v].at \in {"next", "insert", "curate"}
        PROVE  Accounted(e)' \/ e \in todo'[v] \/ (work'[v].at = "insert" /\ work'[v].e = e)
    <3>1. v # w /\ work'[v] = work[v] /\ todo'[v] = todo[v]
      BY <1>1, <1>2, <1>3, <1>5, <2>1 DEF Rest, MemoryTypeOK
    <3>2. Accounted(e) \/ e \in todo[v] \/ (work[v].at = "insert" /\ work[v].e = e)
      BY <2>1, <3>1 DEF MemoryInv, FillCovers
    <3> QED
      BY <1>1, <1>5, <3>1, <3>2 DEF MemoryTypeOK
  <2> QED
    BY <2>1 DEF FillCovers
<1>13. LinksAreTrue'
  BY <1>1, <1>3 DEF MemoryInv, LinksAreTrue, MemoryTypeOK
<1> QED
  BY <1>6, <1>7, <1>8, <1>9, <1>10, <1>11, <1>12, <1>13 DEF MemoryInv

(* The drain leaves an event that is in the ledger or given up, and goes   *)
(* on.                                                                     *)
LEMMA LiveLeaves ==
  ASSUME MemoryInv, EventDone("live"), Unmoved, Counted, UNCHANGED <<todo, attach, filled, reader>>,
         excused \subseteq excused', excused' \subseteq Events, work["live"].e \in evidence \cup excused',
         known' \subseteq evidence
  PROVE  MemoryInv'
<1> USE MemoryAssumption DEF Flows, At, Filling, Unmoved, Counted
<1>1. MemoryTypeOK /\ "live" \notin Workspaces
  BY DEF MemoryInv
<1>2. work' = [work EXCEPT !["live"] = LiveTakes] /\ queue' = QueueLeft
  BY DEF EventDone
<1>3. /\ work'["live"] = LiveTakes /\ work' \in [Flows -> Step] /\ \A w \in Workspaces : work'[w] = work[w]
  BY <1>1, <1>2, LiveGoesOn DEF MemoryTypeOK, Step
<1>4. \A e \in Events : Accounted(e) => Accounted(e)'
  BY <1>1, <1>2, <1>3, StillPending DEF Accounted
<1>5. MemoryTypeOK'
  BY <1>1, <1>2, <1>3, LiveGoesOn DEF MemoryTypeOK, MemoryInv, KnownIsBacked, Step
<1>6. KnownIsBacked' /\ LogIsOpen' /\ LinksAreTrue'
  BY DEF MemoryInv, KnownIsBacked, LogIsOpen, LinksAreTrue
<1>7. NothingIsForgotten' /\ FillCovers'
  BY <1>1, <1>3, <1>4 DEF MemoryInv, NothingIsForgotten, FillCovers, MemoryTypeOK
<1>8. ChainsAreTrue'
  BY <1>1, <1>2, <1>3, LiveGoesOn DEF MemoryInv, ChainsAreTrue
<1>9. WithoutProject'
  BY <1>1, <1>3, LiveGoesOn DEF MemoryInv, WithoutProject
<1> QED
  BY <1>5, <1>6, <1>7, <1>8, <1>9 DEF MemoryInv

(* A chain that cannot record its event gives it up.                       *)
LEMMA RejectsKeeps ==
  ASSUME MemoryInv, NEW f \in Flows, work[f].at \in {"insert", "curate"}, Rejects(f), Unmoved, Counted,
         known' \subseteq evidence
  PROVE  MemoryInv'
<1>1. CASE f = "live"
  <2>1. excused' = excused \cup {work["live"].e} /\ EventDone("live") /\ UNCHANGED <<todo, attach, filled, reader>>
    BY <1>1 DEF Rejects
  <2>2. work["live"].e \in Events
    BY <1>1 DEF MemoryInv, ChainsAreTrue, At
  <2> QED
    BY <2>1, <2>2, LiveLeaves DEF MemoryInv, MemoryTypeOK
<1>2. CASE f # "live"
  <2>1. f \in Workspaces /\ FillEnds(f, FALSE) /\ Filling(f)
    BY <1>2 DEF Rejects, Flows, Filling, At
  <2> QED
    BY <2>1, FillEndsKeeps
<1> QED
  BY <1>1, <1>2

-----------------------------------------------------------------------------
(* The promises that a chain or a reader starts: an attachment of an open  *)
(* workspace, a backfill of an open and linked one.                        *)
LEMMA StartedChains ==
  ASSUME MemoryInv, NEW w \in Workspaces
  PROVE  /\ AttachStarted(w) \in [Workspaces -> {"none", "project", "create", "link", "fill"}]
         /\ \A v \in Workspaces : \/ AttachStarted(w)[v] = attach[v]
                                  \/ v \in opened /\ attach[v] = "none" /\ AttachStarted(w)[v] = "project"
         /\ FillStarted(w) \in [Flows -> Step] /\ FillStarted(w)["live"] = work["live"]
         /\ \A v \in Workspaces : \/ FillStarted(w)[v] = work[v]
                                  \/ v \in opened /\ link[v] # "none" /\ FillStarted(w)[v].at = "read"
<1> USE MemoryAssumption DEF Flows, At, Step, Stages
<1>1. MemoryTypeOK
  BY DEF MemoryInv
<1>2. Answer(w) = "attach" => w \in opened
  BY DEF Answer
<1>3. Answer(w) = "fill" => w \in opened /\ link[w] # "none"
  BY DEF Answer
<1>4. /\ AttachStarted(w) \in [Workspaces -> {"none", "project", "create", "link", "fill"}]
      /\ \A v \in Workspaces : \/ AttachStarted(w)[v] = attach[v]
                               \/ v \in opened /\ attach[v] = "none" /\ AttachStarted(w)[v] = "project"
  <2>1. attach \in [Workspaces -> {"none", "project", "create", "link", "fill"}]
    BY <1>1 DEF MemoryTypeOK
  <2>2. CASE Answer(w) = "attach" /\ attach[w] = "none"
    BY <1>2, <2>1, <2>2 DEF AttachStarted
  <2>3. CASE ~(Answer(w) = "attach" /\ attach[w] = "none")
    BY <2>1, <2>3 DEF AttachStarted
  <2> QED
    BY <2>2, <2>3
<1>5. CASE Answer(w) = "fill" /\ ~Filling(w)
  <2>1. FillStarted(w) = [work EXCEPT ![w].at = "read"]
    BY <1>5 DEF FillStarted
  <2>2. work \in [Flows -> Step] /\ w # "live" /\ w \in Flows
    BY <1>1 DEF MemoryTypeOK
  <2>3. /\ FillStarted(w) \in [Flows -> Step] /\ FillStarted(w)["live"] = work["live"]
        /\ FillStarted(w)[w].at = "read" /\ \A v \in Workspaces : v # w => FillStarted(w)[v] = work[v]
    BY <2>1, <2>2
  <2>4. \A v \in Workspaces : \/ FillStarted(w)[v] = work[v]
                              \/ v \in opened /\ link[v] # "none" /\ FillStarted(w)[v].at = "read"
    BY <1>3, <1>5, <2>3
  <2> QED
    BY <1>4, <2>3, <2>4
<1>6. CASE ~(Answer(w) = "fill" /\ ~Filling(w))
  <2>1. FillStarted(w) = work
    BY <1>6 DEF FillStarted
  <2>2. work \in [Flows -> Step]
    BY <1>1 DEF MemoryTypeOK
  <2> QED
    BY <1>4, <2>1, <2>2
<1> QED
  BY <1>5, <1>6

(* The arrival of an event and the start of its way into the ledger        *)
(* preserve the invariant.                                                 *)
LEMMA LiveKeepsMemoryInv ==
  ASSUME MemoryInv, (\E e \in Events : Emit(e)) \/ LiveResolve
  PROVE  MemoryInv'
<1> USE MemoryAssumption DEF Flows, At, Filling
<1>0. MemoryTypeOK /\ ChainsAreTrue /\ "live" \notin Workspaces
  BY DEF MemoryInv
<1>1. ASSUME NEW e \in Events, Emit(e)
      PROVE  MemoryInv'
  <2>1. /\ UNCHANGED <<opened, deletion, project, link, evidence, known, todo, attach, filled, reader, faults>>
        /\ log' = log \cup {e} /\ WorkspaceOf[e] \in opened
    BY <1>1 DEF Emit
  <2>2. /\ work' \in [Flows -> Step] /\ \A w \in Workspaces : work'[w] = work[w]
        /\ work'["live"].at \notin {"insert", "curate"} \/ work'["live"] = work["live"]
        /\ IF work'["live"].at = "idle" THEN work'["live"] = Rest /\ queue' = <<>> ELSE work'["live"].e \in Events
        /\ queue' \in Seq(Events) /\ Len(queue') <= QueueLimit
        /\ excused \subseteq excused' /\ excused' \subseteq Events
        /\ \A x \in Events : Accounted(x) \/ x = e => Accounted(x)'
    <3>1. CASE work["live"].at = "idle"
      <4>1. /\ work' = [work EXCEPT !["live"] = [at |-> "resolve", e |-> e]] /\ queue' = queue /\ excused' = excused
            /\ work["live"] = Rest /\ queue = <<>>
        BY <1>0, <1>1, <3>1 DEF Emit, ChainsAreTrue
      <4>2. work'["live"] = [at |-> "resolve", e |-> e] /\ \A w \in Workspaces : work'[w] = work[w]
        BY <1>0, <4>1 DEF MemoryTypeOK
      <4>3. \A x \in Events : ~Pending(x)
        BY <4>1 DEF Pending, Rest
      <4>4. \A x \in Events : Accounted(x) \/ x = e => Accounted(x)'
        BY <2>1, <4>1, <4>2, <4>3 DEF Accounted, Pending
      <4> QED
        BY <1>0, <4>1, <4>2, <4>4 DEF MemoryTypeOK, Step, Stages
    <3>2. CASE work["live"].at # "idle" /\ Len(queue) < QueueLimit
      <4>1. queue' = Append(queue, e) /\ work' = work /\ excused' = excused
        BY <1>1, <3>2 DEF Emit
      <4>2. /\ queue' \in Seq(Events) /\ Len(queue') = Len(queue) + 1 /\ queue'[Len(queue')] = e
            /\ \A i \in DOMAIN queue : i \in DOMAIN queue' /\ queue'[i] = queue[i]
        BY <1>0, <4>1 DEF MemoryTypeOK
      <4>3. Len(queue') \in DOMAIN queue' /\ Len(queue') <= QueueLimit
        BY <1>0, <3>2, <4>1, <4>2 DEF MemoryTypeOK
      <4>4. \A x \in Events : Accounted(x) \/ x = e => Accounted(x)'
        BY <2>1, <4>1, <4>2, <4>3 DEF Accounted, Pending
      <4> QED
        BY <1>0, <3>2, <4>1, <4>2, <4>3, <4>4 DEF MemoryTypeOK, ChainsAreTrue, Step, Stages
    <3>3. CASE work["live"].at # "idle" /\ ~(Len(queue) < QueueLimit)
      <4>1. queue' = queue /\ work' = work /\ excused' = excused \cup {e}
        BY <1>1, <3>3 DEF Emit
      <4>2. \A x \in Events : Accounted(x) \/ x = e => Accounted(x)'
        BY <2>1, <4>1 DEF Accounted, Pending
      <4> QED
        BY <1>0, <3>3, <4>1, <4>2 DEF MemoryTypeOK, ChainsAreTrue, Step, Stages
    <3> QED
      BY <3>1, <3>2, <3>3
  <2>3. MemoryTypeOK'
    BY <1>0, <2>1, <2>2 DEF MemoryTypeOK, Step
  <2>4. KnownIsBacked' /\ LogIsOpen' /\ WithoutProject' /\ LinksAreTrue'
    BY <2>1, <2>2 DEF MemoryInv, KnownIsBacked, LogIsOpen, WithoutProject, LinksAreTrue
  <2>5. NothingIsForgotten' /\ FillCovers'
    BY <1>0, <2>1, <2>2 DEF MemoryInv, NothingIsForgotten, FillCovers, MemoryTypeOK
  <2>6. ChainsAreTrue'
    BY <1>0, <2>1, <2>2 DEF ChainsAreTrue
  <2> QED
    BY <2>3, <2>4, <2>5, <2>6 DEF MemoryInv
<1>2. CASE LiveResolve
  <2>0. PICK e, w : e = work["live"].e /\ w = WorkspaceOf[e]
    OBVIOUS
  <2>1. /\ work["live"].at = "resolve" /\ e \in Events /\ w \in Workspaces
        /\ attach' = AttachStarted(w)
        /\ UNCHANGED <<opened, deletion, log, project, link, evidence, known, todo, filled, reader, faults>>
        /\ excused' = IF Answer(w) = "check" THEN excused \cup Withheld(e) ELSE excused
    BY <1>0, <1>2, <2>0 DEF LiveResolve, ChainsAreTrue, stored
  <2>2. excused \subseteq excused' /\ excused' \subseteq Events
    BY <1>0, <2>1 DEF Withheld, MemoryTypeOK
  <2>3. /\ attach' \in [Workspaces -> {"none", "project", "create", "link", "fill"}]
        /\ \A v \in Workspaces : \/ attach'[v] = attach[v]
                                 \/ v \in opened /\ attach[v] = "none" /\ attach'[v] = "project"
    BY <2>1, StartedChains
  <2>4. LinksAreTrue' /\ KnownIsBacked' /\ LogIsOpen'
    BY <2>1, <2>3 DEF MemoryInv, LinksAreTrue, KnownIsBacked, LogIsOpen
  <2>5. /\ work' \in [Flows -> Step]
        /\ queue' \in Seq(Events) /\ Len(queue') <= QueueLimit
        /\ IF work'["live"].at = "idle" THEN work'["live"] = Rest /\ queue' = <<>> ELSE work'["live"].e \in Events
        /\ work'["live"].at # "curate" /\ (work'["live"].at = "insert" => Answer(w) = "check")
        /\ \A v \in Workspaces : \/ work'[v] = work[v]
                                 \/ v \in opened /\ link[v] # "none" /\ work'[v].at = "read"
        /\ \A x \in log : Accounted(x) => Accounted(x)'
    <3>1. CASE Answer(w) = "null" \/ (Answer(w) = "check" /\ ~Wanted(e))
      <4>1. work' = [work EXCEPT !["live"] = LiveTakes] /\ queue' = QueueLeft
        BY <1>2, <2>0, <3>1 DEF LiveResolve
      <4>2. work'["live"] = LiveTakes /\ \A v \in Workspaces : work'[v] = work[v]
        BY <1>0, <4>1 DEF MemoryTypeOK
      <4>3. work' \in [Flows -> Step]
        BY <1>0, <4>1, LiveGoesOn DEF MemoryTypeOK, Step
      <4>4. e \in log => e \in evidence \cup excused'
        <5>1. CASE Answer(w) = "null"
          BY <2>0, <5>1 DEF Answer, MemoryInv, LogIsOpen
        <5>2. CASE Answer(w) = "check" /\ ~Wanted(e)
          BY <2>1, <5>2 DEF Wanted, Withheld
        <5> QED
          BY <3>1, <5>1, <5>2
      <4>5. \A x \in log : Accounted(x) => Accounted(x)'
        BY <1>0, <2>0, <2>1, <2>2, <4>1, <4>2, <4>4, StillPending DEF Accounted, MemoryTypeOK
      <4>6. /\ queue' \in Seq(Events) /\ Len(queue') <= QueueLimit
            /\ IF work'["live"].at = "idle" THEN work'["live"] = Rest /\ queue' = <<>> ELSE work'["live"].e \in Events
            /\ work'["live"].at \in {"idle", "resolve"}
        BY <1>0, <4>1, <4>2, LiveGoesOn
      <4> QED
        BY <4>2, <4>3, <4>5, <4>6
    <3>2. CASE ~(Answer(w) = "null" \/ (Answer(w) = "check" /\ ~Wanted(e)))
      <4>1. PICK next, stage : /\ next = FillStarted(w) /\ stage = IF Answer(w) = "check" THEN "insert" ELSE Answer(w)
                              /\ work' = [next EXCEPT !["live"].at = stage] /\ queue' = queue
        BY <1>2, <2>0, <3>2 DEF LiveResolve
      <4>2. stage \in {"insert", "attach", "fill"} /\ (stage = "insert" => Answer(w) = "check")
        BY <3>2, <4>1 DEF Answer
      <4>3. /\ next \in [Flows -> Step] /\ next["live"] = work["live"]
            /\ \A v \in Workspaces : \/ next[v] = work[v]
                                     \/ v \in opened /\ link[v] # "none" /\ next[v].at = "read"
        BY <2>1, <4>1, StartedChains
      <4>4. /\ work' \in [Flows -> Step] /\ work'["live"].at = stage /\ work'["live"].e = e
            /\ \A v \in Workspaces : work'[v] = next[v]
        BY <1>0, <2>0, <4>1, <4>2, <4>3 DEF Step, Stages
      <4>5. \A x \in log : Accounted(x) => Accounted(x)'
        BY <2>0, <2>1, <2>2, <4>1, <4>4 DEF Accounted, Pending
      <4> QED
        BY <1>0, <2>1, <4>1, <4>2, <4>3, <4>4, <4>5 DEF MemoryTypeOK
    <3> QED
      BY <3>1, <3>2
  <2>6. MemoryTypeOK'
    BY <1>0, <2>1, <2>2, <2>3, <2>5 DEF MemoryTypeOK, Step
  <2>7. WithoutProject'
    BY <2>1, <2>3, <2>5 DEF MemoryInv, WithoutProject, Answer
  <2>8. NothingIsForgotten' /\ FillCovers'
    BY <2>1, <2>5 DEF MemoryInv, NothingIsForgotten, FillCovers
  <2>9. ChainsAreTrue'
    BY <1>0, <2>1, <2>3, <2>5 DEF ChainsAreTrue
  <2> QED
    BY <2>4, <2>6, <2>7, <2>8, <2>9 DEF MemoryInv
<1> QED
  BY <1>1, <1>2

(* The ingestion of an event, by the drain or by a backfill, preserves the *)
(* invariant.                                                              *)
LEMMA EventKeepsMemoryInv ==
  ASSUME MemoryInv, NEW f \in Flows, EventStep(f)
  PROVE  MemoryInv'
<1> USE MemoryAssumption DEF At, Filling
<1>0. /\ MemoryTypeOK /\ ChainsAreTrue /\ KnownIsBacked /\ "live" \notin Workspaces /\ "live" \in Flows
      /\ \A w \in Workspaces : w \in Flows
  BY DEF MemoryInv, Flows
<1>1. CASE InsertEvidence(f)
  <2>0. PICK e : e = work[f].e
    OBVIOUS
  <2>1. work[f].at = "insert" /\ e \in Events /\ UNCHANGED <<opened, deletion, log, project, link, known, faults>>
    BY <1>0, <1>1, <2>0 DEF InsertEvidence, ChainsAreTrue
  <2>2. CASE e \in evidence /\ UNCHANGED evidence /\ Rejects(f)
    BY <1>0, <2>1, <2>2, RejectsKeeps DEF Unmoved, Counted, KnownIsBacked, MemoryTypeOK
  <2>3. CASE /\ evidence' = evidence \cup {e} /\ work' = [work EXCEPT ![f].at = "curate"]
             /\ UNCHANGED <<queue, todo, attach, filled, reader, excused>>
    <3>1. /\ work' \in [Flows -> Step] /\ work'[f].at = "curate" /\ work'[f].e = e
          /\ \A g \in Flows : g # f => work'[g] = work[g]
      BY <1>0, <2>0, <2>3 DEF MemoryTypeOK, Step, Stages
    <3>2. MemoryTypeOK'
      BY <1>0, <2>1, <2>3, <3>1 DEF MemoryTypeOK, Step
    <3>3. project # "none"
      <4>1. CASE f = "live"
        BY <2>1, <4>1 DEF MemoryInv, WithoutProject
      <4>2. CASE f \in Workspaces
        BY <1>0, <2>1, <4>2 DEF MemoryInv, WithoutProject, ChainsAreTrue
      <4> QED
        BY <4>1, <4>2 DEF Flows
    <3>4. \A x \in Events : (Accounted(x) => Accounted(x)') /\ (x = e => Accounted(x)')
      BY <1>0, <2>0, <2>3, <3>1 DEF Accounted, Pending
    <3>5. KnownIsBacked' /\ WithoutProject' /\ LogIsOpen' /\ LinksAreTrue'
      BY <2>1, <2>3, <3>3 DEF MemoryInv, KnownIsBacked, WithoutProject, LogIsOpen, LinksAreTrue
    <3>6. NothingIsForgotten'
      BY <1>0, <2>1, <2>3, <3>4 DEF MemoryInv, NothingIsForgotten, MemoryTypeOK
    <3>7. FillCovers'
      <4>1. ASSUME NEW v \in Workspaces, NEW x \in log, WorkspaceOf[x] = v, work'[v].at \in {"next", "insert", "curate"}
            PROVE  Accounted(x)' \/ x \in todo'[v] \/ (work'[v].at = "insert" /\ work'[v].e = x)
        <5>1. work[v].at \in {"next", "insert", "curate"} /\ (v # f => work'[v] = work[v]) /\ x \in Events
          BY <1>0, <2>1, <3>1, <4>1 DEF MemoryTypeOK
        <5>2. Accounted(x) \/ x \in todo[v] \/ (work[v].at = "insert" /\ work[v].e = x)
          BY <4>1, <5>1 DEF MemoryInv, FillCovers
        <5> QED
          BY <2>0, <2>3, <3>4, <5>1, <5>2
      <4> QED
        BY <2>1, <4>1 DEF FillCovers
    <3>8. ChainsAreTrue'
      <4>1. IF work'["live"].at = "idle" THEN work'["live"] = Rest /\ queue' = <<>> ELSE work'["live"].e \in Events
        BY <1>0, <2>0, <2>1, <2>3, <3>1 DEF ChainsAreTrue
      <4>2. \A g \in Flows : /\ work'[g].at = "insert" => work'[g].e \in Events
                             /\ work'[g].at = "curate" => work'[g].e \in evidence'
        BY <1>0, <2>3, <3>1 DEF ChainsAreTrue
      <4>3. \A w \in Workspaces : /\ work'[w].at \notin {"resolve", "attach", "fill"}
                                  /\ work'[w].at # "idle" => w \in opened' /\ link'[w] # "none"
                                  /\ attach'[w] # "none" => w \in opened'
        BY <1>0, <2>1, <2>3, <3>1 DEF ChainsAreTrue
      <4> QED
        BY <4>1, <4>2, <4>3 DEF ChainsAreTrue
    <3> QED
      BY <3>2, <3>5, <3>6, <3>7, <3>8 DEF MemoryInv
  <2> QED
    BY <1>1, <2>0, <2>2, <2>3 DEF InsertEvidence
<1>2. CASE Curate(f)
  <2>1. /\ work[f].at = "curate" /\ known' = Curated(work[f].e) /\ EventDone(f)
        /\ UNCHANGED <<opened, deletion, log, project, link, evidence, todo, attach, filled, reader, excused, faults>>
    BY <1>2 DEF Curate
  <2>2. work[f].e \in evidence /\ known' \subseteq evidence
    BY <1>0, <2>1 DEF ChainsAreTrue, KnownIsBacked, Curated
  <2>3. CASE f = "live"
    BY <1>0, <2>1, <2>2, <2>3, LiveLeaves DEF Unmoved, Counted, MemoryTypeOK
  <2>4. CASE f \in Workspaces
    <3>1. work' = [work EXCEPT ![f] = [at |-> "next", e |-> 0]] /\ queue' = queue
      BY <1>0, <2>1, <2>4 DEF EventDone
    <3>2. /\ work' \in [Flows -> Step] /\ work'[f].at = "next" /\ \A g \in Flows : g # f => work'[g] = work[g]
      BY <1>0, <3>1 DEF MemoryTypeOK, Step, Stages
    <3>3. \A x \in Events : Accounted(x) => Accounted(x)'
      BY <1>0, <2>1, <2>4, <3>1, <3>2 DEF Accounted, Pending
    <3>4. MemoryTypeOK'
      BY <1>0, <2>1, <2>2, <3>1, <3>2 DEF MemoryTypeOK, Step
    <3>5. KnownIsBacked' /\ WithoutProject' /\ LogIsOpen' /\ LinksAreTrue' /\ NothingIsForgotten'
      BY <1>0, <2>1, <2>2, <2>4, <3>2, <3>3
         DEF MemoryInv, KnownIsBacked, WithoutProject, LogIsOpen, LinksAreTrue, NothingIsForgotten, MemoryTypeOK
    <3>6. FillCovers'
      BY <1>0, <2>1, <3>2, <3>3 DEF MemoryInv, FillCovers, MemoryTypeOK
    <3>7. ChainsAreTrue'
      BY <1>0, <2>1, <2>4, <3>1, <3>2 DEF ChainsAreTrue
    <3> QED
      BY <3>4, <3>5, <3>6, <3>7 DEF MemoryInv
  <2> QED
    BY <2>3, <2>4 DEF Flows
<1>3. CASE Throws(f)
  <2>1. /\ Rejects(f) /\ faults' = faults + 1 /\ faults < MaxFaults
        /\ UNCHANGED <<opened, deletion, log, project, link, evidence>>
        /\ work[f].at \in {"insert", "curate"}
        /\ known' = known \/ (work[f].at = "curate" /\ known' = Curated(work[f].e))
    BY <1>3 DEF Throws
  <2>2. known' \subseteq evidence
    BY <1>0, <2>1 DEF ChainsAreTrue, KnownIsBacked, Curated
  <2>3. Counted
    BY <1>0, <2>1 DEF Counted, MemoryTypeOK
  <2> QED
    BY <2>1, <2>2, <2>3, RejectsKeeps DEF Unmoved
<1> QED
  BY <1>1, <1>2, <1>3 DEF EventStep

(* A backfill that reads and takes events preserves the invariant.         *)
LEMMA FillKeepsMemoryInv ==
  ASSUME MemoryInv, NEW w \in Workspaces, FillReads(w) \/ FillTakes(w) \/ FillDone(w)
  PROVE  MemoryInv'
<1> USE MemoryAssumption DEF At, Filling
<1>0. /\ MemoryTypeOK /\ ChainsAreTrue /\ "live" \notin Workspaces /\ "live" \in Flows
      /\ \A v \in Workspaces : v \in Flows
  BY DEF MemoryInv, Flows
<1>1. ASSUME UNCHANGED <<stored, queue, attach, filled, reader, faults>>, NEW step \in Step,
             step.at \in {"next", "insert"}, step.at = "insert" => step.e \in Events,
             work' = [work EXCEPT ![w] = step], work[w].at # "idle",
             excused \subseteq excused', excused' \subseteq Events,
             NEW left \in SUBSET Events, todo' = [todo EXCEPT ![w] = left],
             \A e \in log : WorkspaceOf[e] = w => Accounted(e) \/ e \in excused' \/ e \in left \/ (step.at = "insert" /\ step.e = e)
      PROVE  MemoryInv'
  <2>1. UNCHANGED <<opened, deletion, log, project, link, evidence, known>>
    BY <1>1 DEF stored
  <2>2. /\ work' \in [Flows -> Step] /\ work'[w] = step /\ \A g \in Flows : g # w => work'[g] = work[g]
    BY <1>0, <1>1 DEF MemoryTypeOK, Step
  <2>3. /\ todo' \in [Workspaces -> SUBSET Events] /\ todo'[w] = left /\ \A v \in Workspaces : v # w => todo'[v] = todo[v]
    BY <1>0, <1>1 DEF MemoryTypeOK
  <2>4. MemoryTypeOK'
    BY <1>0, <1>1, <2>1, <2>2, <2>3 DEF MemoryTypeOK, Step
  <2>5. /\ \A e \in Events : Accounted(e) => Accounted(e)'
        /\ \A e \in excused' : Accounted(e)'
    BY <1>0, <1>1, <2>1, <2>2 DEF Accounted, Pending
  <2>6. KnownIsBacked' /\ WithoutProject' /\ LogIsOpen' /\ LinksAreTrue' /\ NothingIsForgotten'
    BY <1>0, <1>1, <2>1, <2>2, <2>5
       DEF MemoryInv, KnownIsBacked, WithoutProject, LogIsOpen, LinksAreTrue, NothingIsForgotten, MemoryTypeOK
  <2>7. FillCovers'
    <3>1. ASSUME NEW v \in Workspaces, NEW e \in log, WorkspaceOf[e] = v, work'[v].at \in {"next", "insert", "curate"}
          PROVE  Accounted(e)' \/ e \in todo'[v] \/ (work'[v].at = "insert" /\ work'[v].e = e)
      <4>1. CASE v = w
        BY <1>0, <1>1, <2>2, <2>3, <2>5, <3>1, <4>1 DEF MemoryTypeOK
      <4>2. CASE v # w
        BY <1>0, <2>2, <2>3, <2>5, <3>1, <4>2 DEF MemoryInv, FillCovers, MemoryTypeOK
      <4> QED
        BY <4>1, <4>2
    <3> QED
      BY <2>1, <3>1 DEF FillCovers
  <2>8. ChainsAreTrue'
    BY <1>0, <1>1, <2>1, <2>2 DEF ChainsAreTrue
  <2> QED
    BY <2>4, <2>6, <2>7, <2>8 DEF MemoryInv
<1>2. CASE FillReads(w)
  <2>1. work' = [work EXCEPT ![w] = [work[w] EXCEPT !.at = "next"]] /\ work[w].at = "read"
        /\ todo' = [todo EXCEPT ![w] = log \cap Of(w)] /\ UNCHANGED <<stored, queue, attach, filled, reader, faults, excused>>
    BY <1>2 DEF FillReads
  <2>2. PICK step : step = [work[w] EXCEPT !.at = "next"]
    OBVIOUS
  <2>3. step \in Step /\ step.at = "next"
    BY <1>0, <2>2, SMTT(30) DEF MemoryTypeOK, Step, Stages
  <2>4. log \cap Of(w) \in SUBSET Events /\ excused \subseteq Events
    BY <1>0 DEF Of, MemoryTypeOK
  <2>5. \A e \in log : WorkspaceOf[e] = w => e \in log \cap Of(w)
    BY <1>0 DEF Of, MemoryTypeOK
  <2> QED
    BY <1>1, <2>1, <2>2, <2>3, <2>4, <2>5
<1>3. CASE FillTakes(w)
  <2>1. PICK e \in todo[w] :
          /\ work[w].at = "next" /\ todo' = [todo EXCEPT ![w] = todo[w] \ {e}]
          /\ IF Answer(w) = "check" /\ ~Wanted(e)
             THEN UNCHANGED work
             ELSE work' = [work EXCEPT ![w] = [at |-> IF Answer(w) = "check" THEN "insert" ELSE Answer(w), e |-> e]]
          /\ excused' = excused \cup Withheld(e) /\ UNCHANGED <<stored, queue, attach, filled, reader, faults>>
    BY <1>0, <1>3 DEF FillTakes, MemoryTypeOK
  <2>2. Answer(w) = "check"
    BY <1>0, <2>1 DEF Answer, ChainsAreTrue
  <2>3. /\ e \in Events /\ todo[w] \ {e} \in SUBSET Events /\ excused \subseteq excused' /\ excused' \subseteq Events
        /\ work \in [Flows -> Step]
    BY <1>0, <2>1 DEF MemoryTypeOK, Withheld, Step
  <2>4. \A x \in log : WorkspaceOf[x] = w => Accounted(x) \/ x \in todo[w]
    BY <2>1 DEF MemoryInv, FillCovers
  <2>5. PICK left \in SUBSET Events : left = todo[w] \ {e}
    BY <2>3
  <2>6. CASE Wanted(e)
    <3>1. PICK step : step = [at |-> "insert", e |-> e]
      OBVIOUS
    <3>2. step \in Step /\ step.at = "insert" /\ step.e = e /\ work' = [work EXCEPT ![w] = step]
      BY <2>1, <2>2, <2>3, <2>6, <3>1 DEF Step, Stages
    <3>3. \A x \in log : WorkspaceOf[x] = w => Accounted(x) \/ x \in left \/ (step.at = "insert" /\ step.e = x)
      BY <2>4, <2>5, <3>2
    <3> HIDE DEF At, Filling
    <3> QED
      BY <1>1, <2>1, <2>3, <2>5, <3>2, <3>3
  <2>7. CASE ~Wanted(e)
    <3>1. work' = [work EXCEPT ![w] = work[w]] /\ work[w] \in Step
      BY <1>0, <2>1, <2>2, <2>3, <2>7
    <3>2. Accounted(e) \/ e \in excused'
      BY <2>1, <2>7 DEF Accounted, Wanted, Withheld
    <3>3. \A x \in log : WorkspaceOf[x] = w => Accounted(x) \/ x \in excused' \/ x \in left
      BY <2>4, <2>5, <3>2
    <3>4. PICK step \in Step : step = work[w]
      BY <3>1
    <3> HIDE DEF At, Filling
    <3> QED
      BY <1>1, <2>1, <2>3, <2>5, <3>1, <3>3, <3>4
  <2> QED
    BY <2>6, <2>7
<1>4. CASE FillDone(w)
  <2>1. /\ work[w].at = "next" /\ todo[w] = {} /\ FillEnds(w, TRUE)
        /\ UNCHANGED <<opened, deletion, log, project, link, evidence, known, faults>>
    BY <1>4 DEF FillDone, stored
  <2>2. known' \subseteq evidence
    BY <2>1 DEF MemoryInv, KnownIsBacked
  <2> QED
    BY <1>0, <2>1, <2>2, FillEndsKeeps DEF Unmoved, Counted, MemoryTypeOK
<1> QED
  BY <1>2, <1>3, <1>4

(* The steps of an attachment, and a reader that starts one or a backfill, *)
(* preserve the invariant.                                                 *)
LEMMA AttachKeepsMemoryInv ==
  ASSUME MemoryInv, NEW w \in Workspaces, AttachProject(w) \/ AttachCreate(w) \/ AttachLink(w) \/ Read(w)
  PROVE  MemoryInv'
<1> USE MemoryAssumption DEF At, Filling
<1> DEFINE Attachments == [Workspaces -> {"none", "project", "create", "link", "fill"}]
<1>0. /\ MemoryTypeOK /\ ChainsAreTrue /\ "live" \notin Workspaces /\ "live" \in Flows
      /\ \A v \in Workspaces : v \in Flows
  BY DEF MemoryInv, Flows
<1>a. /\ work \in [Flows -> Step] /\ attach \in Attachments /\ log \subseteq Events
      /\ \A e \in log : e \in Events
  BY <1>0 DEF MemoryTypeOK, Step
<1>1. CASE AttachProject(w)
  <2>1. PICK stage \in {"create", "link"} :
          /\ attach' = [attach EXCEPT ![w] = stage] /\ attach[w] = "project"
          /\ stage = "link" => project # "none" /\ project' = Reactivated
          /\ stage = "create" => project = "none" /\ project' = project
    BY <1>1 DEF AttachProject
  <2>2. UNCHANGED <<opened, deletion, log, link, evidence, known, queue, work, todo, filled, reader, excused, faults>>
    BY <1>1 DEF AttachProject
  <2>3. attach' \in Attachments /\ attach'[w] = stage /\ \A v \in Workspaces : v # w => attach'[v] = attach[v]
    BY <1>a, <2>1
  <2>4. MemoryTypeOK'
    BY <1>0, <2>1, <2>2, <2>3 DEF MemoryTypeOK, Reactivated
  <2>5. KnownIsBacked' /\ WithoutProject' /\ LogIsOpen' /\ LinksAreTrue'
    BY <2>1, <2>2, <2>3 DEF MemoryInv, KnownIsBacked, WithoutProject, LogIsOpen, LinksAreTrue, Reactivated
  <2>6. NothingIsForgotten' /\ FillCovers'
    BY <2>2 DEF MemoryInv, NothingIsForgotten, FillCovers, Accounted, Pending
  <2>7. ChainsAreTrue'
    BY <1>0, <2>1, <2>2, <2>3 DEF ChainsAreTrue
  <2> QED
    BY <2>4, <2>5, <2>6, <2>7 DEF MemoryInv
<1>b. ASSUME NEW ok \in BOOLEAN, AttachEnds(w, ok), ok => project # "none",
             attach[w] \in {"create", "link"}, project' = project, UNCHANGED <<opened, deletion, log, evidence, known, todo, filled, faults>>,
             link' \in [Workspaces -> {"none", "active", "inactive"}],
             \A v \in Workspaces : link'[v] = "none" => link[v] = "none",
             project = "none" => link' = link,
             LinksAreTrue'
      PROVE  MemoryInv'
  <2>1. Settle(w, {"attach"}, ok, work) /\ attach' = [attach EXCEPT ![w] = "none"]
    BY <1>b DEF AttachEnds
  <2>2. /\ work' \in [Flows -> Step] /\ \A v \in Workspaces : work'[v] = work[v]
        /\ queue' \in Seq(Events) /\ Len(queue') <= QueueLimit
        /\ reader' \in [at : {"idle", "attach", "fill"}, w : Flows]
        /\ excused \subseteq excused' /\ excused' \subseteq Events
        /\ IF At("live", "idle")' THEN work'["live"] = Rest /\ queue' = <<>> ELSE work'["live"].e \in Events
        /\ work'["live"].at = "insert" => ok \/ work["live"].at = "insert"
        /\ work'["live"].at = "curate" => work'["live"] = work["live"]
        /\ \A e \in Events : Accounted(e) => Accounted(e)'
    <3>1. evidence' = evidence /\ {"attach"} \in SUBSET {"attach", "fill"}
      BY <1>b
    <3> HIDE MemoryAssumption DEF At, Filling, Attachments
    <3> QED
      BY <1>0, <1>a, <1>b, <2>1, <3>1, SettleKeeps
  <2>3. attach' \in Attachments /\ attach'[w] = "none" /\ \A v \in Workspaces : v # w => attach'[v] = attach[v]
    BY <1>a, <2>1
  <2>4. MemoryTypeOK'
    BY <1>0, <1>b, <2>2, <2>3 DEF MemoryTypeOK, Step
  <2>5. KnownIsBacked' /\ LogIsOpen'
    BY <1>b DEF MemoryInv, KnownIsBacked, LogIsOpen
  <2>6. WithoutProject'
    BY <1>b, <2>2, <2>3 DEF MemoryInv, WithoutProject
  <2>7. NothingIsForgotten' /\ FillCovers'
    BY <1>a, <1>b, <2>2 DEF MemoryInv, NothingIsForgotten, FillCovers
  <2>8. ChainsAreTrue'
    <3>1. \A f \in Flows : /\ work'[f].at = "insert" => work'[f].e \in Events
                           /\ work'[f].at = "curate" => work'[f].e \in evidence'
      BY <1>0, <1>b, <2>2 DEF ChainsAreTrue, Flows
    <3>2. \A v \in Workspaces : /\ work'[v].at \notin {"resolve", "attach", "fill"}
                                /\ work'[v].at # "idle" => v \in opened' /\ link'[v] # "none"
                                /\ attach'[v] # "none" => v \in opened'
      BY <1>0, <1>b, <2>2, <2>3 DEF ChainsAreTrue
    <3> QED
      BY <2>2, <3>1, <3>2 DEF ChainsAreTrue
  <2> QED
    BY <1>b, <2>4, <2>5, <2>6, <2>7, <2>8 DEF MemoryInv
<1>2. CASE AttachCreate(w)
  <2>1. attach[w] = "create" /\ UNCHANGED <<opened, deletion, log, link, evidence, known, todo, filled, faults>>
    BY <1>2 DEF AttachCreate
  <2>2. CASE project = "none" /\ project' = "active" /\ attach' = [attach EXCEPT ![w] = "link"]
             /\ UNCHANGED <<queue, work, reader, excused>>
    <3>1. attach' \in Attachments /\ attach'[w] = "link" /\ \A v \in Workspaces : v # w => attach'[v] = attach[v]
      BY <1>a, <2>2
    <3>2. MemoryTypeOK'
      BY <1>0, <2>1, <2>2, <3>1 DEF MemoryTypeOK
    <3>3. KnownIsBacked' /\ WithoutProject' /\ LogIsOpen' /\ LinksAreTrue'
      BY <2>1, <2>2, <3>1 DEF MemoryInv, KnownIsBacked, WithoutProject, LogIsOpen, LinksAreTrue
    <3>4. NothingIsForgotten' /\ FillCovers'
      BY <2>1, <2>2 DEF MemoryInv, NothingIsForgotten, FillCovers, Accounted, Pending
    <3>5. ChainsAreTrue'
      BY <1>0, <2>1, <2>2, <3>1 DEF ChainsAreTrue
    <3> QED
      BY <3>2, <3>3, <3>4, <3>5 DEF MemoryInv
  <2>3. CASE project # "none" /\ project' = project /\ AttachEnds(w, FALSE)
    <3>1. attach' = [attach EXCEPT ![w] = "none"]
      BY <2>3 DEF AttachEnds
    <3>2. LinksAreTrue'
      BY <1>a, <2>1, <2>3, <3>1 DEF MemoryInv, LinksAreTrue
    <3>3. link \in [Workspaces -> {"none", "active", "inactive"}]
      BY <1>0 DEF MemoryTypeOK
    <3> QED
      BY <1>b, <2>1, <2>3, <3>2, <3>3
  <2> QED
    BY <1>2, <2>2, <2>3 DEF AttachCreate
<1>3. CASE AttachLink(w)
  <2>1. /\ attach[w] = "link" /\ link' = [Swept EXCEPT ![w] = "active"]
        /\ UNCHANGED <<opened, deletion, log, project, evidence, known, todo, filled, faults>>
    BY <1>3 DEF AttachLink
  <2>2. /\ link' \in [Workspaces -> {"none", "active", "inactive"}] /\ link'[w] = "active"
        /\ \A v \in Workspaces : (link'[v] = "none" => link[v] = "none")
    BY <1>0, <2>1 DEF Swept, MemoryTypeOK
  <2>3. project \notin {"none", "detached"}
    BY <2>1 DEF MemoryInv, WithoutProject, LinksAreTrue
  <2>4. LinksAreTrue'
    BY <2>1, <2>2, <2>3 DEF LinksAreTrue
  <2>5. CASE w \in filled
    BY <1>3, <1>b, <2>1, <2>2, <2>3, <2>4, <2>5 DEF AttachLink
  <2>6. CASE w \notin filled
    <3>1. /\ attach' = [attach EXCEPT ![w] = "fill"] /\ work' = [work EXCEPT ![w].at = "read"]
          /\ UNCHANGED <<queue, reader, excused>>
      BY <1>3, <2>6 DEF AttachLink
    <3>2. attach' \in Attachments /\ \A v \in Workspaces : v # w => attach'[v] = attach[v]
      BY <1>a, <3>1
    <3>3. /\ work' \in [Flows -> Step] /\ work'[w].at = "read" /\ \A f \in Flows : f # w => work'[f] = work[f]
      BY <1>0, <1>a, <3>1 DEF Step, Stages
    <3>4. MemoryTypeOK'
      BY <1>0, <2>1, <2>2, <3>1, <3>2, <3>3 DEF MemoryTypeOK, Step
    <3>5. KnownIsBacked' /\ LogIsOpen' /\ WithoutProject'
      BY <2>1, <2>3 DEF MemoryInv, KnownIsBacked, LogIsOpen, WithoutProject
    <3>6. NothingIsForgotten' /\ FillCovers'
      BY <1>0, <2>1, <3>1, <3>3 DEF MemoryInv, NothingIsForgotten, FillCovers, Accounted, Pending
    <3>7. ChainsAreTrue'
      BY <1>0, <2>1, <2>2, <3>1, <3>2, <3>3 DEF ChainsAreTrue
    <3> QED
      BY <2>4, <3>4, <3>5, <3>6, <3>7 DEF MemoryInv
  <2> QED
    BY <2>5, <2>6
<1>4. CASE Read(w)
  <2>1. /\ reader' = [at |-> Answer(w), w |-> w] /\ Answer(w) \in {"attach", "fill"}
        /\ attach' = AttachStarted(w) /\ work' = FillStarted(w)
        /\ UNCHANGED <<opened, deletion, log, project, link, evidence, known, queue, todo, filled, excused, faults>>
    BY <1>4 DEF Read, stored
  <2>2. /\ attach' \in Attachments
        /\ \A v \in Workspaces : attach'[v] = attach[v] \/ (v \in opened /\ attach[v] = "none" /\ attach'[v] = "project")
        /\ work' \in [Flows -> Step] /\ work'["live"] = work["live"]
        /\ \A v \in Workspaces : work'[v] = work[v] \/ (v \in opened /\ link[v] # "none" /\ work'[v].at = "read")
    BY <2>1, StartedChains
  <2>3. reader' \in [at : {"idle", "attach", "fill"}, w : Flows]
    BY <1>0, <2>1
  <2>4. MemoryTypeOK'
    BY <1>0, <2>1, <2>2, <2>3 DEF MemoryTypeOK, Step
  <2>5. KnownIsBacked' /\ LogIsOpen' /\ WithoutProject' /\ LinksAreTrue'
    BY <2>1, <2>2 DEF MemoryInv, KnownIsBacked, LogIsOpen, WithoutProject, LinksAreTrue
  <2>6. NothingIsForgotten' /\ FillCovers'
    BY <1>0, <2>1, <2>2 DEF MemoryInv, NothingIsForgotten, FillCovers, Accounted, Pending
  <2>7. ChainsAreTrue'
    BY <1>0, <2>1, <2>2 DEF ChainsAreTrue, Flows
  <2> QED
    BY <2>4, <2>5, <2>6, <2>7 DEF MemoryInv
<1> QED
  BY <1>1, <1>2, <1>3, <1>4

-----------------------------------------------------------------------------
(* A request begins when all chains are done.  If it leaves them alone, it *)
(* preserves the invariant when the tables agree after it and no event     *)
(* loses its evidence without being given up.                              *)
LEMMA RequestKeeps ==
  ASSUME MemoryInv, Calm, UNCHANGED <<queue, work, todo, attach, filled, reader>>,
         MemoryTypeOK', KnownIsBacked', LogIsOpen', LinksAreTrue',
         project' = "none" => \A w \in Workspaces : link'[w] = "none",
         log' \subseteq log, \A e \in log' : e \in evidence \cup excused => e \in evidence' \cup excused'
  PROVE  MemoryInv'
<1> USE MemoryAssumption DEF At, Filling
<1>1. /\ \A f \in Flows : work[f].at = "idle" /\ work'[f].at = "idle"
      /\ \A w \in Workspaces : attach'[w] = "none" /\ w \in Flows
      /\ "live" \in Flows
  BY DEF Calm, Flows
<1>2. queue = <<>> /\ work["live"] = Rest /\ queue' = <<>> /\ work' = work
  BY <1>1 DEF MemoryInv, ChainsAreTrue
<1>3. log \subseteq Events /\ \A e \in Events : ~Pending(e)
  BY <1>2 DEF Pending, MemoryInv, MemoryTypeOK, Rest
<1>4. ChainsAreTrue' /\ FillCovers'
  BY <1>1, <1>2 DEF ChainsAreTrue, FillCovers
<1>5. WithoutProject'
  BY <1>1 DEF WithoutProject
<1>6. NothingIsForgotten'
  BY <1>3 DEF MemoryInv, NothingIsForgotten, Accounted
<1> QED
  BY <1>4, <1>5, <1>6 DEF MemoryInv

(* The requests of the user preserve the invariant.                        *)
LEMMA UserKeepsMemoryInv ==
  ASSUME MemoryInv,
         \/ Look \/ Archive \/ RestoreProject \/ DeleteProject
         \/ \E n : DeleteNode(n)
         \/ \E w \in Workspaces : \/ AttachManually(w) \/ Detach(w) \/ Detached(w)
                                  \/ RemoveProvenance(w) \/ DeleteRows(w)
  PROVE  MemoryInv'
<1> USE MemoryAssumption
<1>0. MemoryTypeOK /\ KnownIsBacked /\ LogIsOpen /\ LinksAreTrue /\ WithoutProject
  BY DEF MemoryInv
<1>1. ASSUME Request
      PROVE  Calm /\ UNCHANGED <<log, queue, work, todo, attach, filled, reader, faults>>
  BY <1>1 DEF Request
<1>2. ASSUME Calm
      PROVE  \A w \in Workspaces : attach[w] = "none"
  BY <1>2 DEF Calm
<1>3. /\ Swept \in [Workspaces -> {"none", "active", "inactive"}]
      /\ \A w \in Workspaces : /\ Swept[w] = "none" <=> link[w] = "none"
                               /\ Swept[w] = "active" <=> w \in Linked
  BY <1>0 DEF Swept, Linked, MemoryTypeOK
<1>4. CASE Look
  <2>1. /\ Calm /\ UNCHANGED <<log, queue, work, todo, attach, filled, reader, faults>>
        /\ link' = Swept /\ UNCHANGED <<opened, deletion, evidence, known, excused>>
        /\ project' = IF Linked = {} /\ project # "archived" THEN "detached" ELSE project
        /\ Swept # link
    BY <1>1, <1>4 DEF Look
  <2>2. project # "none"
    <3>1. \E w \in Workspaces : link[w] # "none"
      <4>1. ASSUME \A w \in Workspaces : link[w] = "none"
            PROVE  Swept = link
        BY <1>0, <4>1 DEF Swept, MemoryTypeOK
      <4> QED
        BY <2>1, <4>1
    <3> QED
      BY <1>0, <3>1 DEF WithoutProject
  <2>3. MemoryTypeOK'
    BY <1>0, <1>3, <2>1 DEF MemoryTypeOK
  <2>4. KnownIsBacked' /\ LogIsOpen'
    BY <1>0, <2>1, <2>2 DEF KnownIsBacked, LogIsOpen
  <2>5. LinksAreTrue'
    BY <1>0, <1>2, <1>3, <2>1 DEF LinksAreTrue, Linked, MemoryTypeOK
  <2> QED
    BY <2>1, <2>2, <2>3, <2>4, <2>5, RequestKeeps
<1>5. CASE Archive
  <2>1. /\ Calm /\ UNCHANGED <<log, queue, work, todo, attach, filled, reader, faults>>
        /\ link' = Swept /\ UNCHANGED <<opened, deletion, evidence, known, excused>>
        /\ project' = "archived" /\ project # "none"
    BY <1>1, <1>5 DEF Archive
  <2>2. MemoryTypeOK'
    BY <1>0, <1>3, <2>1 DEF MemoryTypeOK
  <2>3. KnownIsBacked' /\ LogIsOpen' /\ LinksAreTrue'
    BY <1>0, <2>1 DEF KnownIsBacked, LogIsOpen, LinksAreTrue
  <2> QED
    BY <2>1, <2>2, <2>3, RequestKeeps
<1>6. CASE RestoreProject
  <2>1. /\ Calm /\ UNCHANGED <<log, queue, work, todo, attach, filled, reader, faults>>
        /\ link' = Swept /\ UNCHANGED <<opened, deletion, evidence, known, excused>>
        /\ project' = (IF Linked = {} THEN "detached" ELSE "active") /\ project = "archived"
    BY <1>1, <1>6 DEF RestoreProject
  <2>2. MemoryTypeOK'
    BY <1>0, <1>3, <2>1 DEF MemoryTypeOK
  <2>3. KnownIsBacked' /\ LogIsOpen'
    BY <1>0, <2>1 DEF KnownIsBacked, LogIsOpen
  <2>4. LinksAreTrue'
    BY <1>0, <1>2, <1>3, <2>1 DEF LinksAreTrue, Linked, MemoryTypeOK
  <2> QED
    BY <2>1, <2>2, <2>3, <2>4, RequestKeeps
<1>7. CASE DeleteProject
  <2>1. /\ Calm /\ UNCHANGED <<log, queue, work, todo, attach, filled, reader, faults>>
        /\ project' = "none" /\ link' = [w \in Workspaces |-> "none"]
        /\ evidence' = {} /\ known' = {} /\ excused' = log /\ UNCHANGED <<opened, deletion>>
    BY <1>1, <1>7 DEF DeleteProject
  <2>2. MemoryTypeOK'
    BY <1>0, <2>1 DEF MemoryTypeOK
  <2>3. KnownIsBacked' /\ LogIsOpen' /\ LinksAreTrue'
    BY <1>0, <2>1 DEF KnownIsBacked, LogIsOpen, LinksAreTrue
  <2> QED
    BY <2>1, <2>2, <2>3, RequestKeeps
<1>8. CASE \E n : DeleteNode(n)
  <2>1. PICK n : DeleteNode(n)
    BY <1>8
  <2>2. /\ Calm /\ UNCHANGED <<log, queue, work, todo, attach, filled, reader, faults>>
        /\ known' \subseteq known /\ UNCHANGED <<opened, deletion, project, link, evidence, excused>>
    BY <1>1, <2>1 DEF DeleteNode
  <2>3. MemoryTypeOK'
    BY <1>0, <2>2 DEF MemoryTypeOK
  <2>4. KnownIsBacked' /\ LogIsOpen' /\ LinksAreTrue'
    BY <1>0, <2>2 DEF KnownIsBacked, LogIsOpen, LinksAreTrue
  <2>5. project' = "none" => \A w \in Workspaces : link'[w] = "none"
    BY <1>0, <2>2 DEF WithoutProject
  <2> QED
    BY <2>2, <2>3, <2>4, <2>5, RequestKeeps
<1>9. CASE \E w \in Workspaces : AttachManually(w)
  <2>1. PICK w \in Workspaces : AttachManually(w)
    BY <1>9
  <2>2. /\ Calm /\ UNCHANGED <<log, queue, work, todo, attach, filled, reader, faults>>
        /\ link' = [Swept EXCEPT ![w] = "active"]
        /\ project' = IF project = "none" THEN "active" ELSE Reactivated
        /\ UNCHANGED <<opened, deletion, evidence, known, excused>>
    BY <1>1, <2>1 DEF AttachManually
  <2>3. link' \in [Workspaces -> {"none", "active", "inactive"}] /\ link'[w] = "active"
    BY <1>3, <2>2
  <2>4. project' \in {"active", "archived"}
    BY <1>0, <2>2 DEF Reactivated, MemoryTypeOK
  <2>5. MemoryTypeOK'
    BY <1>0, <2>2, <2>3, <2>4 DEF MemoryTypeOK
  <2>6. KnownIsBacked' /\ LogIsOpen' /\ LinksAreTrue'
    BY <1>0, <2>2, <2>3, <2>4 DEF KnownIsBacked, LogIsOpen, LinksAreTrue
  <2> QED
    BY <2>2, <2>4, <2>5, <2>6, RequestKeeps
<1>10. CASE \E w \in Workspaces : Detach(w)
  <2>1. PICK w \in Workspaces : Detach(w)
    BY <1>10
  <2>2. /\ Calm /\ UNCHANGED <<log, queue, work, todo, attach, filled, reader, faults>>
        /\ link' = IF link[w] = "active" THEN [link EXCEPT ![w] = "inactive"] ELSE link
        /\ deletion' = [deletion EXCEPT ![w] = IF link[w] = "active" THEN "detach" ELSE "rows"]
        /\ deletion[w] \in {"none", "memory"} /\ UNCHANGED <<opened, project, evidence, known, excused>>
    BY <1>1, <2>1 DEF Detach
  <2>3. /\ link' \in [Workspaces -> {"none", "active", "inactive"}]
        /\ deletion' \in [Workspaces -> {"none", "detach", "memory", "rows"}]
        /\ \A v \in Workspaces : v # w => link'[v] = link[v] /\ deletion'[v] = deletion[v]
        /\ link[w] = "active" => link'[w] = "inactive" /\ deletion'[w] = "detach"
        /\ link[w] # "active" => link'[w] = link[w]
    BY <1>0, <2>2 DEF MemoryTypeOK
  <2>4. MemoryTypeOK'
    BY <1>0, <2>2, <2>3 DEF MemoryTypeOK
  <2>5. KnownIsBacked' /\ LogIsOpen'
    BY <1>0, <2>2 DEF KnownIsBacked, LogIsOpen
  <2>6. LinksAreTrue'
    <3>1. project' = "detached" => \A v \in Workspaces : link'[v] # "active" /\ attach'[v] # "link"
      BY <1>0, <2>2, <2>3 DEF LinksAreTrue
    <3>2. ASSUME project' = "active", faults' = 0
          PROVE  \E v \in Workspaces : link'[v] = "active" \/ attach'[v] = "link" \/ deletion'[v] = "detach"
      BY <1>0, <1>2, <2>2, <2>3, <3>2 DEF LinksAreTrue
    <3> QED
      BY <3>1, <3>2 DEF LinksAreTrue
  <2>7. project' = "none" => \A v \in Workspaces : link'[v] = "none"
    BY <1>0, <2>2, <2>3 DEF WithoutProject
  <2> QED
    BY <2>2, <2>4, <2>5, <2>6, <2>7, RequestKeeps
<1>11. CASE \E w \in Workspaces : Detached(w)
  <2>1. PICK w \in Workspaces : Detached(w)
    BY <1>11
  <2>2. /\ Calm /\ UNCHANGED <<log, queue, work, todo, attach, filled, reader, faults>>
        /\ project' = Left /\ deletion' = [deletion EXCEPT ![w] = "rows"]
        /\ deletion[w] = "detach" /\ UNCHANGED <<opened, link, evidence, known, excused>>
    BY <1>1, <2>1 DEF Detached
  <2>3. MemoryTypeOK'
    BY <1>0, <2>2 DEF MemoryTypeOK, Left
  <2>4. LogIsOpen'
    BY <1>0, <2>2 DEF LogIsOpen
  <2>5. LinksAreTrue'
    BY <1>0, <1>2, <2>2 DEF LinksAreTrue, Left, MemoryTypeOK
  <2>6. KnownIsBacked' /\ (project' = "none" => \A v \in Workspaces : link'[v] = "none")
    BY <1>0, <2>2 DEF KnownIsBacked, WithoutProject, Left
  <2> QED
    BY <2>2, <2>3, <2>4, <2>5, <2>6, RequestKeeps
<1>12. CASE \E w \in Workspaces : RemoveProvenance(w)
  <2>1. PICK w \in Workspaces : RemoveProvenance(w)
    BY <1>12
  <2>2. /\ Calm /\ UNCHANGED <<log, queue, work, todo, attach, filled, reader, faults>>
        /\ deletion' = [deletion EXCEPT ![w] = "rows"] /\ deletion[w] = "none" /\ opened' = opened
        /\ IF link[w] = "none"
           THEN UNCHANGED <<project, link, evidence, known, excused>>
           ELSE /\ link' = [link EXCEPT ![w] = "none"]
                /\ project' = IF project # "archived" /\ \A x \in Workspaces : link'[x] # "active" THEN "detached" ELSE project
                /\ evidence' = evidence \ Of(w) /\ known' = known \ Of(w) /\ excused' = excused \cup (log \cap Of(w))
    BY <1>1, <2>1 DEF RemoveProvenance
  <2>3. /\ deletion' \in [Workspaces -> {"none", "detach", "memory", "rows"}]
        /\ \A v \in Workspaces : deletion[v] = "detach" => deletion'[v] = "detach"
    BY <1>0, <2>2 DEF MemoryTypeOK
  <2>4. CASE link[w] = "none"
    <3>1. MemoryTypeOK'
      BY <1>0, <2>2, <2>3, <2>4 DEF MemoryTypeOK
    <3>2. KnownIsBacked' /\ LogIsOpen' /\ LinksAreTrue'
      BY <1>0, <2>2, <2>3, <2>4 DEF KnownIsBacked, LogIsOpen, LinksAreTrue
    <3>3. project' = "none" => \A v \in Workspaces : link'[v] = "none"
      BY <1>0, <2>2, <2>4 DEF WithoutProject
    <3> QED
      BY <2>2, <2>4, <3>1, <3>2, <3>3, RequestKeeps
  <2>5. CASE link[w] # "none"
    <3>1. /\ link' \in [Workspaces -> {"none", "active", "inactive"}] /\ link'[w] = "none"
          /\ \A v \in Workspaces : v # w => link'[v] = link[v]
      BY <1>0, <2>2, <2>5 DEF MemoryTypeOK
    <3>2. project # "none" /\ project' # "none"
      BY <1>0, <2>2, <2>5 DEF WithoutProject
    <3>3. MemoryTypeOK'
      <4>1. /\ evidence' \subseteq Events /\ known' \subseteq Events /\ excused' \subseteq Events
            /\ project' \in {"none", "active", "detached", "archived"}
        BY <1>0, <2>2, <2>5 DEF MemoryTypeOK
      <4> QED
        BY <1>0, <2>2, <2>3, <3>1, <4>1 DEF MemoryTypeOK
    <3>4. KnownIsBacked' /\ LogIsOpen'
      BY <1>0, <2>2, <2>5, <3>2 DEF KnownIsBacked, LogIsOpen
    <3>5. LinksAreTrue'
      <4>1. project' = "detached" => \A v \in Workspaces : link'[v] # "active" /\ attach'[v] # "link"
        BY <1>0, <1>2, <2>2, <2>5, <3>1 DEF LinksAreTrue
      <4>2. project' = "active" => \E v \in Workspaces : link'[v] = "active"
        BY <2>2, <2>5
      <4> QED
        BY <4>1, <4>2 DEF LinksAreTrue
    <3>6. \A e \in log' : e \in evidence \cup excused => e \in evidence' \cup excused'
      BY <2>2, <2>5
    <3> QED
      BY <2>2, <3>2, <3>3, <3>4, <3>5, <3>6, RequestKeeps
  <2> QED
    BY <2>4, <2>5
<1>13. CASE \E w \in Workspaces : DeleteRows(w)
  <2>1. PICK w \in Workspaces : DeleteRows(w)
    BY <1>13
  <2>2. /\ Calm /\ opened' = opened \ {w} /\ log' = log \ Of(w)
        /\ UNCHANGED <<deletion, project, link, evidence, known, queue, work, todo, attach, filled, reader, excused, faults>>
    BY <2>1 DEF DeleteRows
  <2>3. MemoryTypeOK'
    BY <1>0, <2>2 DEF MemoryTypeOK
  <2>4. KnownIsBacked' /\ LogIsOpen' /\ LinksAreTrue'
    BY <1>0, <2>2 DEF KnownIsBacked, LogIsOpen, LinksAreTrue, Of, MemoryTypeOK
  <2>5. log' \subseteq log /\ (project' = "none" => \A v \in Workspaces : link'[v] = "none")
    BY <1>0, <2>2 DEF WithoutProject
  <2> QED
    BY <2>2, <2>3, <2>4, <2>5, RequestKeeps
<1> QED
  BY <1>4, <1>5, <1>6, <1>7, <1>8, <1>9, <1>10, <1>11, <1>12, <1>13

(* A crash forgets the chains and keeps the tables.                        *)
LEMMA DieKeepsMemoryInv ==
  ASSUME MemoryInv, Die
  PROVE  MemoryInv'
<1> USE MemoryAssumption DEF At, Filling, Rest
<1>1. /\ faults' = faults + 1 /\ faults < MaxFaults
      /\ deletion' = [w \in Workspaces |-> IF deletion[w] = "detach" THEN "memory" ELSE deletion[w]]
      /\ queue' = <<>> /\ work' = [f \in Flows |-> Rest] /\ todo' = [w \in Workspaces |-> {}]
      /\ attach' = [w \in Workspaces |-> "none"] /\ filled' = {} /\ reader' = NoReader /\ excused' = {}
      /\ UNCHANGED <<opened, log, project, link, evidence, known>>
  BY DEF Die
<1>2. MemoryTypeOK /\ faults \in 0 .. MaxFaults
  BY DEF MemoryInv, MemoryTypeOK
<1>3. faults' \in 0 .. MaxFaults /\ faults' # 0
  BY <1>1, <1>2
<1>4. work' \in [Flows -> [at : Stages, e : Events \cup {0}]]
  BY <1>1 DEF Stages
<1>5. reader' \in [at : {"idle", "attach", "fill"}, w : Flows]
  BY <1>1 DEF NoReader, Flows
<1>6. queue' \in Seq(Events) /\ Len(queue') <= QueueLimit
  BY <1>1
<1>7. MemoryTypeOK'
  BY <1>1, <1>2, <1>3, <1>4, <1>5, <1>6 DEF MemoryTypeOK
<1>8. KnownIsBacked' /\ LogIsOpen' /\ LinksAreTrue'
  BY <1>1, <1>3 DEF MemoryInv, KnownIsBacked, LogIsOpen, LinksAreTrue
<1>9. NothingIsForgotten'
  BY <1>1 DEF NothingIsForgotten
<1>10. \A f \in Flows : work'[f] = Rest
  BY <1>1
<1>11. "live" \in Flows /\ \A w \in Workspaces : w \in Flows
  BY DEF Flows
<1>12. ChainsAreTrue' /\ FillCovers' /\ WithoutProject'
  BY <1>1, <1>10, <1>11 DEF MemoryInv, ChainsAreTrue, FillCovers, WithoutProject
<1> QED
  BY <1>7, <1>8, <1>9, <1>12 DEF MemoryInv

(* The invariant holds when the gateway first starts...                    *)
LEMMA InitMemoryInv == MemoryInit => MemoryInv
<1> SUFFICES ASSUME MemoryInit
             PROVE  MemoryInv
  OBVIOUS
<1> USE MemoryAssumption DEF MemoryInit, Rest, At, Filling
<1>1. MemoryTypeOK
  BY DEF MemoryTypeOK, Stages, NoReader, Flows
<1>2. KnownIsBacked /\ NothingIsForgotten /\ LogIsOpen /\ WithoutProject /\ LinksAreTrue
  BY DEF KnownIsBacked, NothingIsForgotten, LogIsOpen, WithoutProject, LinksAreTrue, Flows
<1>3. ChainsAreTrue /\ FillCovers
  BY DEF ChainsAreTrue, FillCovers, Flows
<1> QED
  BY <1>1, <1>2, <1>3 DEF MemoryInv

(* ... and every step preserves it.                                        *)
LEMMA NextMemoryInv == MemoryInv /\ [MemoryNext]_memoryVars => MemoryInv'
<1> SUFFICES ASSUME MemoryInv, [MemoryNext]_memoryVars
             PROVE  MemoryInv'
  OBVIOUS
<1>1. CASE \E e \in Events : Emit(e)
  BY <1>1, LiveKeepsMemoryInv
<1>2. CASE FlowStep
  <2>1. CASE LiveResolve
    BY <2>1, LiveKeepsMemoryInv
  <2>2. CASE \E f \in Flows : EventStep(f)
    BY <2>2, EventKeepsMemoryInv
  <2>3. CASE \E w \in Workspaces : FillReads(w) \/ FillTakes(w) \/ FillDone(w)
    BY <2>3, FillKeepsMemoryInv
  <2>4. CASE \E w \in Workspaces : AttachProject(w) \/ AttachCreate(w) \/ AttachLink(w)
    BY <2>4, AttachKeepsMemoryInv
  <2> QED
    BY <1>2, <2>1, <2>2, <2>3, <2>4 DEF FlowStep
<1>3. CASE UserStep
  <2>1. CASE \E w \in Workspaces : Read(w)
    BY <2>1, AttachKeepsMemoryInv
  <2>2. CASE ~\E w \in Workspaces : Read(w)
    BY <1>3, <2>2, UserKeepsMemoryInv DEF UserStep
  <2> QED
    BY <2>1, <2>2
<1>4. CASE Die
  BY <1>4, DieKeepsMemoryInv
<1>5. CASE UNCHANGED memoryVars
  BY <1>5 DEF memoryVars, stored, MemoryInv, MemoryTypeOK, KnownIsBacked, NothingIsForgotten, LogIsOpen, ChainsAreTrue,
     WithoutProject, FillCovers, LinksAreTrue, Accounted, Pending, At, Filling
<1> QED
  BY <1>1, <1>2, <1>3, <1>4, <1>5 DEF MemoryNext

(* At every moment, for any number of workspaces and whatever crashes and  *)
(* throws: the chains of the memory work on open, linked workspaces, and a *)
(* backfill has at hand what nobody else accounts for.                     *)
THEOREM MemoryInvariant == MemorySpec => []MemoryInv
BY InitMemoryInv, NextMemoryInv, PTL DEF MemorySpec

(* Every event a node quotes has its evidence, the status of the project   *)
(* is that of its links, and an event of a backfilled workspace is in the  *)
(* ledger, on its way or given up.                                         *)
THEOREM MemoryIsSafe == MemorySpec => []MemorySafety
<1>1. MemoryInv => MemorySafety
  BY DEF MemoryInv, MemorySafety, StatusIsTrue, LinksAreTrue, Calm
<1> QED
  BY <1>1, MemoryInvariant, PTL
=============================================================================
