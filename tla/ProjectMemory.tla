---------------------------- MODULE ProjectMemory ----------------------------
(***************************************************************************)
(* The long-term memory of one repository (project-memory.ts and           *)
(* project-memory-v2.ts): the project row with its links to the workspaces *)
(* opened on that repository, the evidence ledger and the knowledge drawn  *)
(* from it.  Events reach the ledger twice over: live, through a bounded   *)
(* queue drained one at a time, and by the backfill of a workspace, which  *)
(* the first use of its memory in a process reads from the persisted       *)
(* events.  Both are chains of database statements, each awaited, that     *)
(* interleave with each other and with whoever emits; requests of the user *)
(* begin only when all chains are done, because a statement never leaves   *)
(* the process.  One mission per workspace; what a node says is abstract.  *)
(***************************************************************************)
EXTENDS Naturals, Sequences, FiniteSets

CONSTANTS Workspaces,       \* workspaces opened on the same repository
          Events,           \* salient events, numbered in order of creation
          WorkspaceOf,      \* Events -> Workspaces
          NodeOf,           \* Events -> the node an event is curated into
          Routine,          \* events that are kept as evidence only
          QueueLimit,       \* LIVE_CURATOR_QUEUE_LIMIT
          Closing,          \* workspaces that may be deleted
          MaxFaults         \* crashes of the gateway and statements that throw

ASSUME MemoryAssumption ==
  /\ Events \subseteq Nat \ {0} /\ IsFiniteSet(Events) /\ Routine \subseteq Events
  /\ WorkspaceOf \in [Events -> Workspaces] /\ "live" \notin Workspaces
  /\ QueueLimit \in Nat \ {0} /\ Closing \subseteq Workspaces /\ MaxFaults \in Nat

VARIABLES
  opened,      \* workspaces that have a row, and with it their mission
  deletion,    \* [Workspaces -> the stage of the workspace's deletion]
  log,         \* events in mission_events
  project,     \* status of the row in projects, which has a unique fingerprint
  link,        \* [Workspaces -> row in project_workspace_links]
  evidence,    \* events with a row in memory_evidence
  known,       \* events in the provenance of a node
  queue,       \* liveCuratorQueue
  work,        \* [the drain ("live") and each backfill -> the event at hand]
  todo,        \* [Workspaces -> events its backfill has read and not yet taken]
  attach,      \* attachmentPromises: [Workspaces -> stage]
  filled,      \* backfilledWorkspaceIds
  reader,      \* a recall or a memory view that waits: [at, w]
  excused,     \* history: events this process has given up, or was told to forget
  faults       \* history: crashes and statements that threw

stored     == <<opened, deletion, log, project, link, evidence, known>>
memoryVars == <<stored, queue, work, todo, attach, filled, reader, excused, faults>>

Flows     == {"live"} \cup Workspaces
Stages    == {"idle", "resolve", "attach", "fill", "read", "next", "insert", "curate"}
Rest      == [at |-> "idle", e |-> 0]
NoReader  == [at |-> "idle", w |-> "live"]
At(f, a)  == work[f].at = a
Of(w)     == {e \in Events : WorkspaceOf[e] = w}
Filling(w) == ~At(w, "idle")
Linked    == {w \in opened : link[w] = "active"}
Calm      == /\ \A f \in Flows : At(f, "idle")
             /\ reader = NoReader /\ \A w \in Workspaces : attach[w] = "none"

MemoryTypeOK ==
  /\ opened \subseteq Workspaces /\ log \subseteq Events /\ evidence \subseteq Events /\ known \subseteq Events
  /\ deletion \in [Workspaces -> {"none", "detach", "memory", "rows"}]
  /\ project \in {"none", "active", "detached", "archived"}
  /\ link \in [Workspaces -> {"none", "active", "inactive"}]
  /\ queue \in Seq(Events) /\ Len(queue) <= QueueLimit
  /\ work \in [Flows -> [at : Stages, e : Events \cup {0}]]
  /\ todo \in [Workspaces -> SUBSET Events]
  /\ attach \in [Workspaces -> {"none", "project", "create", "link", "fill"}]
  /\ filled \subseteq Workspaces /\ reader \in [at : {"idle", "attach", "fill"}, w : Flows]
  /\ excused \subseteq Events /\ faults \in 0 .. MaxFaults

MemoryInit ==
  /\ opened = Workspaces /\ log = {} /\ known = {} /\ project = "none"
  /\ deletion = [w \in Workspaces |-> "none"] /\ link = [w \in Workspaces |-> "none"]
  /\ evidence = {} /\ queue = <<>> /\ work = [f \in Flows |-> Rest] /\ todo = [w \in Workspaces |-> {}]
  /\ attach = [w \in Workspaces |-> "none"] /\ filled = {} /\ reader = NoReader
  /\ excused = {} /\ faults = 0

-----------------------------------------------------------------------------
(* Promises and the flows that wait for them.                              *)

(* Mutated form: a flow always waits for the backfill it comes upon. *)
AnswerOfBackfill(w) ==
  IF w \notin opened THEN "null"
  ELSE IF link[w] = "none" THEN "attach"
  ELSE IF w \in filled THEN "check" ELSE "fill"

(* resolveProjectForMission, up to what it has to wait for.  A flow that   *)
(* comes upon a running backfill goes on without waiting for it.           *)
Answer(w) ==
  IF w \notin opened THEN "null"
  ELSE IF link[w] = "none" THEN "attach"
  ELSE IF w \in filled \/ Filling(w) THEN "check" ELSE "fill"

AttachStarted(w) == IF Answer(w) = "attach" /\ attach[w] = "none" THEN [attach EXCEPT ![w] = "project"] ELSE attach
FillStarted(w)   == IF Answer(w) = "fill" /\ ~Filling(w) THEN [work EXCEPT ![w].at = "read"] ELSE work

(* Nothing is written for an archived project, nor for an event that has   *)
(* its evidence, whether it was curated or not.                            *)
Wanted(e)   == project # "archived" /\ e \notin evidence
Withheld(e) == IF project = "archived" /\ e \notin evidence THEN {e} ELSE {}

(* The drain goes on with the next event.                                  *)
LiveTakes == IF queue = <<>> THEN Rest ELSE [at |-> "resolve", e |-> Head(queue)]
QueueLeft == IF queue = <<>> THEN queue ELSE Tail(queue)

(* The promises of w in the stages have settled: the reader gets its       *)
(* answer, the drain the project, or an error, which it only reports.      *)
Waits(w, stages) == work["live"].at \in stages /\ WorkspaceOf[work["live"].e] = w
Settle(w, stages, ok, next) ==
  LET e     == work["live"].e
      over  == Waits(w, stages) /\ ~(ok /\ Wanted(e))
  IN  /\ work' = [next EXCEPT !["live"] = IF over THEN LiveTakes
                                          ELSE IF Waits(w, stages) THEN [@ EXCEPT !.at = "insert"] ELSE @]
      /\ queue' = IF over THEN QueueLeft ELSE queue
      /\ excused' = IF over THEN excused \cup (IF ok THEN Withheld(e) ELSE {e}) ELSE excused
      /\ reader' = IF reader.at \in stages /\ reader.w = w THEN NoReader ELSE reader

AttachEnds(w, ok) == Settle(w, {"attach"}, ok, work) /\ attach' = [attach EXCEPT ![w] = "none"]

(* ensureWorkspaceBackfill; the attachment waits for it too.               *)
FillEnds(w, ok) ==
  /\ filled' = IF ok THEN filled \cup {w} ELSE filled
  /\ todo' = [todo EXCEPT ![w] = {}]
  /\ attach' = IF attach[w] = "fill" THEN [attach EXCEPT ![w] = "none"] ELSE attach
  /\ Settle(w, IF attach[w] = "fill" THEN {"attach", "fill"} ELSE {"fill"}, ok, [work EXCEPT ![w] = Rest])

-----------------------------------------------------------------------------
(* The live queue.                                                         *)

(* An event is emitted, queued if there is room, and persisted.            *)
Emit(e) ==
  /\ WorkspaceOf[e] \in opened /\ e \notin log
  /\ \A x \in Events : x < e /\ WorkspaceOf[x] \in opened => x \in log
  /\ log' = log \cup {e}
  /\ IF At("live", "idle")
     THEN work' = [work EXCEPT !["live"] = [at |-> "resolve", e |-> e]] /\ UNCHANGED <<queue, excused>>
     ELSE IF Len(queue) < QueueLimit
     THEN queue' = Append(queue, e) /\ UNCHANGED <<work, excused>>
     ELSE excused' = excused \cup {e} /\ UNCHANGED <<queue, work>>
  /\ UNCHANGED <<opened, deletion, project, link, evidence, known, todo, attach, filled, reader, faults>>

LiveResolve ==
  LET e == work["live"].e
      w == WorkspaceOf[e]
      found == Answer(w) = "check"
  IN  /\ At("live", "resolve")
      /\ attach' = AttachStarted(w)
      /\ IF Answer(w) = "null" \/ (found /\ ~Wanted(e))
         THEN work' = [work EXCEPT !["live"] = LiveTakes] /\ queue' = QueueLeft
         ELSE /\ work' = [FillStarted(w) EXCEPT !["live"].at = IF found THEN "insert" ELSE Answer(w)]
              /\ UNCHANGED queue
      /\ excused' = IF found THEN excused \cup Withheld(e) ELSE excused
      /\ UNCHANGED <<stored, todo, filled, reader, faults>>

-----------------------------------------------------------------------------
(* One event of the drain or of a backfill, ingestEvent.                   *)

EventDone(f) ==
  IF f = "live" THEN work' = [work EXCEPT !["live"] = LiveTakes] /\ queue' = QueueLeft
                ELSE work' = [work EXCEPT ![f] = [at |-> "next", e |-> 0]] /\ UNCHANGED queue

(* An event cannot be recorded: the drain reports it, a backfill ends.     *)
Rejects(f) ==
  IF f = "live"
  THEN /\ excused' = excused \cup {work[f].e}
       /\ EventDone(f) /\ UNCHANGED <<todo, attach, filled, reader>>
  ELSE FillEnds(f, FALSE)

(* The unique index refuses a second row for the same event.               *)
InsertEvidence(f) ==
  LET e == work[f].e
  IN  /\ At(f, "insert")
      /\ \/ /\ e \notin evidence /\ evidence' = evidence \cup {e}
            /\ work' = [work EXCEPT ![f].at = "curate"]
            /\ UNCHANGED <<queue, todo, attach, filled, reader, excused>>
         \/ e \in evidence /\ UNCHANGED evidence /\ Rejects(f)
      /\ UNCHANGED <<opened, deletion, log, project, link, known, faults>>

Curated(e) == IF e \in Routine THEN known ELSE known \cup {e}

(* The event enters its node, and its row is marked as curated, which      *)
(* nothing reads.                                                          *)
Curate(f) ==
  /\ At(f, "curate")
  /\ known' = Curated(work[f].e)
  /\ EventDone(f)
  /\ UNCHANGED <<opened, deletion, log, project, link, evidence, todo, attach, filled, reader, excused, faults>>

(* A statement throws, that of a curation before or after the node is      *)
(* written.                                                                *)
Throws(f) ==
  /\ faults < MaxFaults /\ faults' = faults + 1
  /\ \/ At(f, "insert") /\ UNCHANGED known
     \/ At(f, "curate") /\ known' \in {known, Curated(work[f].e)}
  /\ Rejects(f)
  /\ UNCHANGED <<opened, deletion, log, project, link, evidence>>

-----------------------------------------------------------------------------
(* The backfill of a workspace.                                            *)

FillReads(w) ==
  /\ At(w, "read")
  /\ todo' = [todo EXCEPT ![w] = log \cap Of(w)]
  /\ work' = [work EXCEPT ![w].at = "next"]
  /\ UNCHANGED <<stored, queue, attach, filled, reader, excused, faults>>

(* The next event in order of creation.  Its own resolve finds the backfill*)
(* in flight and does not wait for it.                                     *)
FillTakes(w) ==
  /\ At(w, "next")
  /\ \E e \in todo[w] :
       /\ \A x \in todo[w] : e <= x
       /\ todo' = [todo EXCEPT ![w] = @ \ {e}]
       /\ IF Answer(w) = "check" /\ ~Wanted(e)
          THEN UNCHANGED work
          ELSE work' = [work EXCEPT ![w] = [at |-> IF Answer(w) = "check" THEN "insert" ELSE Answer(w), e |-> e]]
       /\ excused' = excused \cup Withheld(e)
  /\ UNCHANGED <<stored, queue, attach, filled, reader, faults>>

FillDone(w) ==
  /\ At(w, "next") /\ todo[w] = {} /\ FillEnds(w, TRUE)
  /\ UNCHANGED <<stored, faults>>

-----------------------------------------------------------------------------
(* The attachment of a workspace to the project of its repository.         *)

Reactivated == IF project = "detached" THEN "active" ELSE project

(* Links of workspaces that are gone are ended by whoever reads a project. *)
Swept == [w \in Workspaces |-> IF link[w] = "active" /\ w \notin opened THEN "inactive" ELSE link[w]]

AttachProject(w) ==
  /\ attach[w] = "project"
  /\ IF project = "none"
     THEN attach' = [attach EXCEPT ![w] = "create"] /\ UNCHANGED project
     ELSE attach' = [attach EXCEPT ![w] = "link"] /\ project' = Reactivated
  /\ UNCHANGED <<opened, deletion, log, link, evidence, known, queue, work, todo, filled, reader, excused, faults>>

(* Another workspace of the repository may have created the project first: *)
(* the unique fingerprint refuses a second one.                            *)
AttachCreate(w) ==
  /\ attach[w] = "create"
  /\ \/ /\ project = "none" /\ project' = "active" /\ attach' = [attach EXCEPT ![w] = "link"]
        /\ UNCHANGED <<queue, work, reader, excused>>
     \/ project # "none" /\ UNCHANGED project /\ AttachEnds(w, FALSE)
  /\ UNCHANGED <<opened, deletion, log, link, evidence, known, todo, filled, faults>>

AttachLink(w) ==
  /\ attach[w] = "link"
  /\ link' = [Swept EXCEPT ![w] = "active"]
  /\ IF w \in filled
     THEN AttachEnds(w, TRUE)
     ELSE /\ attach' = [attach EXCEPT ![w] = "fill"] /\ work' = [work EXCEPT ![w].at = "read"]
          /\ UNCHANGED <<queue, reader, excused>>
  /\ UNCHANGED <<opened, deletion, log, project, evidence, known, todo, filled, faults>>

(* A supervisor prompt recalls the memory of its mission, or a user looks  *)
(* at it.                                                                  *)
Read(w) ==
  /\ reader = NoReader /\ Answer(w) \in {"attach", "fill"}
  /\ reader' = [at |-> Answer(w), w |-> w]
  /\ attach' = AttachStarted(w) /\ work' = FillStarted(w)
  /\ UNCHANGED <<stored, queue, todo, filled, excused, faults>>

-----------------------------------------------------------------------------
(* Requests of the user.                                                   *)

Request == Calm /\ UNCHANGED <<log, queue, work, todo, attach, filled, reader, faults>>

(* Mutated form: the manual attachment counts as a backfill. *)
AttachManuallyFilled(w) ==
  /\ Calm /\ w \in opened /\ link[w] # "active"
  /\ project' = IF project = "none" THEN "active" ELSE Reactivated
  /\ link' = [Swept EXCEPT ![w] = "active"] /\ filled' = filled \cup {w}
  /\ UNCHANGED <<opened, deletion, log, evidence, known, queue, work, todo, attach, reader, excused, faults>>

(* A manual conversation attaches its workspace without a backfill.        *)
AttachManually(w) ==
  /\ Request /\ w \in opened /\ link[w] # "active"
  /\ project' = IF project = "none" THEN "active" ELSE Reactivated
  /\ link' = [Swept EXCEPT ![w] = "active"]
  /\ UNCHANGED <<opened, deletion, evidence, known, excused>>

(* Whoever looks at the project sweeps its links.                          *)
Look ==
  /\ Request /\ Swept # link
  /\ link' = Swept
  /\ project' = IF Linked = {} /\ project # "archived" THEN "detached" ELSE project
  /\ UNCHANGED <<opened, deletion, evidence, known, excused>>

Archive ==
  /\ Request /\ project \notin {"none", "archived"}
  /\ project' = "archived" /\ link' = Swept
  /\ UNCHANGED <<opened, deletion, evidence, known, excused>>

RestoreProject ==
  /\ Request /\ project = "archived"
  /\ project' = IF Linked = {} THEN "detached" ELSE "active"
  /\ link' = Swept
  /\ UNCHANGED <<opened, deletion, evidence, known, excused>>

DeleteNode(n) ==
  /\ Request
  /\ \E e \in known : NodeOf[e] = n
  /\ known' = {e \in known : NodeOf[e] # n}
  /\ UNCHANGED <<opened, deletion, project, link, evidence, excused>>

(* The memory of a project that no open workspace uses is deleted, with    *)
(* everything that refers to it.                                           *)
DeleteProject ==
  /\ Request /\ project # "none" /\ Linked = {}
  /\ project' = "none" /\ link' = [w \in Workspaces |-> "none"]
  /\ evidence' = {} /\ known' = {} /\ excused' = log
  /\ UNCHANGED <<opened, deletion>>

(* The memory phase of a workspace's deletion: the backup is kept, and the *)
(* project left once its last link is gone...                              *)
Detach(w) ==
  /\ Request /\ w \in opened \cap Closing /\ deletion[w] \in {"none", "memory"}
  /\ link' = IF link[w] = "active" THEN [link EXCEPT ![w] = "inactive"] ELSE link
  /\ deletion' = [deletion EXCEPT ![w] = IF link[w] = "active" THEN "detach" ELSE "rows"]
  /\ UNCHANGED <<opened, project, evidence, known, excused>>

Left == IF project # "archived" /\ \A w \in Workspaces : link[w] # "active" THEN "detached" ELSE project

Detached(w) ==
  /\ Request /\ deletion[w] = "detach"
  /\ project' = Left
  /\ deletion' = [deletion EXCEPT ![w] = "rows"]
  /\ UNCHANGED <<opened, link, evidence, known, excused>>

(* ... or, in one transaction, what only this workspace has put in is      *)
(* removed.                                                                *)
RemoveProvenance(w) ==
  /\ Request /\ w \in opened \cap Closing /\ deletion[w] = "none"
  /\ IF link[w] = "none"
     THEN UNCHANGED <<project, link, evidence, known, excused>>
     ELSE /\ link' = [link EXCEPT ![w] = "none"]
          /\ project' = IF project # "archived" /\ \A x \in Workspaces : link'[x] # "active" THEN "detached" ELSE project
          /\ evidence' = evidence \ Of(w) /\ known' = known \ Of(w) /\ excused' = excused \cup (log \cap Of(w))
  /\ deletion' = [deletion EXCEPT ![w] = "rows"]
  /\ UNCHANGED opened

(* The relational phase: the rows of the workspace, its mission and its    *)
(* events.                                                                 *)
DeleteRows(w) ==
  /\ Calm /\ deletion[w] = "rows" /\ w \in opened
  /\ opened' = opened \ {w} /\ log' = log \ Of(w)
  /\ UNCHANGED <<deletion, project, link, evidence, known, queue, work, todo, attach, filled, reader, excused, faults>>

(* The gateway dies; the tables stay, and an interrupted phase is repeated.*)
Die ==
  /\ faults < MaxFaults /\ faults' = faults + 1
  /\ deletion' = [w \in Workspaces |-> IF deletion[w] = "detach" THEN "memory" ELSE deletion[w]]
  /\ queue' = <<>> /\ work' = [f \in Flows |-> Rest] /\ todo' = [w \in Workspaces |-> {}]
  /\ attach' = [w \in Workspaces |-> "none"] /\ filled' = {} /\ reader' = NoReader /\ excused' = {}
  /\ UNCHANGED <<opened, log, project, link, evidence, known>>

-----------------------------------------------------------------------------
EventStep(f) == InsertEvidence(f) \/ Curate(f) \/ Throws(f)
FlowStep == \/ LiveResolve
            \/ \E f \in Flows : EventStep(f)
            \/ \E w \in Workspaces : \/ FillReads(w) \/ FillTakes(w) \/ FillDone(w)
                                     \/ AttachProject(w) \/ AttachCreate(w) \/ AttachLink(w)
UserStep == \/ Look \/ Archive \/ RestoreProject \/ DeleteProject
            \/ \E e \in Events : DeleteNode(NodeOf[e])
            \/ \E w \in Workspaces : \/ Read(w) \/ AttachManually(w)
                                     \/ Detach(w) \/ Detached(w) \/ RemoveProvenance(w) \/ DeleteRows(w)
MemoryNext == (\E e \in Events : Emit(e)) \/ FlowStep \/ UserStep \/ Die

MemorySpec == MemoryInit /\ [][MemoryNext]_memoryVars /\ WF_memoryVars(FlowStep)

-----------------------------------------------------------------------------
(* Properties.                                                             *)

(* Knowledge can be traced: every event a node quotes has its evidence,    *)
(* and without a project nothing is left.                                  *)
KnownIsBacked ==
  known \subseteq evidence /\ (project = "none" => evidence = {})

(* At rest the status of the project agrees with its links, unless a crash *)
(* has interrupted an attachment or a detachment.                          *)
StatusIsTrue ==
  Calm /\ (\A w \in Workspaces : deletion[w] # "detach") =>
    /\ project = "detached" => \A w \in Workspaces : link[w] # "active"
    /\ project = "active" /\ faults = 0 => \E w \in Workspaces : link[w] = "active"

Pending(e) == work["live"].e = e \/ \E i \in DOMAIN queue : queue[i] = e

Accounted(e) == e \in evidence \/ Pending(e) \/ e \in excused

(* What has been said in a workspace whose history was backfilled in this  *)
(* process is in the ledger, or on its way, or has been given up openly.   *)
NothingIsForgotten == \A e \in log : WorkspaceOf[e] \in filled => Accounted(e)

MemorySafety == MemoryTypeOK /\ KnownIsBacked /\ StatusIsTrue /\ NothingIsForgotten

(* The inductive strengthening of the invariants above.  The events of the *)
(* log belong to open workspaces; the drain rests only when its queue is   *)
(* empty; chains work on open workspaces that are linked, and without a    *)
(* project there are neither links nor chains that write; a backfill still *)
(* has to take, or has at hand, whatever it has read and nobody accounts   *)
(* for; and a project is detached only when its last link is gone.         *)
LogIsOpen == \A e \in log : WorkspaceOf[e] \in opened

ChainsAreTrue ==
  /\ IF At("live", "idle") THEN work["live"] = Rest /\ queue = <<>> ELSE work["live"].e \in Events
  /\ \A f \in Flows :
       /\ At(f, "insert") => work[f].e \in Events
       /\ At(f, "curate") => work[f].e \in evidence
  /\ \A w \in Workspaces :
       /\ work[w].at \notin {"resolve", "attach", "fill"}
       /\ Filling(w) => w \in opened /\ link[w] # "none"
       /\ attach[w] # "none" => w \in opened

WithoutProject == project = "none" =>
  /\ \A w \in Workspaces : link[w] = "none" /\ attach[w] \notin {"link", "fill"}
  /\ work["live"].at \notin {"insert", "curate"}

FillCovers == \A w \in Workspaces, e \in log :
  WorkspaceOf[e] = w /\ work[w].at \in {"next", "insert", "curate"} =>
    Accounted(e) \/ e \in todo[w] \/ (At(w, "insert") /\ work[w].e = e)

LinksAreTrue ==
  /\ project = "detached" => \A w \in Workspaces : link[w] # "active" /\ attach[w] # "link"
  /\ project = "active" /\ faults = 0 =>
       \E w \in Workspaces : link[w] = "active" \/ attach[w] = "link" \/ deletion[w] = "detach"

MemoryInv ==
  /\ MemoryTypeOK /\ KnownIsBacked /\ NothingIsForgotten
  /\ LogIsOpen /\ ChainsAreTrue /\ WithoutProject /\ FillCovers /\ LinksAreTrue

(* No chain waits for itself or for another that waits: all of them end.   *)
MemoryAnswers == []<>Calm

=============================================================================
