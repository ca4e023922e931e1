---------------------------- MODULE Durable_proofs ----------------------------
(***************************************************************************)
(* Proofs about the small components that share tables, repositories and   *)
(* directories: the leases of a resource, the deletion of a project or a   *)
(* mission, the publication of a new project, the registry of agents, the  *)
(* questions to the user and the merges into the user's repository.  Each  *)
(* has an inductive invariant of its own, for every number of processes,   *)
(* phases, agents, keys and files.                                         *)
(* At the end, all components that MCDurable puts side by side: each keeps *)
(* its promises whatever the others do.                                    *)
(***************************************************************************)
EXTENDS MCDurable, ApprovalOutbox_proofs, ApplyVerification_proofs, FiniteSetTheorems, WellFoundedInduction, TLAPS

-----------------------------------------------------------------------------
(* ResourceLeases.                                                         *)

(* The requests of an agent move on within their type. *)
LEMMA AsksTyped ==
  ASSUME LeaseTypeOK, NEW a \in Holders
  PROVE  /\ Answer(a) => asks' \in [Holders -> [kind : {"none", "reserve", "heartbeat"},
              at : {"none", "cleanup", "select", "insert", "update"}, age : 0 .. MaxAge]]
         /\ \A stage \in {"select", "insert", "update"} :
              Proceed(a, stage) => asks' \in [Holders -> [kind : {"none", "reserve", "heartbeat"},
                at : {"none", "cleanup", "select", "insert", "update"}, age : 0 .. MaxAge]]
BY LeaseAssumption DEF LeaseTypeOK, Answer, Proceed, NoAsk

(* Every statement and every tick of the clock keeps a belief backed. *)
LEMMA NextLeaseInv == LeaseInv /\ [LeaseNext]_leaseVars => LeaseInv'
<1> SUFFICES ASSUME LeaseInv, [LeaseNext]_leaseVars
             PROVE  LeaseInv'
  OBVIOUS
<1> USE LeaseAssumption DEF LeaseInv, LeaseTypeOK, BeliefIsBacked, Held, NoLease, Tell
<1>1. ASSUME NEW a \in Holders, NEW kind \in {"reserve", "heartbeat"}, Ask(a, kind)
      PROVE  LeaseInv'
  BY <1>1 DEF Ask
<1>2. ASSUME NEW a \in Holders, CleanUp(a)
      PROVE  LeaseInv'
  BY <1>2, AsksTyped DEF CleanUp
<1>3. ASSUME NEW a \in Holders, Select(a)
      PROVE  LeaseInv'
  BY <1>3, AsksTyped DEF Select, Unexpired
<1>4. ASSUME NEW a \in Holders, Insert(a)
      PROVE  LeaseInv'
  <2>1. Held \/ (lease'.left \in 1 .. Ttl /\ \A b \in Holders : belief[b] = 0)
    BY <1>4 DEF Insert
  <2>2. LeaseTypeOK'
    BY <1>4, <2>1, AsksTyped DEF Insert
  <2>3. BeliefIsBacked'
    BY <1>4, <2>1 DEF Insert
  <2> QED
    BY <2>2, <2>3
<1>5. ASSUME NEW a \in Holders, Update(a)
      PROVE  LeaseInv'
  <2>1. CASE lease.holder = a /\ Unexpired(a)
    <3>1. /\ lease' = [holder |-> a, left |-> Ttl - asks[a].age] /\ lease'.left \in 1 .. Ttl
          /\ belief' = [belief EXCEPT ![a] = Ttl - asks[a].age] /\ silent' = silent
      BY <1>5, <2>1 DEF Update
    <3>2. \A b \in Holders \ {a} : belief[b] = 0
      BY <2>1
    <3> QED
      BY <1>5, AsksTyped, <3>1, <3>2 DEF Update
  <2>2. CASE ~(lease.holder = a /\ Unexpired(a))
    BY <1>5, AsksTyped, <2>2 DEF Update
  <2> QED
    BY <2>1, <2>2
<1>6. ASSUME NEW a \in Holders, Release(a) \/ FallSilent(a)
      PROVE  LeaseInv'
  BY <1>6 DEF Release, FallSilent
<1>7. CASE LeaseTick
  BY <1>7, SMTT(30) DEF LeaseTick, NoAsk
<1>8. CASE UNCHANGED leaseVars
  BY <1>8 DEF leaseVars
<1> QED
  BY <1>1, <1>2, <1>3, <1>4, <1>5, <1>6, <1>7, <1>8 DEF LeaseNext, Statement

(* No row and no request. *)
LEMMA InitLeaseInv == LeaseInit => LeaseInv
BY LeaseAssumption DEF LeaseInit, LeaseInv, LeaseTypeOK, BeliefIsBacked, NoLease, NoAsk

(* A lease that is believed in is a lease that holds, so that two who      *)
(* believe are one.                                                        *)
LEMMA LeaseInvIsSafe == LeaseInv => LeaseSafety
BY DEF LeaseInv, LeaseTypeOK, LeaseSafety, BeliefIsBacked, OneBeliever

(* Whatever requests of two processes cross, a resource has one holder     *)
(* that believes in its lease, and the row backs what it has been told.    *)
THEOREM LeasesAreSafe == LeaseSpec => []LeaseSafety
BY InitLeaseInv, NextLeaseInv, LeaseInvIsSafe, PTL DEF LeaseSpec

-----------------------------------------------------------------------------
(* WorkspaceMerge.                                                         *)

(* Every command of an operation, every death and every edit preserves the *)
(* invariant.                                                              *)
LEMMA NextMergeInv == MergeInv /\ [MergeNext]_mergeVars => MergeInv'
<1> SUFFICES ASSUME MergeInv, [MergeNext]_mergeVars
             PROVE  MergeInv'
  OBVIOUS
<1> USE MergeAssumption DEF MergeInv, MergeTypeOK, HeadFollowsWorktree, CommitHoldsAsked, PlannedMergesOnce,
        MergedIsThere, NothingIsLeftBehind, GoesTo, Returns, Trouble
<1>1. ASSUME NEW o \in Merges, StartMerge(o)
      PROVE  MergeInv'
  BY <1>1 DEF StartMerge
<1>2. ASSUME NEW o \in Merges, LookUp(o)
      PROVE  MergeInv'
  <2>1. /\ UNCHANGED <<worktree, head, markers, root, asked, unsaved, troubles>> /\ at[o] = "looking"
        /\ \/ /\ o \in markers /\ at' = [at EXCEPT ![o] = "over"] /\ result' = [result EXCEPT ![o] = "merged"]
           \/ o \notin markers /\ at' = [at EXCEPT ![o] = "committing"] /\ result' = result
    BY <1>2 DEF LookUp
  <2>2. MergeTypeOK'
    BY <2>1
  <2>3. o \in markers => o \in Direct
    BY <2>1
  <2>4. HeadFollowsWorktree' /\ CommitHoldsAsked' /\ NothingIsLeftBehind'
    BY <2>1
  <2>5. PlannedMergesOnce' /\ MergedIsThere'
    BY <2>1, <2>3
  <2> QED
    BY <2>2, <2>4, <2>5
<1>3. ASSUME NEW o \in Merges, CommitWorktree(o)
      PROVE  MergeInv'
  BY <1>3 DEF CommitWorktree
<1>4. ASSUME NEW o \in Merges, CommitFails(o) \/ CommandFails(o)
      PROVE  MergeInv'
  BY <1>4 DEF CommitFails, CommandFails
<1>5. ASSUME NEW o \in Merges, CheckRoot(o)
      PROVE  MergeInv'
  BY <1>5 DEF CheckRoot
<1>6. ASSUME NEW o \in Merges, GitMerge(o)
      PROVE  MergeInv'
  BY <1>6 DEF GitMerge, UpToDate
<1>7. ASSUME NEW o \in Merges, GitRefuses(o) \/ GitConflicts(o) \/ GitIsKilled(o)
      PROVE  MergeInv'
  <2>1. CASE GitRefuses(o)
    BY <2>1 DEF GitRefuses
  <2>2. CASE GitConflicts(o)
    BY <2>2 DEF GitConflicts
  <2>3. CASE GitIsKilled(o)
    BY <2>3 DEF GitIsKilled
  <2> QED
    BY <1>7, <2>1, <2>2, <2>3
<1>8. ASSUME NEW o \in Merges, AbortMerge(o)
      PROVE  MergeInv'
  BY <1>8 DEF AbortMerge
<1>9. ASSUME NEW b \in Branches, BuilderWrites(b)
      PROVE  MergeInv'
  BY <1>9 DEF BuilderWrites
<1>10. CASE UserWorks
  BY <1>10 DEF UserWorks
<1>11. CASE DieWhileMerging
  <2>1. \A o \in Merges : at'[o] \in {"idle", "over"} /\ (at'[o] = "idle" <=> at[o] = "idle")
    BY <1>11 DEF DieWhileMerging
  <2>2. troubles' > 0 /\ UNCHANGED <<worktree, head, markers, root, result, asked, unsaved>>
    BY <1>11 DEF DieWhileMerging
  <2>3. MergeTypeOK'
    BY <1>11, <2>2 DEF DieWhileMerging
  <2> QED
    BY <2>1, <2>2, <2>3
<1>12. CASE UNCHANGED mergeVars
  BY <1>12 DEF mergeVars
<1> QED
  BY <1>1, <1>2, <1>3, <1>4, <1>5, <1>6, <1>7, <1>8, <1>9, <1>10, <1>11, <1>12 DEF MergeNext, MergeStep

(* Nothing has been written. *)
LEMMA InitMergeInv == MergeInit => MergeInv
BY MergeAssumption DEF MergeInit, MergeInv, MergeTypeOK, HeadFollowsWorktree, CommitHoldsAsked,
   PlannedMergesOnce, MergedIsThere, NothingIsLeftBehind

(* What the operation of a plan reports as merged is in the repository,    *)
(* and no merge that ran to its end is left in progress there.             *)
THEOREM MergesAreSafe == MergeSpec => []MergeSafety
<1>1. MergeInv => MergeSafety
  BY DEF MergeInv, MergeSafety
<1> QED
  BY <1>1, InitMergeInv, NextMergeInv, PTL DEF MergeSpec

-----------------------------------------------------------------------------
(* Questions.                                                              *)

(* A row whose status changes is a row. *)
LEMMA StatusChanges ==
  ASSUME QuestionTypeOK, NEW s \in {"none"} \cup Resolved \cup Unresolved
  PROVE  LET row == [question EXCEPT !.status = s] IN
         /\ row \in Question /\ row.status = s
         /\ row.key = question.key /\ row.answers = question.answers
         /\ s = question.status => row = question
BY DEF QuestionTypeOK, Question

(* An end is given to a question that has none, and to no other. *)
LEMMA EndsOnce ==
  ASSUME QuestionTypeOK, NEW s \in Resolved, Ends(s)
  PROVE  /\ question' \in Question /\ question'.key = question.key /\ question'.answers = question.answers
         /\ question'.status = IF question.status \in Unresolved THEN s ELSE question.status
         /\ question.status \in Resolved => question' = question
<1>1. question.status \in {"none"} \cup Resolved \cup Unresolved
  BY DEF QuestionTypeOK, Question
<1>2. PICK r \in {"none"} \cup Resolved \cup Unresolved :
        /\ r = IF question.status \in Unresolved THEN s ELSE question.status
        /\ question' = [question EXCEPT !.status = r]
  BY <1>1 DEF Ends
<1>3. question.status \in Resolved => r = question.status
  BY <1>2 DEF Resolved, Unresolved
<1> QED
  BY <1>2, <1>3, StatusChanges

(* What the adapter reports of the provider ends a question, too. *)
LEMMA IngestedOnce ==
  ASSUME QuestionTypeOK, NEW k \in Keys \cup {NoKey}
  PROVE  /\ Ingested(k) \in Question /\ Ingested(k).key = question.key
         /\ Ingested(k).status \in Resolved
         /\ question.status \in Resolved => Ingested(k) = question
         /\ question.status \notin Resolved =>
              IF k \in Keys \ Dismissals
              THEN Ingested(k).status = "accepted" /\ Ingested(k).answers = k
              ELSE Ingested(k).status = "rejected" /\ Ingested(k).answers = question.answers
BY DEF Ingested, QuestionTypeOK, Question, Resolved

(* The POSTs, the stream, the ends of sessions and missions, the requests  *)
(* of the user and the restart of the gateway preserve the invariant.      *)
LEMMA NextQuestionInv == QuestionInv /\ [QuestionNext]_questionVars => QuestionInv'
<1> SUFFICES ASSUME QuestionInv, [QuestionNext]_questionVars
             PROVE  QuestionInv'
  OBVIOUS
<1> DEFINE Awaited == /\ question.status = "delivering" => question.key \in Keys /\ posts[question.key] # "none"
                      /\ \A k \in Keys : posts[k] # "none" <=> replies[k] = "delivering"
<1> USE QuestionAssumption DEF QuestionInv, QuestionTypeOK, ShownIsTrue, EndIsHeard, PostIsTheClaim,
        ProviderIsAhead, Lane
<1>1. CASE AskQuestion
  <2>1. question' \in Question /\ question'.status = "pending" /\ question'.key = question.key
    BY <1>1, StatusChanges DEF AskQuestion, Unresolved
  <2> QED
    BY <1>1, <2>1 DEF AskQuestion, Resolved
<1>2. CASE Withdraw
  <2>1. question.status # "accepted" /\ question.status # "rejected" /\ \A k \in Keys : replies[k] # "delivered"
    BY <1>2 DEF Withdraw, Question
  <2> QED
    BY <1>2, <2>1 DEF Withdraw
<1>3. CASE ReadResolution
  <2>1. PICK k \in Keys \cup {NoKey} : /\ k = IF provider \in Keys THEN provider ELSE NoKey
                                     /\ question' = IF lane.waiting THEN Ingested(k) ELSE question
    BY <1>3 DEF ReadResolution
  <2>2. provider \notin {"unasked", "open"}
    BY <1>3 DEF ReadResolution
  <2>3. lane' \in Lane /\ ~lane'.waiting /\ lane'.deaf = lane.deaf
    BY <1>3 DEF ReadResolution
  <2>4. CASE lane.waiting
    <3>1. question' = Ingested(k)
      BY <2>1, <2>4
    <3>2. PostIsTheClaim' /\ ProviderIsAhead' /\ Awaited'
      BY <1>3, <2>2, <2>3, <3>1, IngestedOnce DEF ReadResolution, Resolved
    <3>3. ShownIsTrue'
      BY <1>3, <2>1, <2>2, <3>1, IngestedOnce DEF ReadResolution, Resolved
    <3>4. unread' = FALSE /\ UNCHANGED <<replies, posts, late, provider, missionOver>>
      BY <1>3 DEF ReadResolution
    <3>5. question' \in Question
      BY <3>1, IngestedOnce
    <3>6. QuestionTypeOK' /\ EndIsHeard'
      BY <2>3, <3>4, <3>5
    <3> QED
      BY <3>2, <3>3, <3>6
  <2>5. CASE ~lane.waiting
    BY <1>3, <2>1, <2>2, <2>3, <2>5, ZenonT(40) DEF ReadResolution
  <2> QED
    BY <2>4, <2>5
<1>a. ASSUME UNCHANGED <<replies, posts, provider, unread>>, late' = late, missionOver' \in BOOLEAN,
             question' = question \/ Ends("cancelled") \/ Ends("stale"),
             lane' \in Lane, ~lane'.deaf, lane'.waiting => lane.waiting
      PROVE  QuestionInv'
  <2>1. /\ question' \in Question /\ question'.key = question.key /\ question'.answers = question.answers
        /\ question'.status \in {question.status, "cancelled", "stale"}
        /\ question.status \in Resolved \cup {"none"} => question'.status = question.status
    BY <1>a, EndsOnce DEF Resolved, Unresolved
  <2> QED
    BY <1>a, <2>1 DEF Resolved
<1>4. CASE SessionIdle \/ SessionEnds
  <2>1. ~lane.waiting \/ SessionEnds
    BY <1>4 DEF SessionIdle
  <2>2. lane' \in Lane /\ ~lane'.deaf /\ (lane'.waiting => lane.waiting)
    <3>1. CASE SessionEnds
      BY <3>1 DEF SessionEnds
    <3>2. CASE ~lane.waiting /\ SessionIdle
      <4>1. lane' = [lane EXCEPT !.alive = FALSE]
        BY <3>2 DEF SessionIdle
      <4>2. lane \in Lane
        OBVIOUS
      <4> QED
        BY <4>1, <4>2
    <3> QED
      BY <1>4, <2>1, <3>1, <3>2
  <2> QED
    BY <1>4, <1>a, <2>1, <2>2 DEF SessionIdle, SessionEnds
<1>5. CASE MissionEnds \/ MissionReopens
  BY <1>5, <1>a DEF MissionEnds, MissionReopens
<1>6. CASE ListQuestions
  BY <1>6, <1>a DEF ListQuestions
<1>7. CASE RestartInteractions
  <2>1. /\ question' \in Question /\ question'.key = question.key /\ question'.answers = question.answers
        /\ question'.status = IF question.status = "delivering" THEN "delivery_failed" ELSE question.status
    BY <1>7, StatusChanges DEF RestartInteractions, Question, Unresolved
  <2>2. /\ posts' = [k \in Keys |-> "none"] /\ lane' \in Lane /\ ~lane'.waiting /\ lane'.deaf = lane.deaf
        /\ replies' \in [Keys -> {"none", "delivered", "failed"}]
        /\ \A k \in Keys : replies'[k] = "delivered" => replies[k] = "delivered"
    BY <1>7 DEF RestartInteractions
  <2>3. /\ late' \subseteq Keys /\ unread' = FALSE /\ UNCHANGED <<provider, missionOver>>
        /\ question'.status \in {question.status, "delivery_failed"} /\ question'.status # "delivering"
        /\ question.status = "none" => question'.status = "none"
    BY <1>7, <2>1 DEF RestartInteractions
  <2>4. QuestionTypeOK'
    BY <2>1, <2>2, <2>3, ZenonT(40)
  <2>5. ShownIsTrue' /\ EndIsHeard'
    BY <2>1, <2>2, <2>3
  <2>6. PostIsTheClaim' /\ ProviderIsAhead' /\ Awaited'
    BY <2>1, <2>2, <2>3
  <2> QED
    BY <2>4, <2>5, <2>6
<1>8. ASSUME NEW k \in Keys, RespondTo(k)
      PROVE  QuestionInv'
  <2>1. PICK s \in {"none"} \cup Resolved \cup Unresolved :
          /\ s \in {question.status, "cancelled", "stale"}
          /\ question.status \in Resolved \cup {"delivering", "delivered"} /\ s # "cancelled" => s = question.status
          /\ question.status \in Resolved => s = question.status
          /\ IF MayClaim(k, s)
             THEN /\ question' = [status |-> "delivering", key |-> k, answers |-> k]
                  /\ replies' = [replies EXCEPT ![k] = "delivering"]
                  /\ posts' = [posts EXCEPT ![k] = "sent"]
             ELSE question' = [question EXCEPT !.status = s] /\ UNCHANGED <<replies, posts>>
    BY <1>8 DEF RespondTo, Question, Resolved, Unresolved
  <2>2. provider # "unasked" /\ UNCHANGED <<late, provider, unread, lane, missionOver>>
    BY <1>8 DEF RespondTo
  <2>3. CASE MayClaim(k, s)
    <3>1. question.status \notin Resolved \cup {"delivering", "delivered"}
      BY <2>1, <2>3 DEF MayClaim, Resolved
    <3>2. \A q \in Keys : posts[q] = "none"
      BY <3>1
    <3>3. question' \in Question
      BY <2>1, <2>3 DEF Question, Unresolved
    <3> QED
      BY <2>1, <2>2, <2>3, <3>2, <3>3 DEF MayClaim
  <2>4. CASE ~MayClaim(k, s)
    <3>1. /\ question' \in Question /\ question'.key = question.key /\ question'.answers = question.answers
          /\ question'.status = s /\ UNCHANGED <<replies, posts>>
      <4>1. question' = [question EXCEPT !.status = s] /\ UNCHANGED <<replies, posts>>
        BY <2>1, <2>4
      <4> HIDE DEF QuestionTypeOK
      <4>2. QuestionTypeOK
        BY DEF QuestionInv
      <4> QED
        BY <4>1, <4>2, StatusChanges
    <3> QED
      BY <2>1, <2>2, <3>1 DEF Resolved
  <2> QED
    BY <2>3, <2>4
<1>9. ASSUME NEW k \in Keys, Arrives(k)
      PROVE  QuestionInv'
  <2>1. \/ provider = "open" /\ provider' = k /\ unread' = TRUE
        \/ provider # "open" /\ UNCHANGED <<provider, unread>>
    BY <1>9 DEF Arrives
  <2>2. /\ late' \subseteq Keys /\ UNCHANGED <<question, replies, lane, missionOver>>
        /\ \/ posts' = posts
           \/ /\ posts[k] = "sent"
              /\ posts' = [posts EXCEPT ![k] = IF provider = "open" THEN "confirmed" ELSE "refused"]
    BY <1>9 DEF Arrives
  <2>3. question.status = "accepted" => provider # "open"
    BY DEF Question
  <2>4. QuestionTypeOK' /\ EndIsHeard' /\ Awaited'
    <3>1. posts' \in [Keys -> {"none", "sent", "confirmed", "refused"}]
      BY <2>2
    <3>2. \A q \in Keys : posts'[q] # "none" <=> posts[q] # "none"
      BY <2>2
    <3>3. provider' \in Keys \cup {"unasked", "open", "withdrawn"} /\ unread' \in BOOLEAN
      BY <2>1, ZenonT(40)
    <3> QED
      BY <2>2, <3>1, <3>2, <3>3
  <2>5. ShownIsTrue' /\ PostIsTheClaim' /\ ProviderIsAhead'
    BY <2>1, <2>2, <2>3
  <2> QED
    BY <2>4, <2>5
<1>10. ASSUME NEW k \in Keys, ReplyReturns(k)
       PROVE  QuestionInv'
  <2>1. /\ posts[k] = "confirmed" /\ provider = k /\ question.key = k
        /\ question.status \in {"delivering"} \cup Resolved
        /\ \A q \in Keys : posts[q] # "none" => q = k
    BY <1>10 DEF ReplyReturns
  <2>2. /\ posts' = [posts EXCEPT ![k] = "none"] /\ replies' = [replies EXCEPT ![k] = "delivered"]
        /\ lane' \in Lane /\ ~lane'.waiting /\ lane'.deaf = lane.deaf
        /\ UNCHANGED <<late, provider, unread, missionOver>>
    BY <1>10 DEF ReplyReturns
  <2>3. /\ question' \in Question /\ question'.status \in {"delivered"} \cup Resolved
        /\ question'.status = "accepted" => provider = question'.answers
        /\ question'.status = "rejected" => provider \in Dismissals \cup {"withdrawn"}
    <3>1. CASE question.status \in Resolved
      BY <1>10, <3>1, IngestedOnce DEF ReplyReturns, Finished, Resolved, Unresolved
    <3>2. CASE question.status = "delivering" /\ lane.waiting
      BY <1>10, <2>1, <3>2, IngestedOnce DEF ReplyReturns, Finished, Resolved, Unresolved
    <3>3. CASE question.status = "delivering" /\ ~lane.waiting
      BY <1>10, <2>1, <3>3, StatusChanges DEF ReplyReturns, Finished, Resolved, Unresolved
    <3> QED
      BY <2>1, <3>1, <3>2, <3>3
  <2> QED
    BY <2>1, <2>2, <2>3 DEF Resolved
<1>11. ASSUME NEW k \in Keys, ReplyFails(k)
       PROVE  QuestionInv'
  <2>1. /\ posts[k] # "none" /\ question.key = k /\ question.status \in {"delivering"} \cup Resolved
        /\ \A q \in Keys : posts[q] # "none" => q = k
    BY <1>11 DEF ReplyFails
  <2>2. /\ posts' = [posts EXCEPT ![k] = "none"] /\ replies' = [replies EXCEPT ![k] = "failed"]
        /\ late' \subseteq Keys /\ UNCHANGED <<provider, unread, lane, missionOver>>
    BY <1>11 DEF ReplyFails
  <2>3. \/ question.status \in Resolved /\ question' = question
        \/ /\ question' \in Question /\ question'.status = "delivery_failed"
           /\ question'.key = k /\ question'.answers = question.answers
    BY <1>11, <2>1, StatusChanges DEF ReplyFails, Finished, Resolved, Unresolved
  <2> QED
    BY <2>1, <2>2, <2>3 DEF Resolved
<1>12. CASE UNCHANGED questionVars
  BY <1>12 DEF questionVars
<1> QED
  BY <1>1, <1>2, <1>3, <1>4, <1>5, <1>6, <1>7, <1>8, <1>9, <1>10, <1>11, <1>12 DEF QuestionNext, ReplyStep

(* Before anything is asked the invariant holds.                           *)
LEMMA InitQuestionInv == QuestionInit => QuestionInv
<1> SUFFICES ASSUME QuestionInit
             PROVE  QuestionInv
  OBVIOUS
<1>1. QuestionTypeOK
  BY QuestionAssumption DEF QuestionInit, QuestionTypeOK, Question, Lane
<1> QED
  BY <1>1, QuestionAssumption DEF QuestionInit, QuestionInv, ShownIsTrue, EndIsHeard, PostIsTheClaim, ProviderIsAhead

(* The invariant of Questions: rows, replies, the provider and the lane    *)
(* agree in every reachable state.                                         *)
THEOREM QuestionInvariant == QuestionSpec => []QuestionInv
BY InitQuestionInv, NextQuestionInv, PTL DEF QuestionSpec

(* The POSTs under way are those of the claim, which is one.               *)
LEMMA QuestionInvIsSafe == QuestionInv => QuestionSafety
<1>1. ASSUME QuestionInv
      PROVE  Cardinality({k \in Keys : posts[k] # "none"}) <= 1
  <2> DEFINE sent == {k \in Keys : posts[k] # "none"}
  <2>1. \A k \in sent : k = question.key
    BY <1>1 DEF QuestionInv, PostIsTheClaim
  <2>2. sent = {} \/ sent = {question.key}
    BY <2>1
  <2>3. Cardinality({}) = 0 /\ Cardinality({question.key}) = 1
    BY FS_EmptySet, FS_Singleton
  <2> QED
    BY <2>2, <2>3
<1> QED
  BY <1>1 DEF QuestionInv, QuestionSafety, DeliveryIsAwaited

(* What the user is shown is what the provider did, no two answers are on  *)
(* their way together, and the end of a session is heard.                  *)
THEOREM QuestionsAreSafe == QuestionSpec => []QuestionSafety
BY QuestionInvIsSafe, QuestionInvariant, PTL

(* A question that has its end keeps it, and an answer that was delivered  *)
(* is not sent again.                                                      *)
THEOREM QuestionStepsStand == QuestionSpec => QuestionSteps
<1> DEFINE Keeps == /\ question.status \in Resolved => question' = question
                    /\ \A k \in Keys : replies[k] = "delivered" => posts'[k] = "none" \/ posts'[k] = posts[k]
<1>1. QuestionInv /\ [QuestionNext]_questionVars => [Keeps]_questionVars
  <2> SUFFICES ASSUME QuestionInv, QuestionNext
               PROVE  Keeps
    OBVIOUS
  <2> USE QuestionAssumption DEF QuestionInv, QuestionTypeOK, PostIsTheClaim, ProviderIsAhead, Resolved, Unresolved
  <2>1. CASE AskQuestion \/ Withdraw \/ ReadResolution
    BY <2>1 DEF AskQuestion, Withdraw, ReadResolution, Ingested
  <2>2. CASE SessionIdle \/ SessionEnds \/ MissionEnds \/ MissionReopens \/ ListQuestions
    <3>1. posts' = posts /\ (question' = question \/ Ends("cancelled") \/ Ends("stale"))
      BY <2>2 DEF SessionIdle, SessionEnds, MissionEnds, MissionReopens, ListQuestions
    <3>2. question.status \in Resolved => question' = question
      BY <3>1, EndsOnce
    <3> QED
      BY <3>1, <3>2
  <2>3. CASE RestartInteractions
    <3>1. question.status \in Resolved => question' = [question EXCEPT !.status = question.status]
      BY <2>3 DEF RestartInteractions
    <3> QED
      BY <2>3, <3>1, StatusChanges DEF RestartInteractions, Question
  <2>4. ASSUME NEW k \in Keys, RespondTo(k)
        PROVE  Keeps
    <3>1. question.status \in Resolved => question' = [question EXCEPT !.status = question.status]
      BY <2>4 DEF RespondTo, MayClaim
    <3>2. \A q \in Keys : replies[q] = "delivered" => posts'[q] = posts[q]
      BY <2>4 DEF RespondTo, MayClaim
    <3> QED
      BY <3>1, <3>2, StatusChanges DEF Question
  <2>5. ASSUME NEW k \in Keys, ReplyStep(k)
        PROVE  Keeps
    BY <2>5 DEF ReplyStep, Arrives, ReplyReturns, ReplyFails, Finished, Ingested
  <2> QED
    BY <2>1, <2>2, <2>3, <2>4, <2>5 DEF QuestionNext
<1> QED
  BY <1>1, QuestionInvariant, PTL DEF QuestionSpec, QuestionSteps

-----------------------------------------------------------------------------
(* AgentRegistry.                                                          *)

(* The order of the natural numbers, and what makes an argument by the     *)
(* least counterexample possible.                                          *)
Below == {p \in Nat \X Nat : p[1] < p[2]}

(* The order is well founded. *)
LEMMA BelowIsWellFounded == IsWellFoundedOn(Below, Nat)
<1>1. Below = OpToRel(<, Nat)
  BY DEF Below, OpToRel
<1> QED
  BY <1>1, NatLessThanWellFounded

(* A set of natural numbers has a least element. *)
LEMMA LeastNatural ==
  ASSUME NEW S \in SUBSET Nat, S # {}
  PROVE  \E n \in S : \A m \in S : n <= m
<1>1. \E n \in S : \A m \in S : ~ (<<m, n>> \in Below)
  BY BelowIsWellFounded, WFMin, Zenon
<1>2. \A m, n \in S : m < n => <<m, n>> \in Below
  BY DEF Below
<1>3. PICK n \in S : \A m \in S : ~ (<<m, n>> \in Below)
  BY <1>1
<1>4. \A m \in S : ~ (m < n)
  BY <1>2, <1>3
<1> QED
  BY <1>4

(* Parents in which every agent that has one was made after it.            *)
Older(p) == \A c \in Agents : p[c] # NoParent => c \in Spawned /\ (p[c] \in Spawned => p[c] < c)

(* How far down an agent can be: those of the plan first.                  *)
Made(a) == IF a \in Spawned THEN a ELSE 0

(* The depths of agents as their parents p determine them.                 *)
DepthsOf(p) == LET d[a \in Agents] == IF p[a] = NoParent THEN 0 ELSE 1 + d[p[a]] IN d

AreDepths(p, f) == \A a \in Agents : f[a] = IF p[a] = NoParent THEN 0 ELSE 1 + f[p[a]]

LEMMA ParentsWereMade ==
  ASSUME NEW p \in [Agents -> Agents \cup {NoParent}], Older(p)
  PROVE  /\ \A a \in Agents : Made(a) \in 0 .. Dynamic
         /\ \A a \in Agents : p[a] # NoParent => p[a] \in Agents /\ Made(p[a]) < Made(a)
BY RegistryAssumption DEF Older, Made, Spawned

LEMMA DepthsExist ==
  ASSUME NEW p \in [Agents -> Agents \cup {NoParent}], Older(p)
  PROVE  DepthsOf(p) \in [Agents -> Nat] /\ AreDepths(p, DepthsOf(p))
<1> DEFINE Upto(n, f) == \A a \in Agents : Made(a) <= n => f[a] = IF p[a] = NoParent THEN 0 ELSE 1 + f[p[a]]
           Missing == {n \in Nat : ~ \E f \in [Agents -> Nat] : Upto(n, f)}
<1>0. /\ Dynamic \in Nat
      /\ \A a \in Agents : Made(a) \in 0 .. Dynamic
      /\ \A a \in Agents : p[a] # NoParent => p[a] \in Agents /\ Made(p[a]) < Made(a)
  BY ParentsWereMade, RegistryAssumption
<1>1. Missing = {}
  <2> SUFFICES ASSUME Missing # {}
               PROVE  FALSE
    OBVIOUS
  <2>1. PICK n \in Missing : \A m \in Missing : n <= m
    BY LeastNatural
  <2>2. CASE n = 0
    <3> DEFINE f == [a \in Agents |-> 0]
    <3>1. f \in [Agents -> Nat] /\ Upto(0, f)
      BY <1>0
    <3> QED
      BY <2>1, <2>2, <3>1
  <2>3. CASE n # 0
    <3>1. n \in Nat /\ n - 1 \in Nat /\ n - 1 \notin Missing
      BY <2>1, <2>3
    <3>2. PICK f \in [Agents -> Nat] : Upto(n - 1, f)
      BY <3>1
    <3> DEFINE g == [a \in Agents |-> IF p[a] = NoParent THEN 0
                                      ELSE IF Made(a) <= n THEN 1 + f[p[a]] ELSE 0]
    <3>3. g \in [Agents -> Nat]
      BY <1>0, <3>2
    <3>4. \A a \in Agents : Made(a) <= n - 1 => g[a] = f[a]
      BY <1>0, <3>1, <3>2
    <3>5. Upto(n, g)
      <4> SUFFICES ASSUME NEW a \in Agents, Made(a) <= n
                   PROVE  g[a] = IF p[a] = NoParent THEN 0 ELSE 1 + g[p[a]]
        OBVIOUS
      <4>1. CASE p[a] = NoParent
        BY <4>1
      <4>2. CASE p[a] # NoParent
        <5>1. p[a] \in Agents /\ Made(p[a]) <= n - 1
          BY <1>0, <3>1, <4>2
        <5>2. g[a] = 1 + f[p[a]]
          BY <4>2
        <5>3. g[p[a]] = f[p[a]]
          BY <3>4, <5>1
        <5> QED
          BY <4>2, <5>2, <5>3
      <4> QED
        BY <4>1, <4>2
    <3> QED
      BY <2>1, <3>3, <3>5
  <2> QED
    BY <2>2, <2>3
<1>2. PICK f \in [Agents -> Nat] : Upto(Dynamic, f)
  BY <1>0, <1>1
<1>3. \A a \in Agents : f[a] = IF p[a] = NoParent THEN 0 ELSE 1 + f[p[a]]
  BY <1>0, <1>2
<1>4. f = [a \in Agents |-> IF p[a] = NoParent THEN 0 ELSE 1 + f[p[a]]]
  BY <1>2, <1>3
<1>5. DepthsOf(p) = [a \in Agents |-> IF p[a] = NoParent THEN 0 ELSE 1 + DepthsOf(p)[p[a]]]
  BY <1>4 DEF DepthsOf
<1>6. AreDepths(p, DepthsOf(p))
  BY <1>5 DEF AreDepths
<1>7. DepthsOf(p) \in [Agents -> Nat]
  <2> DEFINE d == DepthsOf(p)
             Wrong == {n \in Nat : \E a \in Agents : Made(a) = n /\ d[a] \notin Nat}
  <2> HIDE DEF d
  <2>1. \A a \in Agents : d[a] = IF p[a] = NoParent THEN 0 ELSE 1 + d[p[a]]
    BY <1>6 DEF AreDepths, d
  <2>2. d = [a \in Agents |-> d[a]]
    <3>1. d = [a \in Agents |-> IF p[a] = NoParent THEN 0 ELSE 1 + d[p[a]]]
      BY <1>5 DEF d
    <3> QED
      BY <3>1
  <2>3. ASSUME Wrong # {}
        PROVE  FALSE
    <3>1. PICK n \in Wrong : \A m \in Wrong : n <= m
      BY <2>3, LeastNatural
    <3>2. PICK a \in Agents : Made(a) = n /\ d[a] \notin Nat
      BY <3>1
    <3>3. p[a] # NoParent /\ d[p[a]] \notin Nat
      BY <2>1, <3>2
    <3>4. Made(p[a]) \in Wrong /\ Made(p[a]) < n
      BY <1>0, <3>2, <3>3
    <3> QED
      BY <1>0, <3>1, <3>4
  <2>4. \A a \in Agents : d[a] \in Nat
    BY <1>0, <2>3
  <2> QED
    BY <2>2, <2>4 DEF d
<1> QED
  BY <1>6, <1>7

(* Agents whose ancestors did not change keep their depths. *)
LEMMA DepthsAgree ==
  ASSUME NEW p \in [Agents -> Agents \cup {NoParent}], NEW q \in [Agents -> Agents \cup {NoParent}],
         NEW X \in SUBSET Agents, Older(p), Older(q),
         \A a \in X : q[a] = p[a] /\ p[a] \in X \cup {NoParent}
  PROVE  \A a \in X : DepthsOf(q)[a] = DepthsOf(p)[a]
<1> DEFINE Differ == {n \in Nat : \E a \in X : Made(a) = n /\ DepthsOf(q)[a] # DepthsOf(p)[a]}
<1>1. AreDepths(p, DepthsOf(p)) /\ AreDepths(q, DepthsOf(q))
  BY DepthsExist
<1>2. /\ \A a \in Agents : Made(a) \in 0 .. Dynamic
      /\ \A a \in Agents : p[a] # NoParent => p[a] \in Agents /\ Made(p[a]) < Made(a)
  BY ParentsWereMade
<1>3. ASSUME Differ # {}
      PROVE  FALSE
  <2>1. PICK n \in Differ : \A m \in Differ : n <= m
    BY <1>3, LeastNatural
  <2>2. PICK a \in X : Made(a) = n /\ DepthsOf(q)[a] # DepthsOf(p)[a]
    BY <2>1
  <2>3. p[a] # NoParent /\ DepthsOf(q)[p[a]] # DepthsOf(p)[p[a]] /\ p[a] \in X
    BY <1>1, <2>2 DEF AreDepths
  <2>4. Made(p[a]) \in Differ /\ Made(p[a]) < n
    BY <1>2, <2>2, <2>3, RegistryAssumption
  <2> QED
    BY <1>2, <2>1, <2>4
<1> QED
  BY <1>2, <1>3, RegistryAssumption
(* The agents of a mission are finitely many. *)
LEMMA AgentsAreFinite == IsFiniteSet(Spawned) /\ IsFiniteSet(Agents)
<1>1. IsFiniteSet(Spawned)
  BY RegistryAssumption, FS_Interval DEF Spawned
<1> QED
  BY <1>1, RegistryAssumption, FS_Union DEF Agents

(* No agent that others have spawned is at work without being counted, so  *)
(* that one more fits when the count is below the limit.                   *)
LEMMA SpawnFits ==
  ASSUME RegistryInv, NEW c \in Spawned, MaySpawn(c) \/ Cardinality(Active) < MaxParallel
  PROVE  Cardinality({b \in Spawned : worker[b] \in AtWork} \cup {c}) <= MaxParallel
<1> DEFINE busy == {b \in Spawned : worker[b] \in AtWork}
<1>1. Cardinality(Active) < MaxParallel
  BY DEF MaySpawn
<1>2. IsFiniteSet(Agents)
  BY AgentsAreFinite
<1>3. IsFiniteSet(Active)
  BY <1>2, FS_Subset DEF Active
<1>4. busy \subseteq Active
  BY DEF RegistryInv, AtWorkIsCounted, Active, Agents
<1>5. IsFiniteSet(busy) /\ Cardinality(busy) <= Cardinality(Active)
  BY <1>3, <1>4, FS_Subset
<1>6. /\ Cardinality(busy) \in Nat /\ Cardinality(Active) \in Nat
      /\ Cardinality(busy \cup {c}) \in {Cardinality(busy), Cardinality(busy) + 1}
  BY <1>3, <1>5, FS_CardinalityType, FS_AddElement
<1> QED
  BY <1>1, <1>5, <1>6, RegistryAssumption

(* A smaller set of agents at work is within the limit, too. *)
LEMMA FewerAtWork ==
  ASSUME RegistryInv, {b \in Spawned : worker'[b] \in AtWork} \subseteq {b \in Spawned : worker[b] \in AtWork}
  PROVE  SpawnedWithinLimit'
<1> DEFINE busy == {b \in Spawned : worker[b] \in AtWork}  left == {b \in Spawned : worker'[b] \in AtWork}
<1>1. IsFiniteSet(busy)
  BY AgentsAreFinite, FS_Subset
<1>2. IsFiniteSet(left) /\ Cardinality(left) <= Cardinality(busy)
  BY <1>1, FS_Subset
<1>3. Cardinality(left) \in Nat /\ Cardinality(busy) \in Nat
  BY <1>1, <1>2, FS_CardinalityType
<1> QED
  BY <1>2, <1>3, RegistryAssumption DEF RegistryInv, SpawnedWithinLimit, Spawned

(* Launches, reports, ends, stops and restarts preserve the invariant. *)
LEMMA NextRegistryInv == RegistryInv /\ [RegistryNext]_registryVars => RegistryInv'
<1> SUFFICES ASSUME RegistryInv, [RegistryNext]_registryVars
             PROVE  RegistryInv'
  OBVIOUS
<1> DEFINE Rest == RegistryTypeOK /\ AtWorkIsCounted /\ CapacityIsReleased /\ LaunchedIsRegistered
           busy == {b \in Spawned : worker[b] \in AtWork}
<1> USE RegistryAssumption DEF RegistryTypeOK, AtWorkIsCounted, CapacityIsReleased, LaunchedIsRegistered,
        Active, AtWork, Counted, Becomes, Session, HasGrant
<1>0. Rest /\ Spawned \subseteq Agents
  BY DEF RegistryInv, Agents
<1>10. Rest' /\ busy' \subseteq busy => RegistryInv'
  BY FewerAtWork DEF RegistryInv
<1>1. ASSUME NEW a \in Agents, NEW c \in Spawned, SpawnAgent(a, c)
      PROVE  RegistryInv'
  <2>1. Rest'
    BY <1>0, <1>1 DEF SpawnAgent, NextAgent
  <2>2. busy' = busy \cup {c}
    BY <1>0, <1>1 DEF SpawnAgent
  <2>3. SpawnedWithinLimit'
    BY <1>1, <2>2, SpawnFits DEF SpawnAgent, MaySpawn, SpawnedWithinLimit
  <2> QED
    BY <2>1, <2>3 DEF RegistryInv
<1>2. ASSUME NEW a \in Agents, NEW c \in Spawned, SpawnBreaks(a, c)
      PROVE  Rest' /\ busy' \subseteq busy
  BY <1>0, <1>2 DEF SpawnBreaks, NextAgent
<1>3. ASSUME NEW p \in Agents, Dispatch(p)
      PROVE  Rest' /\ busy' \subseteq busy
  BY <1>0, <1>3 DEF Dispatch
<1>4. ASSUME NEW a \in Agents, AgentStarts(a) \/ LaunchFails(a) \/ AgentStopped(a)
      PROVE  Rest' /\ busy' \subseteq busy
  BY <1>0, <1>4 DEF AgentStarts, LaunchFails, AgentStopped
<1>5. ASSUME NEW a \in Agents, NEW told \in {"running", "waiting"}, Reports(a, told)
      PROVE  Rest' /\ busy' \subseteq busy
  BY <1>0, <1>5 DEF Reports
<1>6. ASSUME NEW a \in Agents, NEW told \in {"completed", "failed"}, AgentEnds(a, told)
      PROVE  Rest' /\ busy' \subseteq busy
  BY <1>0, <1>6 DEF AgentEnds
<1>7. ASSUME NEW cancel \in BOOLEAN, StopAgents(cancel)
      PROVE  Rest' /\ busy' \subseteq busy
  BY <1>0, <1>7 DEF StopAgents
<1>8. CASE RegistryRestarts
  <2>1. worker' = [a \in Agents |-> IF worker[a] \in AtWork THEN "over" ELSE worker[a]]
        /\ registered' = {a \in Agents : agent[a] # "none"}
        /\ stranded' = stranded \cup {a \in Agents : worker[a] \in AtWork}
        /\ UNCHANGED <<agent, parent, open, stops>>
    BY <1>8 DEF RegistryRestarts
  <2>2. \A a \in Agents : worker'[a] \notin AtWork
    BY <2>1
  <2>3. breaks' \in 0 .. MaxBreaks /\ worker' \in [Agents -> {"none", "over"} \cup AtWork]
    BY <1>0, <1>8, <2>1 DEF RegistryRestarts
  <2>4. Rest'
    BY <1>0, <2>1, <2>2, <2>3
  <2>5. busy' \subseteq busy
    BY <1>0, <2>2
  <2> QED
    BY <1>10, <2>4, <2>5
<1>9. CASE UNCHANGED registryVars
  <2>1. UNCHANGED <<agent, parent, registered, worker, open, stranded, stops, breaks>>
    BY <1>9 DEF registryVars
  <2> QED
    BY <1>0, <1>10, <2>1
<1> QED
  BY <1>1, <1>2, <1>3, <1>4, <1>5, <1>6, <1>7, <1>8, <1>9, <1>10 DEF RegistryNext, AgentStep

(* The children of an agent that count against its limit. *)
Counting(a) == {c \in Spawned : parent[c] = a /\ worker[c] # "none" /\ agent[c] # "failed"}

(* The depth of agents is that of their parents. *)
LEMMA DepthIsDepthsOf == Depth = DepthsOf(parent) /\ Depth' = DepthsOf(parent')
BY DEF Depth, DepthsOf

(* The children of an agent are finitely many, and fewer are no more. *)
LEMMA FewerChildren ==
  ASSUME DelegationInv, NEW a \in Agents, Counting(a)' \subseteq Counting(a)
  PROVE  Cardinality(Counting(a)') <= MaxChildren
<1>1. IsFiniteSet(Counting(a))
  BY AgentsAreFinite, FS_Subset DEF Counting
<1>2. Cardinality(Counting(a)) <= MaxChildren
  BY DEF DelegationInv, DelegationIsBounded, Counting
<1> HIDE DEF Counting
<1>3. /\ IsFiniteSet(Counting(a)') /\ Cardinality(Counting(a)') <= Cardinality(Counting(a))
      /\ Cardinality(Counting(a)') \in Nat /\ Cardinality(Counting(a)) \in Nat
  BY <1>1, FS_Subset, FS_CardinalityType
<1> QED
  BY <1>2, <1>3, RegistryAssumption

(* An agent that may spawn has room for one more child. *)
LEMMA OneMoreChild ==
  ASSUME DelegationInv, NEW a \in Agents, MaySpawn(a), NEW c \in Spawned
  PROVE  Cardinality(Counting(a) \cup {c}) <= MaxChildren
<1>2. IsFiniteSet(Agents)
  BY AgentsAreFinite
<1>3. Counting(a) \subseteq Children(a) /\ Children(a) \subseteq Agents
  BY DEF DelegationInv, RegistryInv, RegistryTypeOK, LaunchedIsRegistered, Counting, Children, Agents
<1>4. Cardinality(Children(a)) < MaxChildren
  BY DEF MaySpawn
<1> HIDE DEF Counting, Children
<1>5. IsFiniteSet(Children(a)) /\ IsFiniteSet(Counting(a))
  BY <1>2, <1>3, FS_Subset
<1>6. /\ Cardinality(Counting(a)) <= Cardinality(Children(a))
      /\ Cardinality(Children(a)) \in Nat /\ Cardinality(Counting(a)) \in Nat
  BY <1>3, <1>5, FS_Subset, FS_CardinalityType
<1>7. Cardinality(Counting(a) \cup {c}) \in {Cardinality(Counting(a)), Cardinality(Counting(a)) + 1}
  BY <1>5, FS_AddElement
<1> QED
  BY <1>4, <1>6, <1>7, RegistryAssumption

(* When an agent is given a parent that was made before it, the others     *)
(* keep their depths, and its own is one more than its parent's.           *)
LEMMA DepthOfChild ==
  ASSUME DelegationInv, ParentsAreOlder', parent' \in [Agents -> Agents \cup {NoParent}],
         NEW a \in Agents, NEW c \in Spawned, Depth[a] < MaxDepth,
         agent[c] = "none", a # c, parent' = [parent EXCEPT ![c] = a]
  PROVE  \A b \in Agents : Depth'[b] <= MaxDepth
<1> DEFINE X == Agents \ {c}
<1>0. c \in Agents /\ parent \in [Agents -> Agents \cup {NoParent}]
  BY RegistryAssumption DEF Agents, DelegationInv, RegistryInv, RegistryTypeOK
<1>1. Older(parent) /\ Older(parent')
  BY DEF Older, DelegationInv, ParentsAreOlder
<1>2. \A b \in X : parent'[b] = parent[b] /\ parent[b] \in X \cup {NoParent}
  BY <1>0 DEF DelegationInv, ParentsAreOlder
<1>3. \A b \in X : DepthsOf(parent')[b] = DepthsOf(parent)[b]
  <2>1. X \in SUBSET Agents
    OBVIOUS
  <2> HIDE DEF X
  <2> QED
    BY <1>0, <1>1, <1>2, <2>1, DepthsAgree, ZenonT(40)
<1>4. /\ DepthsOf(parent) \in [Agents -> Nat]
      /\ DepthsOf(parent')[c] = 1 + DepthsOf(parent')[a]
  <2>1. AreDepths(parent', DepthsOf(parent'))
    BY <1>1, DepthsExist
  <2>2. parent'[c] = a /\ a # NoParent
    BY <1>0, RegistryAssumption
  <2>3. DepthsOf(parent) \in [Agents -> Nat]
    BY <1>0, <1>1, DepthsExist
  <2> QED
    BY <1>0, <2>1, <2>2, <2>3 DEF AreDepths
<1>5. \A b \in Agents : DepthsOf(parent)[b] <= MaxDepth
  BY DepthIsDepthsOf DEF DelegationInv, DelegationIsBounded
<1>6. DepthsOf(parent)[a] < MaxDepth
  BY DepthIsDepthsOf
<1>7. DepthsOf(parent')[c] <= MaxDepth
  <2>1. DepthsOf(parent')[a] = DepthsOf(parent)[a] /\ DepthsOf(parent)[a] \in Nat
    BY <1>3, <1>4
  <2> QED
    BY <1>4, <1>6, <2>1, RegistryAssumption
<1> QED
  BY <1>3, <1>5, <1>7, DepthIsDepthsOf

(* A step that makes no agent, gives none a parent, launches no agent that *)
(* was spawned and takes back no failure leaves the bounds as they are.    *)
LEMMA NoOneIsSpawned ==
  ASSUME DelegationInv, RegistryInv', UNCHANGED parent,
         \A b \in Agents : agent[b] # "none" => agent'[b] # "none",
         \A b \in Spawned : agent[b] = "none" => agent'[b] = "none",
         \A b \in Spawned : worker[b] = "none" => worker'[b] = "none",
         \A b \in Spawned : agent[b] = "failed" => agent'[b] = "failed"
  PROVE  DelegationInv'
<1> USE DEF DelegationInv, Agents
<1>1. ParentsAreOlder' /\ NumberedInOrder'
  <2>1. ParentsAreOlder'
    BY DEF ParentsAreOlder, RegistryInv, RegistryTypeOK
  <2>2. NumberedInOrder'
    BY DEF NumberedInOrder
  <2> QED
    BY <2>1, <2>2
<1>2. \A a \in Agents : Depth'[a] = Depth[a]
  BY DepthIsDepthsOf
<1>3. \A a \in Agents : Counting(a)' \subseteq Counting(a)
  BY DEF Counting
<1>4. \A a \in Agents : Cardinality(Counting(a)') <= MaxChildren
  BY <1>3, FewerChildren
<1>5. DelegationIsBounded'
  BY <1>2, <1>4 DEF DelegationIsBounded, Counting
<1> QED
  BY <1>1, <1>5

(* A new agent is younger than the one that makes it. *)
LEMMA NewAgentIsYounger ==
  ASSUME DelegationInv, RegistryInv', NEW a \in Agents, NEW c \in Spawned, HasGrant(a), NextAgent(c),
         agent' = [agent EXCEPT ![c] = "idle"], parent' = [parent EXCEPT ![c] = a]
  PROVE  /\ a # c /\ c \in Agents /\ agent[c] = "none" /\ worker[c] = "none"
         /\ parent' \in [Agents -> Agents \cup {NoParent}]
         /\ ParentsAreOlder' /\ NumberedInOrder'
<1> USE DEF Agents
<1>1. /\ agent \in [Agents -> {"none", "completed", "failed"} \cup Counted]
      /\ parent \in [Agents -> Agents \cup {NoParent}]
      /\ agent[c] = "none" /\ worker[c] = "none" /\ agent[a] # "none"
  BY DEF DelegationInv, RegistryInv, RegistryTypeOK, NextAgent, HasGrant, AtWorkIsCounted, LaunchedIsRegistered,
     AtWork, Counted
<1>2. a \in Spawned => a < c
  BY <1>1, RegistryAssumption DEF NextAgent, DelegationInv, NumberedInOrder, Spawned
<1>3. /\ \A b \in Agents : agent'[b] = IF b = c THEN "idle" ELSE agent[b]
      /\ \A b \in Agents : parent'[b] = IF b = c THEN a ELSE parent[b]
  BY <1>1
<1>4. ParentsAreOlder'
  BY <1>1, <1>2, <1>3 DEF DelegationInv, ParentsAreOlder
<1>5. NumberedInOrder'
  BY <1>1, <1>3 DEF NumberedInOrder, NextAgent, DelegationInv
<1> QED
  BY <1>1, <1>4, <1>5

(* Spawning keeps the bounds, also where the task cannot be made. *)
LEMMA SpawningIsBounded ==
  ASSUME DelegationInv, RegistryInv', NEW a \in Agents, NEW c \in Spawned,
         SpawnAgent(a, c) \/ SpawnBreaks(a, c)
  PROVE  DelegationInv'
<1>0. /\ HasGrant(a) /\ MaySpawn(a) /\ NextAgent(c) /\ Depth[a] < MaxDepth
      /\ agent' = [agent EXCEPT ![c] = "idle"] /\ parent' = [parent EXCEPT ![c] = a]
      /\ worker' = worker \/ worker' = [worker EXCEPT ![c] = "launching"]
      /\ agent \in [Agents -> {"none", "completed", "failed"} \cup Counted]
      /\ parent \in [Agents -> Agents \cup {NoParent}]
      /\ worker \in [Agents -> {"none", "over"} \cup AtWork]
  BY DEF SpawnAgent, SpawnBreaks, MaySpawn, Becomes, Session, DelegationInv, RegistryInv, RegistryTypeOK
<1>1. /\ a # c /\ c \in Agents /\ agent[c] = "none" /\ worker[c] = "none"
      /\ parent' \in [Agents -> Agents \cup {NoParent}]
      /\ ParentsAreOlder' /\ NumberedInOrder'
  BY <1>0, NewAgentIsYounger
<1>2. \A b \in Agents : Depth'[b] <= MaxDepth
  BY <1>0, <1>1, DepthOfChild
<1>3. /\ \A b \in Spawned : b \in Agents
      /\ \A b \in Agents : agent'[b] = IF b = c THEN "idle" ELSE agent[b]
      /\ \A b \in Agents : parent'[b] = IF b = c THEN a ELSE parent[b]
      /\ \A b \in Agents : b # c => worker'[b] = worker[b]
  BY <1>0 DEF Agents
<1>4. ASSUME NEW b \in Agents
      PROVE  Cardinality(Counting(b)') <= MaxChildren
  <2>1. CASE Counting(b)' \subseteq Counting(b)
    BY <2>1, FewerChildren
  <2>2. CASE ~ (Counting(b)' \subseteq Counting(b))
    <3>1. b = a
      BY <1>3, <2>2 DEF Counting
    <3>2. Counting(a)' = Counting(a) \cup {c}
      BY <1>1, <1>3, <2>2, <3>1 DEF Counting
    <3> QED
      BY <1>0, <3>1, <3>2, OneMoreChild
  <2> QED
    BY <2>1, <2>2
<1>5. DelegationIsBounded'
  BY <1>2, <1>4 DEF DelegationIsBounded, Counting
<1> QED
  BY <1>1, <1>5 DEF DelegationInv

(* Every step keeps what bounds a delegation. *)
LEMMA NextDelegationInv == DelegationInv /\ [RegistryNext]_registryVars => DelegationInv'
<1> SUFFICES ASSUME DelegationInv, [RegistryNext]_registryVars
             PROVE  DelegationInv'
  OBVIOUS
<1>0. RegistryInv /\ RegistryInv' /\ Spawned \subseteq Agents
  BY NextRegistryInv DEF DelegationInv, Agents
<1> DEFINE Quiet == /\ UNCHANGED parent
                    /\ \A b \in Agents : agent[b] # "none" => agent'[b] # "none"
                    /\ \A b \in Spawned : agent[b] = "none" => agent'[b] = "none"
                    /\ \A b \in Spawned : worker[b] = "none" => worker'[b] = "none"
                    /\ \A b \in Spawned : agent[b] = "failed" => agent'[b] = "failed"
<1>10. Quiet => DelegationInv'
  BY <1>0, NoOneIsSpawned
<1>11. /\ agent \in [Agents -> {"none", "completed", "failed"} \cup Counted]
       /\ worker \in [Agents -> {"none", "over"} \cup AtWork]
       /\ Spawned \cap Planned = {}
       /\ \A b \in Agents : worker[b] \in AtWork => agent[b] \in Counted
       /\ \A b \in Agents : worker[b] # "none" => agent[b] # "none"
  BY <1>0, RegistryAssumption DEF RegistryInv, RegistryTypeOK, AtWorkIsCounted, LaunchedIsRegistered
<1>1. ASSUME NEW a \in Agents, NEW c \in Spawned, SpawnAgent(a, c) \/ SpawnBreaks(a, c)
      PROVE  DelegationInv'
  BY <1>0, <1>1, SpawningIsBounded
<1>2. ASSUME NEW p \in Agents, Dispatch(p)
      PROVE  Quiet
  BY <1>0, <1>2, <1>11 DEF Dispatch, Becomes, Session
<1>3. ASSUME NEW a \in Agents, AgentStarts(a) \/ LaunchFails(a) \/ AgentStopped(a)
      PROVE  Quiet
  BY <1>0, <1>3, <1>11 DEF AgentStarts, LaunchFails, AgentStopped, Becomes, Session, AtWork, Counted
<1>4. ASSUME NEW a \in Agents, NEW told \in {"running", "waiting"}, Reports(a, told)
      PROVE  Quiet
  BY <1>0, <1>4, <1>11 DEF Reports, Becomes, HasGrant, AtWork, Counted
<1>5. ASSUME NEW a \in Agents, NEW told \in {"completed", "failed"}, AgentEnds(a, told)
      PROVE  Quiet
  BY <1>0, <1>5, <1>11 DEF AgentEnds, Becomes, Session, AtWork, Counted
<1>6. ASSUME NEW cancel \in BOOLEAN, StopAgents(cancel)
      PROVE  Quiet
  BY <1>0, <1>6, <1>11 DEF StopAgents
<1>7. CASE RegistryRestarts
  <2>1. /\ UNCHANGED <<agent, parent>>
        /\ worker' = [a \in Agents |-> IF worker[a] \in AtWork THEN "over" ELSE worker[a]]
    BY <1>7 DEF RegistryRestarts
  <2>2. \A b \in Agents : worker[b] = "none" => worker'[b] = "none"
    BY <2>1 DEF AtWork
  <2> QED
    BY <1>0, <1>10, <2>1, <2>2
<1>8. CASE UNCHANGED registryVars
  BY <1>8, <1>10 DEF registryVars
<1> HIDE DEF Quiet
<1> QED
  BY <1>1, <1>2, <1>3, <1>4, <1>5, <1>6, <1>7, <1>8, <1>10 DEF RegistryNext, AgentStep

(* No agent yet: no parents, no depth, nothing counted. *)
LEMMA InitDelegationInv == RegistryInit => DelegationInv
<1> SUFFICES ASSUME RegistryInit
             PROVE  DelegationInv
  OBVIOUS
<1>1. {c \in Spawned : worker[c] \in AtWork} = {}
  BY DEF RegistryInit, AtWork, Agents
<1>2. RegistryInv
  BY <1>1, RegistryAssumption, FS_EmptySet DEF RegistryInit, RegistryInv, RegistryTypeOK, AtWorkIsCounted,
     CapacityIsReleased, LaunchedIsRegistered, SpawnedWithinLimit, Active, AtWork, Counted
<1>3. \A a \in Agents : parent[a] = NoParent /\ agent[a] = "none" /\ worker[a] = "none"
  BY DEF RegistryInit
<1>4. ParentsAreOlder /\ NumberedInOrder
  BY <1>3 DEF ParentsAreOlder, NumberedInOrder, Agents
<1>5. \A a \in Agents : Depth[a] = 0
  <2>1. parent \in [Agents -> Agents \cup {NoParent}] /\ Older(parent)
    BY <1>2, <1>3 DEF RegistryInv, RegistryTypeOK, Older
  <2> QED
    BY <1>3, <2>1, DepthsExist, DepthIsDepthsOf DEF AreDepths
<1>6. \A a \in Agents : Counting(a) = {}
  BY <1>3 DEF Counting, Agents
<1>7. DelegationIsBounded
  BY <1>5, <1>6, RegistryAssumption, FS_EmptySet DEF DelegationIsBounded, Counting
<1> QED
  BY <1>2, <1>4, <1>7 DEF DelegationInv

(* Agents at work are counted, spawned ones never exceed the limit of the  *)
(* mission, delegation is bounded in depth and in children, and capacity   *)
(* is lost to stops and breaks alone.                                      *)
THEOREM RegistryIsSafe == RegistrySpec => []RegistrySafety
<1>1. DelegationInv => RegistrySafety
  BY DEF DelegationInv, RegistryInv, RegistrySafety
<1> QED
  BY <1>1, InitDelegationInv, NextDelegationInv, PTL DEF RegistrySpec

-----------------------------------------------------------------------------
(* NewSibling.                                                             *)

(* The four kinds of marker are told apart, and each names its operation.  *)
LEMMA MarkersDiffer ==
  /\ NoMarker # TornMarker /\ NoMarker \in Marker /\ TornMarker \in Marker
  /\ \A o \in Publishers :
       /\ OpenMarker(o) \in Marker \ {NoMarker, TornMarker} /\ FullMarker(o) \in Marker \ {NoMarker, TornMarker}
       /\ \A p \in Publishers :
            /\ OpenMarker(o) # FullMarker(p)
            /\ OpenMarker(o) = OpenMarker(p) => o = p
            /\ FullMarker(o) = FullMarker(p) => o = p
BY PublisherAssumption DEF Marker, NoMarker, TornMarker, OpenMarker, FullMarker

(* Writing the marker changes nothing else of the directory.               *)
LEMMA MarkChangesMarker ==
  ASSUME SiblingTypeOK, NEW m \in Marker, Mark(m)
  PROVE  /\ folder' \in [exists : BOOLEAN, marker : Marker, files : [1 .. Files -> Publishers \cup {User, Nobody}]]
         /\ folder'.marker = m /\ folder'.exists = folder.exists /\ folder'.files = folder.files
<1> HIDE DEF Marker
<1> QED
  BY DEF SiblingTypeOK, Mark

(* An operation takes a step, the others stay where they are.              *)
LEMMA StepMoves ==
  ASSUME SiblingTypeOK, NEW o \in Publishers, NEW s \in Steps, To(o, s)
  PROVE  /\ step' \in [Publishers -> Steps] /\ step'[o] = s
         /\ \A p \in Publishers : p # o => step'[p] = step[p]
<1> HIDE DEF Steps
<1> QED
  BY DEF SiblingTypeOK, To

(* Looking, creating, marking, copying, sealing and recording, failures,   *)
(* deaths and the directories of the user preserve the invariant.          *)
LEMMA NextSiblingInv == SiblingInv /\ [SiblingNext]_siblingVars => SiblingInv'
<1> SUFFICES ASSUME SiblingInv, [SiblingNext]_siblingVars
             PROVE  SiblingInv'
  OBVIOUS
<1> USE PublisherAssumption, MarkersDiffer DEF Filling
<1> DEFINE OfFolder == OneWriter /\ PartialIsMarked /\ RecordedIsComplete /\ MarkerIsTrue
           OfSteps == NothingBeforeTheFolder /\ StepsAreTrue /\ OneFiller
<1>a. SiblingTypeOK /\ OfFolder /\ OfSteps /\ NothingCopiedYet
  BY DEF SiblingInv
<1>b. SiblingTypeOK' /\ OfFolder' /\ OfSteps' /\ NothingCopiedYet' => SiblingInv'
  BY DEF SiblingInv
<1> HIDE DEF Marker, NoMarker, TornMarker, OpenMarker, FullMarker
<1>c. ASSUME NEW o \in Publishers
      PROVE  o \in Writers <=> \E f \in 1 .. Files : folder.files[f] = o
  BY <1>c DEF Writers
<1>d. ASSUME NEW o \in Publishers
      PROVE  (o \in Writers <=> \E f \in 1 .. Files : folder.files[f] = o)'
  BY <1>d DEF Writers
<1>e. ASSUME UNCHANGED <<folder, recorded>>
      PROVE  OfFolder'
  BY <1>a, <1>e DEF OneWriter, PartialIsMarked, RecordedIsComplete, MarkerIsTrue, Writers, Writes
<1>1. ASSUME NEW o \in Publishers, Look(o)
      PROVE  SiblingInv'
  <2>1. UNCHANGED <<folder, recorded, cuts>> /\ copied' = [copied EXCEPT ![o] = 0]
    BY <1>1 DEF Look
  <2>2. PICK s \in {"staged", "copying", "published", "refused"} :
          /\ To(o, s)
          /\ s = "copying" => folder.exists /\ folder.marker = OpenMarker(o)
          /\ s = "published" => /\ folder.exists
                               /\ \/ folder.marker = FullMarker(o)
                                  \/ folder.marker = NoMarker /\ o \in recorded
    BY <1>1 DEF Look, Verdict
  <2>3. /\ step' \in [Publishers -> Steps] /\ step'[o] = s
        /\ \A p \in Publishers : p # o => step'[p] = step[p]
    BY <1>a, <2>2, StepMoves DEF Steps
  <2>4. copied' \in [Publishers -> 0 .. Files] /\ copied'[o] = 0 /\ \A p \in Publishers : p # o => copied'[p] = copied[p]
    BY <1>a, <2>1 DEF SiblingTypeOK
  <2>5. SiblingTypeOK'
    BY <1>a, <2>1, <2>3, <2>4 DEF SiblingTypeOK
  <2>6. s = "published" => Writes(o, 1 .. Files)
    BY <1>a, <2>2 DEF MarkerIsTrue, RecordedIsComplete, Writes
  <2>7. NothingBeforeTheFolder' /\ OneFiller'
    BY <1>a, <2>1, <2>2, <2>3 DEF NothingBeforeTheFolder, OneFiller, Writes
  <2>8. StepsAreTrue'
    BY <1>a, <2>1, <2>2, <2>3, <2>4, <2>6 DEF StepsAreTrue, Writes
  <2>c. NothingCopiedYet'
    BY <1>a, <2>2, <2>3, <2>4 DEF NothingCopiedYet
  <2> QED
    BY <1>b, <1>e, <2>1, <2>5, <2>7, <2>8, <2>c
<1>2. ASSUME NEW o \in Publishers, MakeFolder(o)
      PROVE  SiblingInv'
  <2>1. UNCHANGED <<copied, recorded, cuts>> /\ step[o] = "staged"
    BY <1>2 DEF MakeFolder
  <2>2. CASE folder.exists
    <3>1. folder' = folder /\ To(o, "refused")
      BY <1>2, <2>2 DEF MakeFolder
    <3>2. /\ step' \in [Publishers -> Steps] /\ step'[o] = "refused"
          /\ \A p \in Publishers : p # o => step'[p] = step[p]
      BY <1>a, <3>1, StepMoves DEF Steps
    <3>3. SiblingTypeOK' /\ OfSteps'
      BY <1>a, <2>1, <3>1, <3>2 DEF SiblingTypeOK, NothingBeforeTheFolder, StepsAreTrue, OneFiller, Writes
    <3>4. NothingCopiedYet'
      BY <1>a, <2>1, <3>2 DEF NothingCopiedYet
    <3> QED
      BY <1>b, <1>e, <2>1, <3>1, <3>3, <3>4
  <2>3. CASE ~folder.exists
    <3>1. folder' = [folder EXCEPT !.exists = TRUE] /\ To(o, "made")
      BY <1>2, <2>3 DEF MakeFolder
    <3>2. /\ step' \in [Publishers -> Steps] /\ step'[o] = "made"
          /\ \A p \in Publishers : p # o => step'[p] = step[p]
      BY <1>a, <3>1, StepMoves DEF Steps
    <3>3. /\ folder' \in [exists : BOOLEAN, marker : Marker, files : [1 .. Files -> Publishers \cup {User, Nobody}]]
          /\ folder'.exists /\ folder'.marker = folder.marker /\ folder'.files = folder.files
      BY <1>a, <3>1 DEF SiblingTypeOK
    <3>4. SiblingTypeOK'
      BY <1>a, <2>1, <3>2, <3>3 DEF SiblingTypeOK
    <3>5. /\ folder.marker = NoMarker /\ Writes(Nobody, 1 .. Files) /\ recorded = {}
          /\ \A p \in Publishers : step[p] \notin Filling
      BY <1>a, <2>3 DEF NothingBeforeTheFolder
    <3>6. OfFolder'
      BY <1>d, <2>1, <3>3, <3>5 DEF OneWriter, PartialIsMarked, RecordedIsComplete, MarkerIsTrue, Writes
    <3>7. OfSteps'
      BY <3>2, <3>3, <3>5 DEF NothingBeforeTheFolder, StepsAreTrue, OneFiller, Writes
    <3>8. NothingCopiedYet'
      BY <1>a, <2>1, <3>2 DEF NothingCopiedYet
    <3> QED
      BY <1>b, <3>4, <3>6, <3>7, <3>8
  <2> QED
    BY <2>2, <2>3
<1>3. ASSUME NEW o \in Publishers, CreateMarker(o)
      PROVE  SiblingInv'
  <2>1. UNCHANGED <<copied, recorded, cuts>> /\ step[o] = "made" /\ folder.marker = NoMarker
        /\ Mark(TornMarker) /\ To(o, "marking")
    BY <1>3 DEF CreateMarker
  <2>2. /\ step' \in [Publishers -> Steps] /\ step'[o] = "marking"
        /\ \A p \in Publishers : p # o => step'[p] = step[p]
    BY <1>a, <2>1, StepMoves DEF Steps
  <2>3. /\ folder' \in [exists : BOOLEAN, marker : Marker, files : [1 .. Files -> Publishers \cup {User, Nobody}]]
        /\ folder'.marker = TornMarker /\ folder'.exists = folder.exists /\ folder'.files = folder.files
    BY <1>a, <2>1, MarkChangesMarker
  <2>4. SiblingTypeOK'
    BY <1>a, <2>1, <2>2, <2>3 DEF SiblingTypeOK
  <2>5. folder.exists /\ Writes(Nobody, 1 .. Files) /\ recorded = {}
    <3>1. folder.exists /\ Writes(Nobody, 1 .. Files)
      BY <1>a, <2>1 DEF NothingBeforeTheFolder, StepsAreTrue
    <3>2. folder.files[1] = Nobody /\ \A p \in recorded : folder.files[1] = p
      BY <1>a, <3>1 DEF RecordedIsComplete, Writes
    <3> QED
      BY <1>a, <3>1, <3>2 DEF SiblingTypeOK
  <2>6. OfFolder'
    BY <1>d, <2>1, <2>3, <2>5 DEF OneWriter, PartialIsMarked, RecordedIsComplete, MarkerIsTrue, Writes
  <2>7. \A p \in Publishers : p # o => step[p] \notin Filling
    BY <1>a, <2>1, <2>5 DEF StepsAreTrue, OneFiller, Writes
  <2>8. OfSteps'
    BY <2>2, <2>3, <2>5, <2>7 DEF NothingBeforeTheFolder, StepsAreTrue, OneFiller, Writes
  <2>c. NothingCopiedYet'
    BY <1>a, <2>1, <2>2 DEF NothingCopiedYet
  <2> QED
    BY <1>b, <2>4, <2>6, <2>8, <2>c
<1>4. ASSUME NEW o \in Publishers, WriteMarker(o)
      PROVE  SiblingInv'
  <2>1. UNCHANGED <<copied, recorded, cuts>> /\ step[o] = "marking" /\ Mark(OpenMarker(o)) /\ To(o, "copying")
    BY <1>4 DEF WriteMarker
  <2>2. /\ step' \in [Publishers -> Steps] /\ step'[o] = "copying"
        /\ \A p \in Publishers : p # o => step'[p] = step[p]
    BY <1>a, <2>1, StepMoves DEF Steps
  <2>3. /\ folder' \in [exists : BOOLEAN, marker : Marker, files : [1 .. Files -> Publishers \cup {User, Nobody}]]
        /\ folder'.marker = OpenMarker(o) /\ folder'.exists = folder.exists /\ folder'.files = folder.files
    BY <1>a, <2>1, MarkChangesMarker
  <2>4. SiblingTypeOK'
    BY <1>a, <2>1, <2>2, <2>3 DEF SiblingTypeOK
  <2>5. folder.exists /\ folder.marker = TornMarker /\ Writes(Nobody, 1 .. Files) /\ copied[o] = 0
    BY <1>a, <2>1 DEF NothingBeforeTheFolder, StepsAreTrue, NothingCopiedYet
  <2>6. \A p \in Publishers : p # o => step[p] \notin Filling /\ p \notin recorded
    BY <1>a, <2>1, <2>5 DEF StepsAreTrue, OneFiller, RecordedIsComplete, MarkerIsTrue, Writes
  <2>7. OfFolder'
    BY <1>a, <1>d, <2>1, <2>3, <2>5, <2>6 DEF OneWriter, PartialIsMarked, RecordedIsComplete, MarkerIsTrue, Writes
  <2>8. OfSteps'
    BY <2>1, <2>2, <2>3, <2>5, <2>6 DEF NothingBeforeTheFolder, StepsAreTrue, OneFiller, Writes
  <2>c. NothingCopiedYet'
    BY <1>a, <2>1, <2>2 DEF NothingCopiedYet
  <2> QED
    BY <1>b, <2>4, <2>7, <2>8, <2>c
<1>5. ASSUME NEW o \in Publishers, CopyFile(o)
      PROVE  SiblingInv'
  <2>0. PICK n : n = copied[o] + 1
    OBVIOUS
  <2>1. UNCHANGED <<recorded, cuts>> /\ step[o] = "copying" /\ copied' = [copied EXCEPT ![o] = n]
        /\ folder' = [folder EXCEPT !.files[n] = o] /\ To(o, IF n = Files THEN "copied" ELSE "copying")
    BY <2>0, <1>5 DEF CopyFile
  <2>2. /\ folder.exists /\ folder.marker = OpenMarker(o) /\ copied[o] < Files /\ Writes(o, 1 .. copied[o])
        /\ copied[o] \in 0 .. Files /\ \A f \in 1 .. Files : folder.files[f] \in {o, Nobody}
    BY <1>a, <2>1 DEF NothingBeforeTheFolder, StepsAreTrue, MarkerIsTrue, SiblingTypeOK
  <2>3. /\ folder' \in [exists : BOOLEAN, marker : Marker, files : [1 .. Files -> Publishers \cup {User, Nobody}]]
        /\ folder'.marker = OpenMarker(o) /\ folder'.exists
        /\ \A f \in 1 .. Files : folder'.files[f] = IF f = n THEN o ELSE folder.files[f]
    BY <2>0, <1>a, <2>1, <2>2 DEF SiblingTypeOK
  <2>4. /\ step' \in [Publishers -> Steps] /\ step'[o] = IF n = Files THEN "copied" ELSE "copying"
        /\ \A p \in Publishers : p # o => step'[p] = step[p]
    BY <1>a, <2>1, StepMoves DEF Steps
  <2>5. copied' \in [Publishers -> 0 .. Files] /\ copied'[o] = n /\ \A p \in Publishers : p # o => copied'[p] = copied[p]
    BY <2>0, <1>a, <2>1, <2>2 DEF SiblingTypeOK
  <2>6. SiblingTypeOK'
    BY <1>a, <2>1, <2>3, <2>4, <2>5 DEF SiblingTypeOK
  <2>7. \A p \in Publishers : p # o => step[p] \notin Filling /\ p \notin recorded
    BY <1>a, <2>2 DEF StepsAreTrue, RecordedIsComplete, Writes
  <2>8. \A f \in 1 .. Files : folder'.files[f] \in {o, Nobody}
    BY <2>2, <2>3
  <2>9. RecordedIsComplete'
    <3>1. recorded' = recorded /\ recorded \subseteq {o}
      BY <1>a, <2>1, <2>7 DEF SiblingTypeOK
    <3>2. \A p \in recorded, f \in 1 .. Files : folder'.files[f] = o
      BY <1>a, <2>3, <3>1 DEF RecordedIsComplete
    <3> QED
      BY <3>1, <3>2 DEF RecordedIsComplete
  <2>10. OneWriter' /\ PartialIsMarked' /\ MarkerIsTrue'
    BY <1>d, <2>3, <2>8 DEF OneWriter, PartialIsMarked, MarkerIsTrue, Writes
  <2>11. Writes(o, 1 .. n)'
    BY <2>0, <2>2, <2>3 DEF Writes
  <2>12. n \in 1 .. Files
    BY <2>0, <2>2
  <2>13. NothingBeforeTheFolder' /\ OneFiller'
    BY <2>3, <2>4, <2>7 DEF NothingBeforeTheFolder, OneFiller
  <2>14. StepsAreTrue'
    BY <2>3, <2>4, <2>5, <2>7, <2>11, <2>12 DEF StepsAreTrue, Writes
  <2>c. NothingCopiedYet'
    BY <2>0, <1>a, <2>1, <2>4, <2>5 DEF NothingCopiedYet
  <2> QED
    BY <1>b, <2>6, <2>9, <2>10, <2>13, <2>14, <2>c
<1>6. ASSUME NEW o \in Publishers, TruncateMarker(o)
      PROVE  SiblingInv'
  <2>1. UNCHANGED <<copied, recorded, cuts>> /\ step[o] = "copied" /\ Mark(TornMarker) /\ To(o, "sealing")
    BY <1>6 DEF TruncateMarker
  <2>2. /\ step' \in [Publishers -> Steps] /\ step'[o] = "sealing"
        /\ \A p \in Publishers : p # o => step'[p] = step[p]
    BY <1>a, <2>1, StepMoves DEF Steps
  <2>3. /\ folder' \in [exists : BOOLEAN, marker : Marker, files : [1 .. Files -> Publishers \cup {User, Nobody}]]
        /\ folder'.marker = TornMarker /\ folder'.exists = folder.exists /\ folder'.files = folder.files
    BY <1>a, <2>1, MarkChangesMarker
  <2>4. SiblingTypeOK'
    BY <1>a, <2>1, <2>2, <2>3 DEF SiblingTypeOK
  <2>5. folder.exists /\ folder.marker = OpenMarker(o) /\ Writes(o, 1 .. Files)
    BY <1>a, <2>1 DEF NothingBeforeTheFolder, StepsAreTrue, NothingCopiedYet
  <2>6. \A p \in Publishers : p # o => step[p] \notin Filling /\ p \notin recorded
    BY <1>a, <2>1, <2>5 DEF StepsAreTrue, OneFiller, RecordedIsComplete, MarkerIsTrue, Writes
  <2>7. OfFolder'
    BY <1>a, <1>d, <2>1, <2>3, <2>5, <2>6 DEF OneWriter, PartialIsMarked, RecordedIsComplete, MarkerIsTrue, Writes
  <2>8. OfSteps'
    BY <2>1, <2>2, <2>3, <2>5, <2>6 DEF NothingBeforeTheFolder, StepsAreTrue, OneFiller, Writes
  <2>c. NothingCopiedYet'
    BY <1>a, <2>1, <2>2 DEF NothingCopiedYet
  <2> QED
    BY <1>b, <2>4, <2>7, <2>8, <2>c
<1>7. ASSUME NEW o \in Publishers, SealMarker(o)
      PROVE  SiblingInv'
  <2>1. UNCHANGED <<copied, recorded, cuts>> /\ step[o] = "sealing" /\ Mark(FullMarker(o)) /\ To(o, "published")
    BY <1>7 DEF SealMarker
  <2>2. /\ step' \in [Publishers -> Steps] /\ step'[o] = "published"
        /\ \A p \in Publishers : p # o => step'[p] = step[p]
    BY <1>a, <2>1, StepMoves DEF Steps
  <2>3. /\ folder' \in [exists : BOOLEAN, marker : Marker, files : [1 .. Files -> Publishers \cup {User, Nobody}]]
        /\ folder'.marker = FullMarker(o) /\ folder'.exists = folder.exists /\ folder'.files = folder.files
    BY <1>a, <2>1, MarkChangesMarker
  <2>4. SiblingTypeOK'
    BY <1>a, <2>1, <2>2, <2>3 DEF SiblingTypeOK
  <2>5. folder.exists /\ folder.marker = TornMarker /\ Writes(o, 1 .. Files)
    BY <1>a, <2>1 DEF NothingBeforeTheFolder, StepsAreTrue, NothingCopiedYet
  <2>6. \A p \in Publishers : p # o => step[p] \notin Filling /\ p \notin recorded
    BY <1>a, <2>1, <2>5 DEF StepsAreTrue, OneFiller, RecordedIsComplete, MarkerIsTrue, Writes
  <2>7. OfFolder'
    BY <1>a, <1>d, <2>1, <2>3, <2>5, <2>6 DEF OneWriter, PartialIsMarked, RecordedIsComplete, MarkerIsTrue, Writes
  <2>8. OfSteps'
    BY <2>1, <2>2, <2>3, <2>5, <2>6 DEF NothingBeforeTheFolder, StepsAreTrue, OneFiller, Writes
  <2>c. NothingCopiedYet'
    BY <1>a, <2>1, <2>2 DEF NothingCopiedYet
  <2> QED
    BY <1>b, <2>4, <2>7, <2>8, <2>c
<1>8. ASSUME NEW o \in Publishers, RecordApplied(o)
      PROVE  SiblingInv'
  <2>1. UNCHANGED <<folder, copied, cuts>> /\ step[o] = "published" /\ To(o, "recorded") /\ recorded' = recorded \cup {o}
    BY <1>8 DEF RecordApplied
  <2>2. /\ step' \in [Publishers -> Steps] /\ step'[o] = "recorded"
        /\ \A p \in Publishers : p # o => step'[p] = step[p]
    BY <1>a, <2>1, StepMoves DEF Steps
  <2>3. SiblingTypeOK'
    BY <1>a, <2>1, <2>2 DEF SiblingTypeOK
  <2>4. folder.exists /\ Writes(o, 1 .. Files)
    BY <1>a, <2>1 DEF NothingBeforeTheFolder, StepsAreTrue
  <2>5. OfFolder'
    BY <1>a, <1>c, <1>d, <2>1, <2>4 DEF OneWriter, PartialIsMarked, RecordedIsComplete, MarkerIsTrue, Writes
  <2>6. OfSteps'
    BY <1>a, <2>1, <2>2, <2>4 DEF NothingBeforeTheFolder, StepsAreTrue, OneFiller, Writes
  <2>c. NothingCopiedYet'
    BY <1>a, <2>1, <2>2 DEF NothingCopiedYet
  <2> QED
    BY <1>b, <2>3, <2>5, <2>6, <2>c
<1>9. ASSUME NEW o \in Publishers, RemoveMarker(o)
      PROVE  SiblingInv'
  <2>1. UNCHANGED <<copied, recorded, cuts>> /\ step[o] = "recorded" /\ Mark(NoMarker) /\ To(o, "over") /\ folder.marker \in {NoMarker, FullMarker(o)}
    BY <1>9 DEF RemoveMarker
  <2>2. /\ step' \in [Publishers -> Steps] /\ step'[o] = "over"
        /\ \A p \in Publishers : p # o => step'[p] = step[p]
    BY <1>a, <2>1, StepMoves DEF Steps
  <2>3. /\ folder' \in [exists : BOOLEAN, marker : Marker, files : [1 .. Files -> Publishers \cup {User, Nobody}]]
        /\ folder'.marker = NoMarker /\ folder'.exists = folder.exists /\ folder'.files = folder.files
    BY <1>a, <2>1, MarkChangesMarker
  <2>4. SiblingTypeOK'
    BY <1>a, <2>1, <2>2, <2>3 DEF SiblingTypeOK
  <2>5. folder.exists /\ Writes(o, 1 .. Files)
    BY <1>a, <2>1 DEF NothingBeforeTheFolder, StepsAreTrue, NothingCopiedYet
  <2>6. \A p \in Publishers : p # o => step[p] \notin Filling /\ p \notin recorded
    BY <1>a, <2>1, <2>5 DEF StepsAreTrue, OneFiller, RecordedIsComplete, MarkerIsTrue, Writes
  <2>7. OfFolder'
    BY <1>a, <1>d, <2>1, <2>3, <2>5, <2>6 DEF OneWriter, PartialIsMarked, RecordedIsComplete, MarkerIsTrue, Writes
  <2>8. OfSteps'
    BY <2>1, <2>2, <2>3, <2>5, <2>6 DEF NothingBeforeTheFolder, StepsAreTrue, OneFiller, Writes
  <2>c. NothingCopiedYet'
    BY <1>a, <2>1, <2>2 DEF NothingCopiedYet
  <2> QED
    BY <1>b, <2>4, <2>7, <2>8, <2>c
<1>10. ASSUME NEW o \in Publishers, StepFails(o)
       PROVE  SiblingInv'
  <2>1. UNCHANGED <<folder, copied, recorded>> /\ cuts' \in 0 .. MaxCuts /\ To(o, "idle")
    BY <1>10, <1>a DEF StepFails, SiblingTypeOK
  <2>2. /\ step' \in [Publishers -> Steps] /\ step'[o] = "idle"
        /\ \A p \in Publishers : p # o => step'[p] = step[p]
    BY <1>a, <2>1, StepMoves DEF Steps
  <2>3. SiblingTypeOK' /\ OfSteps'
    BY <1>a, <2>1, <2>2, SMTT(30) DEF SiblingTypeOK, NothingBeforeTheFolder, StepsAreTrue, OneFiller, Writes
  <2>c. NothingCopiedYet'
    BY <1>a, <2>1, <2>2 DEF NothingCopiedYet
  <2> QED
    BY <1>b, <1>e, <2>1, <2>3, <2>c
<1>11. CASE DieWhilePublishing
  <2>1. UNCHANGED <<folder, copied, recorded>> /\ cuts' \in 0 .. MaxCuts
        /\ step' = [o \in Publishers |-> IF step[o] = "over" THEN "over" ELSE "idle"]
    BY <1>11, <1>a DEF DieWhilePublishing, SiblingTypeOK
  <2>2. step' \in [Publishers -> Steps] /\ \A o \in Publishers : step'[o] \in {"over", "idle"}
    BY <2>1 DEF Steps
  <2>3. SiblingTypeOK' /\ OfSteps'
    BY <1>a, <2>1, <2>2 DEF SiblingTypeOK, NothingBeforeTheFolder, StepsAreTrue, OneFiller, Writes
  <2>c. NothingCopiedYet'
    BY <1>a, <2>1, <2>2 DEF NothingCopiedYet
  <2> QED
    BY <1>b, <1>e, <2>1, <2>3, <2>c
<1>12. CASE UserMakesFolder
  <2>1. UNCHANGED <<step, copied, recorded, cuts>> /\ folder' = [folder EXCEPT !.exists = TRUE, !.files[1] = User]
        /\ ~folder.exists
    BY <1>12 DEF UserMakesFolder
  <2>2. /\ folder.marker = NoMarker /\ Writes(Nobody, 1 .. Files) /\ recorded = {}
        /\ \A p \in Publishers : step[p] \notin Filling
    BY <1>a, <2>1 DEF NothingBeforeTheFolder
  <2>3. /\ folder' \in [exists : BOOLEAN, marker : Marker, files : [1 .. Files -> Publishers \cup {User, Nobody}]]
        /\ folder'.marker = NoMarker /\ folder'.exists
        /\ \A f \in 1 .. Files : folder'.files[f] = IF f = 1 THEN User ELSE Nobody
    BY <1>a, <2>1, <2>2 DEF SiblingTypeOK, Writes
  <2>4. SiblingTypeOK'
    BY <1>a, <2>1, <2>3 DEF SiblingTypeOK
  <2>5. OfFolder'
    BY <1>d, <2>1, <2>2, <2>3 DEF OneWriter, PartialIsMarked, RecordedIsComplete, MarkerIsTrue, Writes
  <2>6. OfSteps'
    BY <2>1, <2>2, <2>3 DEF NothingBeforeTheFolder, StepsAreTrue, OneFiller
  <2>c. NothingCopiedYet'
    BY <1>a, <2>1, <2>2 DEF NothingCopiedYet
  <2> QED
    BY <1>b, <2>4, <2>5, <2>6, <2>c
<1>13. CASE UNCHANGED siblingVars
  <2>1. UNCHANGED <<folder, step, copied, recorded, cuts>>
    BY <1>13 DEF siblingVars
  <2>2. SiblingTypeOK' /\ OfSteps'
    BY <1>a, <2>1 DEF SiblingTypeOK, NothingBeforeTheFolder, StepsAreTrue, OneFiller, Writes
  <2>c. NothingCopiedYet'
    BY <1>a, <2>1, <2>2 DEF NothingCopiedYet
  <2> QED
    BY <1>b, <1>e, <2>1, <2>2, <2>c
<1> QED
  BY <1>1, <1>2, <1>3, <1>4, <1>5, <1>6, <1>7, <1>8, <1>9, <1>10, <1>11, <1>12, <1>13 DEF SiblingNext, PublishStep

(* No directory, and nobody has begun. *)
LEMMA InitSiblingInv == SiblingInit => SiblingInv
<1> SUFFICES ASSUME SiblingInit
             PROVE  SiblingInv
  OBVIOUS
<1>1. /\ folder \in [exists : BOOLEAN, marker : Marker, files : [1 .. Files -> Publishers \cup {User, Nobody}]]
      /\ ~folder.exists /\ folder.marker = NoMarker /\ folder.files = [f \in 1 .. Files |-> Nobody]
  BY MarkersDiffer DEF SiblingInit
<1>2. SiblingTypeOK
  BY <1>1, PublisherAssumption DEF SiblingInit, SiblingTypeOK, Steps
<1>3. OneWriter /\ PartialIsMarked /\ RecordedIsComplete /\ MarkerIsTrue
  BY <1>1, PublisherAssumption, MarkersDiffer
     DEF SiblingInit, OneWriter, PartialIsMarked, RecordedIsComplete, MarkerIsTrue, Writers
<1>4. NothingBeforeTheFolder /\ StepsAreTrue /\ NothingCopiedYet /\ OneFiller
  BY <1>1 DEF SiblingInit, NothingBeforeTheFolder, StepsAreTrue, NothingCopiedYet, OneFiller, Writes, Filling
<1> QED
  BY <1>2, <1>3, <1>4 DEF SiblingInv

(* Of those who write there is at most one. *)
LEMMA OneWriterIsOneProject == SiblingInv => OneProject
<1> SUFFICES ASSUME SiblingInv
             PROVE  OneProject
  OBVIOUS
<1>1. \A a, b \in Writers : a = b
  BY DEF SiblingInv, OneWriter, Writers
<1>2. Writers = {} \/ \E a \in Writers : Writers = {a}
  BY <1>1
<1> QED
  BY <1>2, FS_EmptySet, FS_Singleton DEF OneProject

(* Whatever operations and the user do at once, and wherever they fail or  *)
(* die: the directory holds the files of one of them, a partial project is *)
(* marked as its operation's, and a recorded one is complete.              *)
THEOREM SiblingIsSafe == SiblingSpec => []SiblingSafety
<1>1. SiblingInv => SiblingSafety
  BY OneWriterIsOneProject DEF SiblingInv, SiblingSafety
<1> QED
  BY <1>1, InitSiblingInv, NextSiblingInv, PTL DEF SiblingSpec

-----------------------------------------------------------------------------
(* DeletionOperation: for every number of requests, phases, failures,      *)
(* lapses and crashes.                                                     *)

USE PhaseAssumption, RunnerAssumption

(* The row that does not exist yet satisfies the invariant. *)
LEMMA InitDeletionInv == DeletionInit => DeletionInv
<1> SUFFICES ASSUME DeletionInit
             PROVE  DeletionInv
  OBVIOUS
<1> USE DEF DeletionInit
<1>1. DeletionTypeOK
  <2>1. 1 \in Phases /\ IdleRunner \in Runner
    BY DEF Runner, IdleRunner, Phases
  <2> QED
    BY <2>1 DEF DeletionTypeOK
<1>2. CursorIsEarned
  BY DEF CursorIsEarned
<1>3. OneWorkerPerLease
  BY DEF OneWorkerPerLease, IdleRunner
<1>4. OwnerAgrees
  BY DEF OwnerAgrees, Working
<1> QED
  BY <1>1, <1>2, <1>3, <1>4 DEF DeletionInv

(* A runner that moves on, to a stage or to the next phase, is a runner. *)
LEMMA RunnerMoves ==
  ASSUME runner \in [Runners -> Runner], NEW r \in Runners,
         NEW pc \in {"idle", "read", "handling"}, NEW p \in Phases
  PROVE  /\ [runner EXCEPT ![r].pc = pc] \in [Runners -> Runner]
         /\ [runner EXCEPT ![r] = [pc |-> pc, phase |-> p]] \in [Runners -> Runner]
         /\ [runner EXCEPT ![r] = IdleRunner] \in [Runners -> Runner]
BY DEF Runner, IdleRunner, Phases

(* The owner that completes its phase has earned the cursor the next one.  *)
LEMMA AdvanceEarns ==
  ASSUME DeletionInv, NEW r \in Runners, HandlerCompletes(r)
  PROVE  DeletionInv'
<1> USE DEF DeletionInv
<1>1. runner[r] \in Runner /\ runner[r].phase \in Phases /\ runner[r].pc = "handling" /\ r # NoOwner
  BY DEF DeletionTypeOK, Runner, HandlerCompletes, Runners
<1>2. handled' = handled \cup {runner[r].phase} /\ handled' \subseteq Phases
  BY <1>1 DEF HandlerCompletes, DeletionTypeOK
<1>3. lapsed' \subseteq Runners /\ UNCHANGED <<failures, lapses, crashes>>
  BY DEF HandlerCompletes, DeletionTypeOK
<1>4. CASE owner # r
  <2>1. UNCHANGED deletionRow /\ runner' = [runner EXCEPT ![r] = IdleRunner] /\ lapsed' = lapsed
    BY <1>4 DEF HandlerCompletes, AdvanceRow
  <2>2. DeletionTypeOK'
    BY <1>2, <1>3, <2>1, RunnerMoves DEF DeletionTypeOK, deletionRow
  <2>3. CursorIsEarned'
    BY <1>2, <2>1 DEF CursorIsEarned, deletionRow
  <2>4. OneWorkerPerLease' /\ OwnerAgrees'
    BY <1>4, <2>1 DEF DeletionTypeOK, OneWorkerPerLease, OwnerAgrees, Working, deletionRow, IdleRunner
  <2> QED
    BY <2>2, <2>3, <2>4
<1>5. CASE owner = r
  <2>1. runner[r].phase = phase /\ status = "running"
    BY <1>1, <1>5 DEF OwnerAgrees, Working
  <2>2. CASE phase < LastPhase
    <3>1. /\ phase' = phase + 1 /\ status' = "running" /\ expired' = FALSE /\ owner' = r
          /\ runner' = [runner EXCEPT ![r] = [pc |-> "handling", phase |-> phase + 1]]
      BY <1>5, <2>1, <2>2 DEF HandlerCompletes, AdvanceRow
    <3>2. phase + 1 \in Phases
      BY <2>2 DEF DeletionTypeOK, Phases
    <3>3. DeletionTypeOK'
      BY <1>2, <1>3, <3>1, <3>2, RunnerMoves DEF DeletionTypeOK
    <3>4. CursorIsEarned'
      BY <1>2, <2>1, <3>1 DEF CursorIsEarned, DeletionTypeOK, Phases
    <3>5. OneWorkerPerLease'
      BY <1>5, <3>1, <3>2 DEF HandlerCompletes, DeletionTypeOK, OneWorkerPerLease
    <3>6. OwnerAgrees'
      BY <1>1, <1>5, <3>1 DEF DeletionTypeOK, OwnerAgrees, Working
    <3> QED
      BY <3>3, <3>4, <3>5, <3>6
  <2>3. CASE ~(phase < LastPhase)
    <3>1. /\ status' = "completed" /\ owner' = NoOwner /\ expired' = FALSE /\ phase' = phase
          /\ runner' = [runner EXCEPT ![r] = IdleRunner]
      BY <1>5, <2>1, <2>3 DEF HandlerCompletes, AdvanceRow
    <3>2. DeletionTypeOK'
      BY <1>2, <1>3, <3>1, RunnerMoves DEF DeletionTypeOK
    <3>3. CursorIsEarned'
      <4>1. phase = LastPhase /\ \A p \in Phases : p = phase \/ p \in 1 .. phase - 1
        BY <2>3 DEF DeletionTypeOK, Phases
      <4>2. 1 .. phase - 1 \subseteq handled
        BY DEF CursorIsEarned
      <4>3. handled' = Phases
        BY <1>2, <2>1, <4>1, <4>2
      <4> QED
        BY <3>1, <4>2, <4>3, <1>2 DEF CursorIsEarned
    <3>4. OneWorkerPerLease'
      BY <1>5, <3>1 DEF HandlerCompletes, DeletionTypeOK, OneWorkerPerLease, IdleRunner
    <3>5. OwnerAgrees'
      BY <3>1 DEF OwnerAgrees, Working, Runners
    <3> QED
      BY <3>2, <3>3, <3>4, <3>5
  <2> QED
    BY <2>2, <2>3
<1> QED
  BY <1>4, <1>5

(* Every step of a request, a runner, a lease or the gateway preserves the *)
(* invariant.                                                              *)
LEMMA NextDeletionInv == DeletionInv /\ [DeletionNext]_deletionVars => DeletionInv'
<1> SUFFICES ASSUME DeletionInv, [DeletionNext]_deletionVars
             PROVE  DeletionInv'
  OBVIOUS
<1> USE DEF DeletionInv, DeletionTypeOK, CursorIsEarned, OneWorkerPerLease, OwnerAgrees, Working, Runner
<1>1. CASE Begin
  BY <1>1 DEF Begin
<1>2. ASSUME NEW r \in Runners, ReadRow(r)
      PROVE  DeletionInv'
  <2>1. runner' \in [Runners -> Runner]
    BY <1>2, RunnerMoves DEF ReadRow
  <2> QED
    BY <1>2, <2>1 DEF ReadRow, deletionRow
<1>3. ASSUME NEW r \in Runners, ClaimPhase(r)
      PROVE  DeletionInv'
  <2>1. runner' \in [Runners -> Runner] /\ lapsed' \subseteq Runners /\ r # NoOwner
    BY <1>3, RunnerMoves DEF ClaimPhase, Runners
  <2>2. \A q \in Runners \ {r} : runner[q].pc = "handling" => q \in lapsed
    BY <1>3 DEF ClaimPhase, Claimable
  <2> QED
    BY <1>3, <2>1, <2>2, ZenonT(40) DEF ClaimPhase, Claimable
<1>4. ASSUME NEW r \in Runners, ReturnUnclaimed(r)
      PROVE  DeletionInv'
  <2>1. runner' \in [Runners -> Runner]
    BY <1>4, RunnerMoves DEF ReturnUnclaimed
  <2> QED
    BY <1>4, <2>1 DEF ReturnUnclaimed, deletionRow, IdleRunner
<1>5. ASSUME NEW r \in Runners, HandlerCompletes(r)
      PROVE  DeletionInv'
  BY <1>5, AdvanceEarns
<1>6. ASSUME NEW r \in Runners, HandlerFails(r)
      PROVE  DeletionInv'
  <2>1. runner' \in [Runners -> Runner] /\ r # NoOwner
    BY <1>6, RunnerMoves DEF HandlerFails, Runners
  <2>2. CASE owner = r
    <3>1. /\ status' = "retryable" /\ owner' = NoOwner /\ expired' = FALSE
          /\ phase' = phase /\ failures' = failures + 1
          /\ runner' = [runner EXCEPT ![r] = IdleRunner]
          /\ UNCHANGED <<handled, lapsed, lapses, crashes>>
      BY <1>6, <2>2 DEF HandlerFails, FailRow
    <3>2. NoOwner \notin Working'
      BY DEF Runners
    <3>3. \A q \in Runners : runner'[q].pc = "handling" => q # r /\ runner'[q] = runner[q]
      BY <3>1 DEF IdleRunner
    <3>4. status # "completed"
      BY <2>1, <2>2
    <3>5. DeletionTypeOK'
      <4>1. failures' \in Nat /\ lapses' \in Nat /\ crashes' \in Nat
        BY <3>1
      <4> QED
        BY <2>1, <3>1, <4>1
    <3>6. CursorIsEarned' /\ OneWorkerPerLease'
      BY <2>2, <3>1, <3>3, <3>4
    <3>7. OwnerAgrees'
      BY <3>1, <3>2
    <3> QED
      BY <3>5, <3>6, <3>7
  <2>3. CASE owner # r
    BY <1>6, <2>1, <2>3 DEF HandlerFails, FailRow, deletionRow, IdleRunner
  <2> QED
    BY <2>2, <2>3
<1>7. ASSUME NEW r \in Runners, RunnerThrows(r)
      PROVE  DeletionInv'
  <2>1. runner' \in [Runners -> Runner]
    BY <1>7, RunnerMoves DEF RunnerThrows
  <2> QED
    BY <1>7, <2>1 DEF RunnerThrows, IdleRunner
<1>8. CASE LeaseLapses
  BY <1>8 DEF LeaseLapses
<1>9. CASE LeaseRunsOut
  BY <1>9 DEF LeaseRunsOut
<1>10. ASSUME NEW r \in Runners, Renew(r)
       PROVE  DeletionInv'
  BY <1>10 DEF Renew
<1>11. CASE RestartDeletion
  <2>1. runner' \in [Runners -> Runner]
    BY <1>11 DEF RestartDeletion, IdleRunner, Phases
  <2>2. \A q \in Runners : runner'[q].pc # "handling"
    BY <1>11 DEF RestartDeletion, IdleRunner
  <2>3. /\ status' \in {"absent", "pending", "running", "retryable", "completed"}
        /\ owner' \in Runners \cup {NoOwner} /\ expired' \in BOOLEAN
        /\ status' = "completed" <=> status = "completed"
        /\ status' = "running" <=> owner' # NoOwner
    BY <1>11 DEF RestartDeletion
  <2>4. /\ crashes' = crashes + 1 /\ lapsed' = {}
        /\ UNCHANGED <<phase, handled, failures, lapses>>
    BY <1>11 DEF RestartDeletion
  <2> QED
    BY <2>1, <2>2, <2>3, <2>4
<1>12. CASE Deleted \/ UNCHANGED deletionVars
  BY <1>12 DEF Deleted, deletionVars, deletionRow
<1> QED
  BY <1>1, <1>2, <1>3, <1>4, <1>5, <1>6, <1>7, <1>8, <1>9, <1>10, <1>11, <1>12 DEF DeletionNext, RunnerNext

(* In every reachable state the inductive invariant holds. *)
THEOREM DeletionInvariant == DeletionSpec => []DeletionInv
BY InitDeletionInv, NextDeletionInv, PTL DEF DeletionSpec

(* The cursor is earned, and only a runner whose lease expired under it is *)
(* at work beside the owner.                                               *)
THEOREM DeletionIsSafe == DeletionSpec => []DeletionSafety
<1>1. DeletionInv => DeletionSafety
  BY DEF DeletionInv, DeletionSafety
<1> QED
  BY <1>1, DeletionInvariant, PTL

(* No step moves the cursor back, reopens a completed deletion, or takes   *)
(* the row from an owner at work whose lease has not expired.              *)
THEOREM DeletionStepsStand == DeletionSpec => DeletionSteps
<1> DEFINE Advances == phase' >= phase /\ (status = "completed" => status' = "completed")
           Keeps    == owner # NoOwner /\ owner' # owner => expired \/ owner \notin Working'
<1>1. DeletionInv /\ [DeletionNext]_deletionVars => [Advances]_deletionVars /\ [Keeps]_deletionVars
  <2> SUFFICES ASSUME DeletionInv, DeletionNext
               PROVE  Advances /\ Keeps
    OBVIOUS
  <2> USE DEF DeletionInv, DeletionTypeOK, OwnerAgrees, Phases
  <2>1. CASE Begin \/ LeaseLapses \/ LeaseRunsOut \/ Deleted
    BY <2>1 DEF Begin, LeaseLapses, LeaseRunsOut, Deleted, deletionVars, deletionRow
  <2>2. CASE RestartDeletion
    BY <2>2 DEF RestartDeletion, Working, IdleRunner
  <2>3. ASSUME NEW r \in Runners, ReadRow(r) \/ ReturnUnclaimed(r) \/ RunnerThrows(r) \/ Renew(r)
        PROVE  Advances /\ Keeps
    BY <2>3 DEF ReadRow, ReturnUnclaimed, RunnerThrows, Renew, deletionRow
  <2>4. ASSUME NEW r \in Runners, ClaimPhase(r)
        PROVE  Advances /\ Keeps
    BY <2>4 DEF ClaimPhase, Claimable
  <2>5. ASSUME NEW r \in Runners, HandlerCompletes(r)
        PROVE  Advances /\ Keeps
    <3>1. runner[r].phase \in Phases
      BY DEF Runner
    <3>2. CASE owner = r
      <4>1. owner \in Working /\ runner[r].phase = phase
        BY <2>5, <3>2 DEF HandlerCompletes, Working
      <4> QED
        BY <2>5, <3>1, <3>2, <4>1 DEF HandlerCompletes, AdvanceRow, Working, IdleRunner, Runners
    <3>3. CASE owner # r
      BY <2>5, <3>3 DEF HandlerCompletes, AdvanceRow, deletionRow
    <3> QED
      BY <3>2, <3>3
  <2>6. ASSUME NEW r \in Runners, HandlerFails(r)
        PROVE  Advances /\ Keeps
    BY <2>6 DEF HandlerFails, FailRow, deletionRow, Working, IdleRunner, Runners
  <2> QED
    BY <2>1, <2>2, <2>3, <2>4, <2>5, <2>6 DEF DeletionNext, RunnerNext
<1> QED
  BY <1>1, DeletionInvariant, PTL DEF DeletionSpec, DeletionSteps, CursorOnlyAdvances, OwnerKeepsItsClaim

-----------------------------------------------------------------------------
(* All of them, in one gateway.                                            *)

(* The inductive invariants of the components, side by side.               *)
DurableInv ==
  /\ OutboxInv /\ DeletionInv /\ ApplyInv /\ SiblingInv /\ LeaseInv /\ DelegationInv /\ QuestionInv /\ MergeInv

(* What each component promises follows from its own invariant.            *)
LEMMA DurableInvIsSafe ==
  DurableInv =>
    /\ DurableTypeOK /\ TablesAgree /\ OutboxSafety /\ DeletionSafety /\ ApplySafety
    /\ SiblingSafety /\ LeaseSafety /\ RegistrySafety /\ QuestionSafety /\ MergeSafety
<1> SUFFICES ASSUME DurableInv
             PROVE  /\ DurableTypeOK /\ TablesAgree /\ OutboxSafety /\ DeletionSafety /\ ApplySafety
                    /\ SiblingSafety /\ LeaseSafety /\ RegistrySafety /\ QuestionSafety /\ MergeSafety
  OBVIOUS
<1>1. TypeOK /\ TablesAgree /\ OutboxSafety
  BY DEF DurableInv, OutboxInv, OutboxSafety, OnlyNewestInForce, EffectAtMostOnce, PendingHasNoEffect
<1>2. DeletionTypeOK /\ DeletionSafety
  BY DEF DurableInv, DeletionInv, DeletionSafety
<1>3. ApplyTypeOK /\ ApplySafety
  BY DEF DurableInv, ApplyInv, ApplySafety, ApplyTypeOK, ApplyAgrees, VerificationAgrees, CompletionAgrees,
         AppliedAtMostOnce, CompletionIsEarned, AllApplied
<1>4. SiblingTypeOK /\ SiblingSafety
  BY OneWriterIsOneProject DEF DurableInv, SiblingInv, SiblingSafety
<1>5. LeaseTypeOK /\ LeaseSafety
  BY LeaseInvIsSafe DEF DurableInv, LeaseInv
<1>6. RegistryTypeOK /\ RegistrySafety
  BY DEF DurableInv, DelegationInv, RegistryInv, RegistrySafety
<1>7. QuestionTypeOK /\ QuestionSafety
  BY QuestionInvIsSafe DEF DurableInv, QuestionInv
<1>8. MergeTypeOK /\ MergeSafety
  BY DEF DurableInv, MergeInv, MergeSafety
<1> QED
  BY <1>1, <1>2, <1>3, <1>4, <1>5, <1>6, <1>7, <1>8 DEF DurableTypeOK

(* A step of the gateway is a step of one component, and the others rest.  *)
LEMMA OneComponentMoves ==
  ASSUME [DurableNext]_durableVars
  PROVE  /\ [Next]_vars /\ [DeletionNext]_deletionVars /\ [ApplyNext]_applyVars /\ [SiblingNext]_siblingVars
         /\ [LeaseNext]_leaseVars /\ [RegistryNext]_registryVars /\ [QuestionNext]_questionVars
         /\ [MergeNext]_mergeVars
BY DEF DurableNext, durableVars, Outbox, Deletion, Applying, Publishing, Leasing, Registering, Asking, Merging,
       ComponentEnds

(* Whichever components are at work, every invariant of each of them       *)
(* holds: they disturb neither the types nor the promises of each other.   *)
THEOREM DurableIsSafe ==
  DurableSpec =>
    []( /\ DurableTypeOK /\ TablesAgree /\ OutboxSafety /\ DeletionSafety /\ ApplySafety
        /\ SiblingSafety /\ LeaseSafety /\ RegistrySafety /\ QuestionSafety /\ MergeSafety )
<1>1. DurableInit => DurableInv
  BY InitOutboxInv, InitDeletionInv, InitApplyInv, InitSiblingInv, InitLeaseInv, InitDelegationInv, InitQuestionInv,
     InitMergeInv DEF DurableInit, DurableInv
<1>2. DurableInv /\ [DurableNext]_durableVars => DurableInv'
  BY OneComponentMoves, NextOutboxInv, NextDeletionInv, NextApplyInv, NextSiblingInv, NextLeaseInv, NextDelegationInv,
     NextQuestionInv, NextMergeInv DEF DurableInv
<1> QED
  BY <1>1, <1>2, DurableInvIsSafe, PTL DEF DurableSpec
===============================================================================
