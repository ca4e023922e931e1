----------------------------- MODULE Questions -----------------------------
(***************************************************************************)
(* A question an agent asks the user in the middle of its work, and the    *)
(* answer's way to the agent (services/api-gateway/src/                    *)
(* orchestrator-interactions.ts, the question routes of                    *)
(* services/runtime-host/src/runtime-host.ts and of the OpenCode adapter). *)
(*                                                                         *)
(* The row of the question says what the user is shown, adapter memory     *)
(* says that the session waits, and the provider alone knows whether it    *)
(* has an answer.  They learn of each other by a POST that may be lost on  *)
(* its way there or back, or be late, and by a stream of events the        *)
(* adapter reads in order.  The session, the mission and the gateway may   *)
(* end at any moment.                                                      *)
(***************************************************************************)
EXTENDS Naturals, FiniteSets

CONSTANTS
  Keys,       \* the client request ids; each stands for its answers, too
  Dismissals, \* those that dismiss the question
  NoKey

ASSUME QuestionAssumption ==
  /\ Dismissals \subseteq Keys /\ NoKey \notin Keys
  /\ (Keys \cup {NoKey}) \cap {"unasked", "open", "withdrawn"} = {}

VARIABLES
  question,    \* the row: its status, clientRequestId and answers
  replies,     \* orchestrator_question_replies.status of each key
  posts,       \* the POST under way for each key
  late,        \* keys whose POST timed out and may yet reach the provider
  provider,    \* the question at the provider: not asked, open, withdrawn, or the key it took
  unread,      \* its resolution is on the event stream and not read
  lane,        \* the session in the adapter: alive, waiting for the user, deaf to its end
  missionOver  \* missions.status is completed, failed or cancelled

questionVars == <<question, replies, posts, late, provider, unread, lane, missionOver>>

Resolved == {"accepted", "rejected", "cancelled", "stale"}
Unresolved == {"pending", "delivering", "delivered", "delivery_failed"}

Question ==
  [status : {"none"} \cup Resolved \cup Unresolved, key : Keys \cup {NoKey}, answers : Keys \cup {NoKey}]
Lane == [alive : BOOLEAN, waiting : BOOLEAN, deaf : BOOLEAN]

QuestionTypeOK ==
  /\ question \in Question
  /\ replies \in [Keys -> {"none", "delivering", "delivered", "failed"}]
  /\ posts \in [Keys -> {"none", "sent", "confirmed", "refused"}] /\ late \subseteq Keys
  /\ provider \in Keys \cup {"unasked", "open", "withdrawn"} /\ unread \in BOOLEAN
  /\ lane \in Lane /\ missionOver \in BOOLEAN

QuestionInit ==
  /\ question = [status |-> "none", key |-> NoKey, answers |-> NoKey]
  /\ replies = [k \in Keys |-> "none"] /\ posts = [k \in Keys |-> "none"] /\ late = {}
  /\ provider = "unasked" /\ unread = FALSE
  /\ lane = [alive |-> TRUE, waiting |-> FALSE, deaf |-> FALSE] /\ missionOver = FALSE

-----------------------------------------------------------------------------
Answerable == lane.alive /\ lane.waiting
MayClaim(k, status) ==
  status \notin Resolved \cup {"delivering", "delivered"} /\ replies[k] \in {"none", "failed"}

(* An event of the bus or a sweep that ends the question unless it has an  *)
(* end already.                                                            *)
Ends(status) == question' = [question EXCEPT !.status = IF @ \in Unresolved THEN status ELSE @]

(* Mutated form: the RESOLVED check of ingest is missing.                  *)
IngestedAlways(k) ==
  IF k \in Keys \ Dismissals THEN [question EXCEPT !.status = "accepted", !.answers = k]
  ELSE [question EXCEPT !.status = "rejected"]

(* The event of the adapter that the provider took key k, or for NoKey     *)
(* dropped the question.                                                   *)
Ingested(k) ==
  IF question.status \in Resolved THEN question
  ELSE IF k \in Keys \ Dismissals
       THEN [question EXCEPT !.status = "accepted", !.answers = k]
       ELSE [question EXCEPT !.status = "rejected"]

AskQuestion ==
  /\ provider = "unasked" /\ lane.alive
  /\ provider' = "open" /\ lane' = [lane EXCEPT !.waiting = TRUE]
  /\ question' = [question EXCEPT !.status = "pending"]
  /\ UNCHANGED <<replies, posts, late, unread, missionOver>>

Withdraw ==
  /\ provider = "open" /\ provider' = "withdrawn" /\ unread' = TRUE
  /\ UNCHANGED <<question, replies, posts, late, lane, missionOver>>

(* question.replied or question.rejected is read from the stream.          *)
ReadResolution ==
  /\ unread /\ lane.alive /\ unread' = FALSE
  /\ lane' = [lane EXCEPT !.waiting = FALSE]
  /\ question' = IF lane.waiting THEN Ingested(IF provider \in Keys THEN provider ELSE NoKey) ELSE question
  /\ UNCHANGED <<replies, posts, late, provider, missionOver>>

(* A request of the user, up to its first await: the row is brought up to  *)
(* date, the claim is written, and the POST leaves.                        *)
RespondTo(k) ==
  LET over    == IF missionOver /\ question.status \in Unresolved THEN "cancelled" ELSE question.status
      current == IF over \in {"pending", "delivery_failed"} /\ ~Answerable THEN "stale" ELSE over
  IN /\ question.status # "none"
     /\ IF MayClaim(k, current)
        THEN /\ question' = [status |-> "delivering", key |-> k, answers |-> k]
             /\ replies' = [replies EXCEPT ![k] = "delivering"]
             /\ posts' = [posts EXCEPT ![k] = "sent"]
        ELSE question' = [question EXCEPT !.status = current] /\ UNCHANGED <<replies, posts>>
     /\ UNCHANGED <<late, provider, unread, lane, missionOver>>

(* The POST arrives, in time or late.                                      *)
Arrives(k) ==
  /\ posts[k] = "sent" \/ k \in late
  /\ IF provider = "open" THEN provider' = k /\ unread' = TRUE ELSE UNCHANGED <<provider, unread>>
  /\ \/ /\ posts[k] = "sent" /\ UNCHANGED late
        /\ posts' = [posts EXCEPT ![k] = IF provider = "open" THEN "confirmed" ELSE "refused"]
     \/ k \in late /\ late' = late \ {k} /\ UNCHANGED posts
  /\ UNCHANGED <<question, replies, lane, missionOver>>

Finished(row, k, status) ==
  IF row.status \in Unresolved /\ row.key = k THEN [row EXCEPT !.status = status] ELSE row

(* Mutated form: an answer other than true counts as a confirmation.       *)
ReplyReturnsUnconfirmed(k) ==
  /\ posts[k] \in {"confirmed", "refused"} /\ posts' = [posts EXCEPT ![k] = "none"]
  /\ lane' = [lane EXCEPT !.waiting = FALSE]
  /\ question' = Finished(IF lane.waiting THEN Ingested(k) ELSE question, k, "delivered")
  /\ replies' = [replies EXCEPT ![k] = "delivered"]
  /\ UNCHANGED <<late, provider, unread, missionOver>>

(* The confirmation is the provider's acceptance, unless the stream told   *)
(* it before.                                                              *)
ReplyReturns(k) ==
  /\ posts[k] = "confirmed" /\ posts' = [posts EXCEPT ![k] = "none"]
  /\ lane' = [lane EXCEPT !.waiting = FALSE]
  /\ question' = Finished(IF lane.waiting THEN Ingested(k) ELSE question, k, "delivered")
  /\ replies' = [replies EXCEPT ![k] = "delivered"]
  /\ UNCHANGED <<late, provider, unread, missionOver>>

(* The provider refuses, or no response comes: the POST may be under way,  *)
(* lost, or taken.                                                         *)
ReplyFails(k) ==
  /\ posts[k] # "none" /\ posts' = [posts EXCEPT ![k] = "none"]
  /\ late' \in {late, IF posts[k] = "sent" THEN late \cup {k} ELSE late}
  /\ replies' = [replies EXCEPT ![k] = "failed"]
  /\ question' = Finished(question, k, "delivery_failed")
  /\ UNCHANGED <<provider, unread, lane, missionOver>>

(* The provider goes idle, which comes after the resolution of its         *)
(* question on the stream; the adapter ignores it while the user is asked. *)
SessionIdle ==
  /\ lane.alive /\ ~unread /\ provider \notin {"unasked", "open"}
  /\ IF lane.waiting
     THEN lane' = [lane EXCEPT !.deaf = TRUE] /\ UNCHANGED question
     ELSE lane' = [lane EXCEPT !.alive = FALSE] /\ Ends("cancelled")
  /\ UNCHANGED <<replies, posts, late, provider, unread, missionOver>>

(* The session fails or is cancelled.                                      *)
SessionEnds ==
  /\ lane.alive /\ lane' = [lane EXCEPT !.alive = FALSE, !.waiting = FALSE]
  /\ Ends("cancelled")
  /\ UNCHANGED <<replies, posts, late, provider, unread, missionOver>>

(* The mission ends by an event of the question's run or of another one;   *)
(* the sessions of an aborted plan may go on.                              *)
MissionEnds ==
  /\ ~missionOver /\ missionOver' = TRUE
  /\ Ends("cancelled") \/ UNCHANGED question
  /\ UNCHANGED <<replies, posts, late, provider, unread, lane>>

MissionReopens ==
  /\ missionOver /\ missionOver' = FALSE
  /\ UNCHANGED <<question, replies, posts, late, provider, unread, lane>>

(* Mutated form: only questions of ended missions are brought up to date.  *)
ListEndedMissions ==
  /\ missionOver /\ Ends("cancelled")
  /\ UNCHANGED <<replies, posts, late, provider, unread, lane, missionOver>>

(* The user's window asks for the questions again.                         *)
ListQuestions ==
  /\ \/ missionOver /\ Ends("cancelled")
     \/ ~missionOver /\ question.status # "delivering" /\ ~Answerable /\ Ends("stale")
  /\ UNCHANGED <<replies, posts, late, provider, unread, lane, missionOver>>

(* The gateway dies and is started again; the sessions die with it.        *)
RestartInteractions ==
  /\ question' = [question EXCEPT !.status = IF @ = "delivering" THEN "delivery_failed" ELSE @]
  /\ replies' = [k \in Keys |-> IF replies[k] = "delivering" THEN "failed" ELSE replies[k]]
  /\ posts' = [k \in Keys |-> "none"] /\ late' = late \cup {k \in Keys : posts[k] = "sent"}
  /\ lane' = [lane EXCEPT !.alive = FALSE, !.waiting = FALSE] /\ unread' = FALSE
  /\ UNCHANGED <<provider, missionOver>>

ReplyStep(k) == Arrives(k) \/ ReplyReturns(k) \/ ReplyFails(k)

QuestionNext ==
  \/ AskQuestion \/ Withdraw \/ ReadResolution \/ SessionIdle \/ SessionEnds
  \/ MissionEnds \/ MissionReopens \/ ListQuestions \/ RestartInteractions
  \/ \E k \in Keys : RespondTo(k) \/ ReplyStep(k)

QuestionSpec == QuestionInit /\ [][QuestionNext]_questionVars

(* The window polls every two seconds, a POST ends within its timeout, and *)
(* the stream of a live session is read.                                   *)
QuestionFairness ==
  /\ WF_questionVars(ReadResolution) /\ WF_questionVars(ListQuestions)
  /\ \A k \in Keys : WF_questionVars(ReplyStep(k))

QuestionFairSpec == QuestionSpec /\ QuestionFairness

-----------------------------------------------------------------------------
(* Rows say that an answer is being delivered exactly as long as its POST  *)
(* is awaited, and no two answers are on their way together.               *)
DeliveryIsAwaited ==
  /\ question.status = "delivering" => posts[question.key] # "none"
  /\ \A k \in Keys : posts[k] # "none" <=> replies[k] = "delivering"
  /\ Cardinality({k \in Keys : posts[k] # "none"}) <= 1

(* What the user reads is what the provider did: an accepted question      *)
(* shows the answer the provider took, also when that is one the user was  *)
(* told had failed and has since replaced; a reply counts as delivered     *)
(* only if it is the one; rejected says the provider has no answer.        *)
ShownIsTrue ==
  /\ question.status = "accepted" => provider = question.answers
  /\ question.status = "rejected" => provider \in Dismissals \cup {"withdrawn"}
  /\ \A k \in Keys : replies[k] = "delivered" => provider = k

(* The end of a session is never taken for a pause before an answer.       *)
EndIsHeard == ~lane.deaf

(* The inductive strengthening of the invariants above.  A POST is awaited *)
(* for the claim that the row names, a confirmation is the provider's, and *)
(* a session waits only for what the provider or its stream still holds.   *)
PostIsTheClaim == \A k \in Keys :
  /\ posts[k] # "none" => question.key = k /\ question.status \in {"delivering"} \cup Resolved
  /\ posts[k] = "confirmed" => provider = k

ProviderIsAhead ==
  /\ provider = "unasked" => question.status = "none" /\ \A k \in Keys : posts[k] = "none"
  /\ unread => provider \notin {"unasked", "open"}
  /\ lane.waiting => provider = "open" \/ unread

QuestionInv ==
  /\ QuestionTypeOK /\ ShownIsTrue /\ EndIsHeard
  /\ question.status = "delivering" => question.key \in Keys /\ posts[question.key] # "none"
  /\ \A k \in Keys : posts[k] # "none" <=> replies[k] = "delivering"
  /\ PostIsTheClaim /\ ProviderIsAhead

(* The user, the gateway and the provider agree on the answer of a         *)
(* question and on its delivery.                                           *)
QuestionSafety == DeliveryIsAwaited /\ ShownIsTrue /\ EndIsHeard

(* A question that has its end keeps it, whatever answers, events and      *)
(* restarts come after it, and an answer that was delivered is not sent    *)
(* again.                                                                  *)
QuestionSteps ==
  [][/\ question.status \in Resolved => question' = question
     /\ \A k \in Keys : replies[k] = "delivered" => posts'[k] = "none" \/ posts'[k] = posts[k]]_questionVars

(* The user is not left with a question that nobody waits for: it is       *)
(* resolved, or the session waits and the provider takes an answer.        *)
QuestionEnds == []<>(question.status \in Unresolved => Answerable /\ provider = "open")
=============================================================================
