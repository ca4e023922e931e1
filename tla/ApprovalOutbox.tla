--------------------------- MODULE ApprovalOutbox ---------------------------
(***************************************************************************)
(* The durable approval state machine of the gateway                       *)
(* (services/api-gateway/src/approval-outbox.ts) and the two routes that   *)
(* drive it: deciding an approval and reconciling one.                     *)
(*                                                                         *)
(* SQLite is one variable per table: `approvals` and `operations`          *)
(* (approval_operations).  Every method of the class is one SQLite         *)
(* transaction, hence one atomic change of both.  A request that decides   *)
(* an approval is a process: it reads the row, claims it, runs the side    *)
(* effect outside any transaction, then finalizes.  The gateway process    *)
(* may die between any two of these steps; the tables survive, the         *)
(* requests do not.                                                        *)
(***************************************************************************)
EXTENDS Naturals, FiniteSets

CONSTANTS
  Approvals,    \* approval ids
  Requests,     \* concurrent POST /api/approvals/:id/decide requests
  MaxAttempts,  \* bound: how often one approval is claimed
  NULL          \* the SQL NULL

ASSUME MaxAttemptsAssumption == MaxAttempts \in Nat \ {0}
ASSUME NullAssumption == NULL \notin Approvals \cup {"approved", "rejected", "applied", "not_applied"}

VARIABLES
  approvals,   \* the table approvals
  operations,  \* the table approval_operations, one row per approval at most
  request,     \* what each request in flight holds in memory
  gateway,     \* "up" | "down": the process that serves the requests
  effects,     \* history: the attempts of each approval whose side effect ran
  disowned     \* history: the attempts a human reconciled as not applied

vars == <<approvals, operations, request, gateway, effects, disowned>>

Decision == {"approved", "rejected"}
Outcome  == {"applied", "not_applied"}

ApprovalStatus  == {"absent", "pending", "processing", "reconcile_required"} \cup Decision
OperationStatus == {"absent", "applying", "completed", "reconcile_required"}

ApprovalRow == [status: ApprovalStatus, requested: Decision \cup {NULL}, attempts: Nat]

(* `attempt` is the number in the idempotency key approval:<id>:<attempt>. *)
OperationRow == [status: OperationStatus, decision: Decision \cup {NULL},
                 attempt: Nat, outcome: Outcome \cup {NULL}]

Request == [pc: {"idle", "validated", "executing", "executed"},
            approval: Approvals \cup {NULL}, decision: Decision \cup {NULL}]

NoApproval  == [status |-> "absent", requested |-> NULL, attempts |-> 0]
NoOperation == [status |-> "absent", decision |-> NULL, attempt |-> 0, outcome |-> NULL]
Idle        == [pc |-> "idle", approval |-> NULL, decision |-> NULL]

TypeOK ==
  /\ approvals  \in [Approvals -> ApprovalRow]
  /\ operations \in [Approvals -> OperationRow]
  /\ request    \in [Requests -> Request]
  /\ gateway    \in {"up", "down"}
  /\ effects    \in [Approvals -> SUBSET Nat]
  /\ disowned   \in [Approvals -> SUBSET Nat]

Init ==
  /\ approvals  = [a \in Approvals |-> NoApproval]
  /\ operations = [a \in Approvals |-> NoOperation]
  /\ request    = [r \in Requests |-> Idle]
  /\ gateway    = "up"
  /\ effects    = [a \in Approvals |-> {}]
  /\ disowned   = [a \in Approvals |-> {}]

-----------------------------------------------------------------------------
(* Mutated forms of definitions below, each a bug this code could have;    *)
(* PROJECT.json pairs them with the property that must notice.             *)

(* fail forgets its second UPDATE. *)
FailOperationOnly(a) ==
  /\ operations' = [operations EXCEPT ![a].status =
       IF @ = "applying" THEN "reconcile_required" ELSE @]
  /\ UNCHANGED approvals

(* reconcile stores the outcome where the decision belongs. *)
ReconcileRowsWithOutcome(a, outcome) ==
  /\ operations' = [operations EXCEPT ![a].status = "completed", ![a].outcome = outcome]
  /\ approvals' = [approvals EXCEPT ![a].status = IF outcome = "applied" THEN outcome ELSE "pending"]

(* recoverInterrupted makes interrupted decisions decidable again, as the  *)
(* recovery of a plain job queue would.                                    *)
RecoverRowsReopening ==
  /\ operations' = [a \in Approvals |->
       IF operations[a].status = "applying" THEN [operations[a] EXCEPT !.status = "reconcile_required"]
       ELSE operations[a]]
  /\ approvals' = [a \in Approvals |->
       IF approvals[a].status = "processing" THEN [approvals[a] EXCEPT !.status = "pending"]
       ELSE approvals[a]]

(* recoverInterrupted whose sub-select lost its status filter. *)
RecoverRowsUnfiltered ==
  /\ operations' = [a \in Approvals |->
       IF operations[a].status = "applying" THEN [operations[a] EXCEPT !.status = "reconcile_required"]
       ELSE operations[a]]
  /\ approvals' = [a \in Approvals |->
       IF approvals[a].status = "processing" \/ operations[a].status # "absent"
       THEN [approvals[a] EXCEPT !.status = "reconcile_required"]
       ELSE approvals[a]]

(* recoverInterrupted marks the operations and forgets the approvals. *)
RecoverRowsOperationsOnly ==
  /\ operations' = [a \in Approvals |->
       IF operations[a].status = "applying" THEN [operations[a] EXCEPT !.status = "reconcile_required"]
       ELSE operations[a]]
  /\ UNCHANGED approvals

-----------------------------------------------------------------------------
(* The transactions of the class ApprovalOutbox, as what they write.       *)

(* claim: the pending row becomes processing and the operation row is      *)
(* written for the new attempt, in one transaction.                        *)
Claim(a, d) ==
  /\ approvals' = [approvals EXCEPT ![a].status = "processing", ![a].requested = d,
                                    ![a].attempts = @ + 1]
  /\ operations' = [operations EXCEPT ![a] =
       [status |-> "applying", decision |-> d,
        attempt |-> approvals[a].attempts + 1, outcome |-> NULL]]

(* finalize commits only while the operation is still the claim of d and   *)
(* the approval is still processing for d; otherwise it changes nothing    *)
(* (the throw inside the transaction rolls the first UPDATE back).         *)
CanFinalize(a, d) ==
  /\ operations[a].status = "applying" /\ operations[a].decision = d
  /\ approvals[a].status = "processing" /\ approvals[a].requested = d

Finalize(a, d) ==
  /\ approvals'  = [approvals EXCEPT ![a].status = d]
  /\ operations' = [operations EXCEPT ![a].status = "completed", ![a].outcome = "applied"]

(* fail: two guarded UPDATEs, each applying to its own table. *)
Fail(a) ==
  /\ operations' = [operations EXCEPT ![a].status =
       IF @ = "applying" THEN "reconcile_required" ELSE @]
  /\ approvals' = [approvals EXCEPT ![a].status =
       IF @ = "processing" THEN "reconcile_required" ELSE @]

(* reconcile: the human's word closes the operation; "not_applied" makes   *)
(* the approval decidable again.                                           *)
ReconcileRows(a, outcome) ==
  /\ operations' = [operations EXCEPT ![a].status = "completed", ![a].outcome = outcome]
  /\ approvals' =
       IF approvals[a].status # "reconcile_required" THEN approvals
       ELSE IF outcome = "applied"
            THEN [approvals EXCEPT ![a].status = operations[a].decision]
            ELSE [approvals EXCEPT ![a].status = "pending", ![a].requested = NULL]

(* recoverInterrupted: the first UPDATE is visible to the sub-select of    *)
(* the second.                                                             *)
RecoverRows ==
  LET unresolved == {a \in Approvals : operations[a].status \in {"applying", "reconcile_required"}}
  IN  /\ operations' = [a \in Approvals |->
           IF a \in unresolved THEN [operations[a] EXCEPT !.status = "reconcile_required"]
           ELSE operations[a]]
      /\ approvals' = [a \in Approvals |->
           IF approvals[a].status = "processing" \/ a \in unresolved
           THEN [approvals[a] EXCEPT !.status = "reconcile_required"]
           ELSE approvals[a]]

-----------------------------------------------------------------------------
(* The event-bus listener: an approval_requested event inserts the row     *)
(* unless a row with this id exists.                                       *)
ApprovalRequested(a) ==
  /\ gateway = "up"
  /\ approvals[a].status = "absent"
  /\ approvals' = [approvals EXCEPT ![a].status = "pending"]
  /\ UNCHANGED <<operations, request, gateway, effects, disowned>>

(* The route answers 409 unless the row it reads is pending; it may then   *)
(* await the mission before it claims.                                     *)
ReceiveDecision(r, a, d) ==
  /\ gateway = "up"
  /\ request[r].pc = "idle"
  /\ approvals[a].status = "pending"
  /\ request' = [request EXCEPT ![r] = [pc |-> "validated", approval |-> a, decision |-> d]]
  /\ UNCHANGED <<approvals, operations, gateway, effects, disowned>>

(* claim returns null, and the route answers 409, when another request was *)
(* faster or the held plan is no longer the current one.                   *)
RefuseDecision(r) ==
  /\ gateway = "up"
  /\ request[r].pc = "validated"
  /\ request' = [request EXCEPT ![r] = Idle]
  /\ UNCHANGED <<approvals, operations, gateway, effects, disowned>>

(* A mutated form of ClaimDecision: the UPDATE lost WHERE status='pending'. *)
ClaimDecisionUnguarded(r) ==
  LET a == request[r].approval IN
  /\ gateway = "up"
  /\ request[r].pc = "validated"
  /\ approvals[a].attempts < MaxAttempts
  /\ Claim(a, request[r].decision)
  /\ request' = [request EXCEPT ![r].pc = "executing"]
  /\ UNCHANGED <<gateway, effects, disowned>>

ClaimDecision(r) ==
  LET a == request[r].approval IN
  /\ gateway = "up"
  /\ request[r].pc = "validated"
  /\ approvals[a].status = "pending"
  /\ approvals[a].attempts < MaxAttempts
  /\ Claim(a, request[r].decision)
  /\ request' = [request EXCEPT ![r].pc = "executing"]
  /\ UNCHANGED <<gateway, effects, disowned>>

(* orchestrator.handleApprovalDecision or runtimeHost.respondToRuntime-    *)
(* Approval took effect for the claimed attempt.                           *)
ExecuteEffect(r) ==
  LET a == request[r].approval IN
  /\ gateway = "up"
  /\ request[r].pc = "executing"
  /\ effects' = [effects EXCEPT ![a] = @ \cup {operations[a].attempt}]
  /\ request' = [request EXCEPT ![r].pc = "executed"]
  /\ UNCHANGED <<approvals, operations, gateway, disowned>>

(* finalize succeeded, or it lost its claim and the catch block failed the *)
(* approval.                                                               *)
FinishDecision(r) ==
  LET a == request[r].approval  d == request[r].decision IN
  /\ gateway = "up"
  /\ request[r].pc = "executed"
  /\ IF CanFinalize(a, d) THEN Finalize(a, d) ELSE Fail(a)
  /\ request' = [request EXCEPT ![r] = Idle]
  /\ UNCHANGED <<gateway, effects, disowned>>

(* The side effect threw, before or after it took effect: catch -> fail. *)
AbortDecision(r) ==
  /\ gateway = "up"
  /\ request[r].pc \in {"executing", "executed"}
  /\ Fail(request[r].approval)
  /\ request' = [request EXCEPT ![r] = Idle]
  /\ UNCHANGED <<gateway, effects, disowned>>

(* POST /api/approvals/:id/reconcile.  The human may be mistaken: both     *)
(* outcomes are possible whatever really happened.                         *)
Reconcile(a, outcome) ==
  /\ gateway = "up"
  /\ operations[a].status = "reconcile_required"
  /\ ReconcileRows(a, outcome)
  /\ disowned' = IF outcome = "not_applied"
                 THEN [disowned EXCEPT ![a] = @ \cup {operations[a].attempt}]
                 ELSE disowned
  /\ UNCHANGED <<request, gateway, effects>>

(* The process dies: every request in flight is gone, the tables stay. *)
Crash ==
  /\ gateway = "up"
  /\ gateway' = "down"
  /\ request' = [r \in Requests |-> Idle]
  /\ UNCHANGED <<approvals, operations, effects, disowned>>

(* recoverGatewayStartup runs to its end before the server listens. *)
Restart ==
  /\ gateway = "down"
  /\ gateway' = "up"
  /\ RecoverRows
  /\ UNCHANGED <<request, effects, disowned>>

RequestStep(r) ==
  \/ RefuseDecision(r)
  \/ ClaimDecision(r)
  \/ ExecuteEffect(r)
  \/ FinishDecision(r)
  \/ AbortDecision(r)

Next ==
  \/ \E a \in Approvals : ApprovalRequested(a)
  \/ \E r \in Requests, a \in Approvals, d \in Decision : ReceiveDecision(r, a, d)
  \/ \E r \in Requests : RequestStep(r)
  \/ \E a \in Approvals, outcome \in Outcome : Reconcile(a, outcome)
  \/ Crash
  \/ Restart

(* A request that started runs on (the event loop), and a stopped gateway  *)
(* is started again; nothing forces a crash, a user or a reconciliation.   *)
Fairness ==
  /\ \A r \in Requests : WF_vars(RequestStep(r))
  /\ WF_vars(Restart)

Spec == Init /\ [][Next]_vars /\ Fairness

-----------------------------------------------------------------------------
(* Safety.                                                                 *)

InFlight(a) == {r \in Requests : /\ request[r].approval = a
                                 /\ request[r].pc \in {"executing", "executed"}}

(* The two tables describe the same attempt: an approval is processing     *)
(* exactly while its operation is applying, needs reconciliation exactly   *)
(* when its operation does, and a settled approval has a completed         *)
(* operation of the same decision.  recoverInterrupted and reconcile read  *)
(* one table to change the other and rely on it.                           *)
TablesAgree ==
  \A a \in Approvals :
    /\ (approvals[a].status = "processing") <=> (operations[a].status = "applying")
    /\ (approvals[a].status = "reconcile_required") <=> (operations[a].status = "reconcile_required")
    /\ approvals[a].status \in Decision =>
         /\ operations[a].status = "completed"
         /\ operations[a].decision = approvals[a].status
         /\ operations[a].outcome = "applied"
    /\ approvals[a].status = "processing" => operations[a].decision = approvals[a].requested
    /\ operations[a].attempt = approvals[a].attempts

(* The side effect of an approval is never run a second time, across any   *)
(* number of requests, failures and restarts, unless a human has declared  *)
(* every earlier run not applied.                                          *)
EffectAtMostOnce ==
  \A a \in Approvals : \A i, j \in effects[a] \ disowned[a] : i = j

(* An approval that can still be decided has no side effect anybody stands *)
(* by: a crash between side effect and finalize never reopens it by itself.*)
PendingHasNoEffect ==
  \A a \in Approvals : approvals[a].status = "pending" => effects[a] \subseteq disowned[a]

(* Only one request at a time is between claim and finalize of an          *)
(* approval, and only while the approval is processing.                    *)
OneRequestPerClaim ==
  \A a \in Approvals :
    /\ \A r1, r2 \in InFlight(a) : r1 = r2
    /\ InFlight(a) # {} => approvals[a].status = "processing"

(* Whatever requests, failures and restarts do to an approval, its side    *)
(* effect happens once and for its decision alone.                         *)
OutboxSafety == EffectAtMostOnce /\ PendingHasNoEffect /\ OneRequestPerClaim

(* The inductive strengthening of the invariants above.  Requests hold     *)
(* well-formed claims and the decision they claimed with, a gateway that   *)
(* is down serves none, an unresolved operation names its decision, and    *)
(* only the newest attempt can be in force.                                *)
RequestsWellFormed ==
  /\ \A r \in Requests : request[r].pc # "idle" =>
       request[r].approval \in Approvals /\ request[r].decision \in Decision
  /\ \A r \in Requests : gateway = "down" => request[r].pc = "idle"
  /\ \A r \in Requests : request[r].pc \in {"executing", "executed"} =>
       /\ approvals[request[r].approval].status = "processing"
       /\ operations[request[r].approval].decision = request[r].decision

OperationsWellFormed ==
  \A a \in Approvals : operations[a].status \in {"applying", "reconcile_required"} =>
    operations[a].decision \in Decision

OnlyNewestInForce ==
  \A a \in Approvals :
    /\ effects[a] \ disowned[a] \subseteq {operations[a].attempt}
    /\ approvals[a].status \in {"absent", "pending"} => effects[a] \subseteq disowned[a]

OutboxInv ==
  /\ TypeOK
  /\ RequestsWellFormed
  /\ OperationsWellFormed
  /\ TablesAgree
  /\ OneRequestPerClaim
  /\ OnlyNewestInForce

(* A settled decision never changes again: not by a late failure, by a     *)
(* reconciliation or by the recovery after a restart.                      *)
DecisionIsFinal ==
  [][\A a \in Approvals : approvals[a].status \in Decision =>
       approvals'[a].status = approvals[a].status]_vars

(* No approval stays processing forever: its request settles or fails it,  *)
(* or the gateway restarts and hands it to reconciliation.                 *)
ProcessingIsResolved == \A a \in Approvals : []<>(approvals[a].status # "processing")

-----------------------------------------------------------------------------
(* The outbox implements the contract.                                     *)

Contract == INSTANCE ApprovalContract WITH
  Executions <- 1 .. MaxAttempts,
  inForce <- [a \in Approvals |-> effects[a] \ disowned[a]],
  verdict <- [a \in Approvals |-> IF approvals[a].status \in Decision
                                  THEN approvals[a].status ELSE NULL]

(* Every behaviour of tables, requests, crashes and reconciliations is one *)
(* the contract allows: at most one effect in force, one verdict for ever. *)
ImplementsContract == Contract!Spec
=============================================================================
