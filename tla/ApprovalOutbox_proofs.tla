----------------------- MODULE ApprovalOutbox_proofs -----------------------
(***************************************************************************)
(* Proofs about ApprovalOutbox, for every number of approvals, requests    *)
(* and attempts: the inductive invariant OutboxInv, the safety properties  *)
(* the runs check, and that a settled decision is final.                   *)
(***************************************************************************)
EXTENDS ApprovalOutbox, TLAPS

USE NullAssumption, MaxAttemptsAssumption

(* The initial tables, empty, satisfy the invariant. *)
LEMMA InitOutboxInv == Init => OutboxInv
BY DEF Init, OutboxInv, TypeOK, RequestsWellFormed, OperationsWellFormed, TablesAgree,
       OneRequestPerClaim, OnlyNewestInForce, InFlight, NoApproval, NoOperation, Idle,
       ApprovalRow, OperationRow, Request, ApprovalStatus, OperationStatus, Decision, Outcome

(* Changing fields of one row keeps the tables in their types. *)
LEMMA ApprovalRowUpdate ==
  ASSUME NEW t \in [Approvals -> ApprovalRow], NEW a \in Approvals,
         NEW st \in ApprovalStatus, NEW rq \in Decision \cup {NULL}
  PROVE  /\ [t EXCEPT ![a].status = st] \in [Approvals -> ApprovalRow]
         /\ [t EXCEPT ![a].status = st, ![a].requested = rq] \in [Approvals -> ApprovalRow]
BY DEF ApprovalRow

(* So does changing fields of one operation. *)
LEMMA OperationRowUpdate ==
  ASSUME NEW t \in [Approvals -> OperationRow], NEW a \in Approvals,
         NEW st \in OperationStatus, NEW oc \in Outcome \cup {NULL}
  PROVE  [t EXCEPT ![a].status = st, ![a].outcome = oc] \in [Approvals -> OperationRow]
BY DEF OperationRow

(* Every step of the gateway, of a request or of the process, preserves    *)
(* the invariant.                                                          *)
LEMMA NextOutboxInv == OutboxInv /\ [Next]_vars => OutboxInv'
<1> SUFFICES ASSUME OutboxInv, [Next]_vars
             PROVE  OutboxInv'
  OBVIOUS
<1> USE DEF OutboxInv, TypeOK, RequestsWellFormed, OperationsWellFormed, TablesAgree,
            OneRequestPerClaim, OnlyNewestInForce, InFlight, ApprovalRow, OperationRow,
            Request, ApprovalStatus, OperationStatus, Decision, Outcome
<1>1. ASSUME NEW a \in Approvals, ApprovalRequested(a)
      PROVE  OutboxInv'
  BY <1>1 DEF ApprovalRequested
<1>2. ASSUME NEW r \in Requests, NEW a \in Approvals, NEW d \in Decision, ReceiveDecision(r, a, d)
      PROVE  OutboxInv'
  BY <1>2 DEF ReceiveDecision
<1>3. ASSUME NEW r \in Requests, RefuseDecision(r)
      PROVE  OutboxInv'
  BY <1>3 DEF RefuseDecision, Idle
<1>4. ASSUME NEW r \in Requests, ClaimDecision(r)
      PROVE  OutboxInv'
  <2>1. TypeOK'
    BY <1>4, SMTT(30) DEF ClaimDecision, Claim
  <2>2. RequestsWellFormed'
    BY <1>4, SMTT(30) DEF ClaimDecision, Claim
  <2>3. OperationsWellFormed'
    BY <1>4 DEF ClaimDecision, Claim
  <2>4. TablesAgree'
    BY <1>4, SMTT(30) DEF ClaimDecision, Claim
  <2>5. OneRequestPerClaim'
    BY <1>4 DEF ClaimDecision, Claim
  <2>6. OnlyNewestInForce'
    BY <1>4 DEF ClaimDecision, Claim
  <2> HIDE DEF TypeOK, RequestsWellFormed, OperationsWellFormed, TablesAgree,
               OneRequestPerClaim, OnlyNewestInForce
  <2> QED
    BY <2>1, <2>2, <2>3, <2>4, <2>5, <2>6
<1>5. ASSUME NEW r \in Requests, ExecuteEffect(r)
      PROVE  OutboxInv'
  BY <1>5 DEF ExecuteEffect
<1>6. ASSUME NEW r \in Requests, FinishDecision(r)
      PROVE  OutboxInv'
  <2> DEFINE a == request[r].approval  d == request[r].decision
  <2>1. a \in Approvals /\ d \in Decision /\ CanFinalize(a, d)
    BY <1>6 DEF FinishDecision, CanFinalize
  <2>2. /\ approvals' = [approvals EXCEPT ![a].status = d]
        /\ operations' = [operations EXCEPT ![a].status = "completed", ![a].outcome = "applied"]
        /\ request' = [request EXCEPT ![r] = Idle]
        /\ UNCHANGED <<gateway, effects, disowned>>
    BY <1>6, <2>1 DEF FinishDecision, Finalize
  <2>3. request[r].pc = "executed" /\ approvals[a].status = "processing"
    BY <1>6, <2>1 DEF FinishDecision, CanFinalize
  <2> HIDE DEF a, d
  <2>4. TypeOK'
    <3>1. approvals' \in [Approvals -> ApprovalRow]
      BY <2>1, <2>2, ApprovalRowUpdate
    <3>2. operations' \in [Approvals -> OperationRow]
      BY <2>1, <2>2, OperationRowUpdate
    <3>3. request' \in [Requests -> Request]
      BY <2>2 DEF Idle
    <3> QED
      BY <2>2, <3>1, <3>2, <3>3
  <2>5. RequestsWellFormed'
    BY <2>1, <2>2, <2>3 DEF Idle, a
  <2>6. OperationsWellFormed'
    BY <2>1, <2>2
  <2>7. TablesAgree'
    BY <2>1, <2>2 DEF CanFinalize
  <2>8. OneRequestPerClaim'
    BY <2>1, <2>2, <2>3 DEF Idle, a
  <2>9. OnlyNewestInForce'
    BY <2>1, <2>2
  <2> HIDE DEF TypeOK, RequestsWellFormed, OperationsWellFormed, TablesAgree,
               OneRequestPerClaim, OnlyNewestInForce
  <2> QED
    BY <2>4, <2>5, <2>6, <2>7, <2>8, <2>9
<1>7. ASSUME NEW r \in Requests, AbortDecision(r)
      PROVE  OutboxInv'
  BY <1>7, SMTT(30) DEF AbortDecision, Fail, Idle
<1>8. ASSUME NEW a \in Approvals, NEW outcome \in Outcome, Reconcile(a, outcome)
      PROVE  OutboxInv'
  <2>1. approvals[a].status = "reconcile_required" /\ operations[a].decision \in Decision
    BY <1>8 DEF Reconcile
  <2>2. operations' = [operations EXCEPT ![a].status = "completed", ![a].outcome = outcome]
    BY <1>8 DEF Reconcile, ReconcileRows
  <2>3. UNCHANGED <<request, gateway, effects>>
    BY <1>8 DEF Reconcile
  <2>4. operations' \in [Approvals -> OperationRow]
    BY <2>2, OperationRowUpdate
  <2>5. CASE outcome = "applied"
    <3>1. approvals' = [approvals EXCEPT ![a].status = operations[a].decision]
          /\ disowned' = disowned
      BY <1>8, <2>1, <2>5 DEF Reconcile, ReconcileRows
    <3>2. approvals' \in [Approvals -> ApprovalRow]
      BY <2>1, <3>1, ApprovalRowUpdate
    <3>3. TypeOK' /\ OnlyNewestInForce'
      BY <2>1, <2>2, <2>3, <2>4, <3>1, <3>2
    <3>4. RequestsWellFormed' /\ OperationsWellFormed' /\ OneRequestPerClaim'
      BY <2>1, <2>2, <2>3, <3>1
    <3>5. TablesAgree'
      BY <2>1, <2>2, <2>5, <3>1
    <3> HIDE DEF TypeOK, RequestsWellFormed, OperationsWellFormed, TablesAgree,
                 OneRequestPerClaim, OnlyNewestInForce
    <3> QED
      BY <3>3, <3>4, <3>5
  <2>6. CASE outcome = "not_applied"
    <3>1. /\ approvals' = [approvals EXCEPT ![a].status = "pending", ![a].requested = NULL]
          /\ disowned' = [disowned EXCEPT ![a] = @ \cup {operations[a].attempt}]
      BY <1>8, <2>1, <2>6 DEF Reconcile, ReconcileRows
    <3>2. approvals' \in [Approvals -> ApprovalRow]
      BY <3>1, ApprovalRowUpdate
    <3>3. disowned' \in [Approvals -> SUBSET Nat]
      BY <3>1
    <3>4. TypeOK'
      BY <2>3, <2>4, <3>2, <3>3
    <3>5. OnlyNewestInForce'
      BY <2>1, <2>2, <2>3, <3>1
    <3>6. RequestsWellFormed' /\ OperationsWellFormed' /\ OneRequestPerClaim'
      BY <2>1, <2>2, <2>3, <3>1
    <3>7. TablesAgree'
      BY <2>1, <2>2, <3>1
    <3> HIDE DEF TypeOK, RequestsWellFormed, OperationsWellFormed, TablesAgree,
                 OneRequestPerClaim, OnlyNewestInForce
    <3> QED
      BY <3>4, <3>5, <3>6, <3>7
  <2> QED
    BY <2>5, <2>6
<1>9. CASE Crash
  BY <1>9 DEF Crash, Idle
<1>10. CASE Restart
  BY <1>10 DEF Restart, RecoverRows
<1>11. CASE UNCHANGED vars
  BY <1>11 DEF vars
<1> QED
  BY <1>1, <1>2, <1>3, <1>4, <1>5, <1>6, <1>7, <1>8, <1>9, <1>10, <1>11, SMTT(30) DEF Next, RequestStep

(* In every reachable state the inductive invariant holds. *)
THEOREM OutboxInvariant == Spec => []OutboxInv
BY InitOutboxInv, NextOutboxInv, PTL DEF Spec

(* The variables of the outbox stay in their types. *)
THEOREM TypeCorrect == Spec => []TypeOK
<1>1. OutboxInv => TypeOK
  BY DEF OutboxInv
<1> QED
  BY <1>1, OutboxInvariant, PTL

(* approvals and approval_operations always describe the same attempt. *)
THEOREM TablesAlwaysAgree == Spec => []TablesAgree
<1>1. OutboxInv => TablesAgree
  BY DEF OutboxInv
<1> QED
  BY <1>1, OutboxInvariant, PTL

(* No request, failure, restart or reconciliation makes a second execution *)
(* of a side effect whose first execution nobody disowned.                 *)
THEOREM EffectsRunAtMostOnce == Spec => []EffectAtMostOnce
<1>1. OutboxInv => EffectAtMostOnce
  BY DEF OutboxInv, OnlyNewestInForce, EffectAtMostOnce
<1> QED
  BY <1>1, OutboxInvariant, PTL

(* An approval that may still be decided has no side effect in force. *)
THEOREM PendingIsClean == Spec => []PendingHasNoEffect
<1>1. OutboxInv => PendingHasNoEffect
  BY DEF OutboxInv, OnlyNewestInForce, PendingHasNoEffect
<1> QED
  BY <1>1, OutboxInvariant, PTL

(* Two requests are never between claim and finalize of one approval. *)
THEOREM ClaimsAreExclusive == Spec => []OneRequestPerClaim
<1>1. OutboxInv => OneRequestPerClaim
  BY DEF OutboxInv
<1> QED
  BY <1>1, OutboxInvariant, PTL

(* Together: the side effect of an approval happens once and for the       *)
(* decision that claimed it.                                               *)
THEOREM OutboxIsSafe == Spec => []OutboxSafety
<1>1. EffectAtMostOnce /\ PendingHasNoEffect /\ OneRequestPerClaim => OutboxSafety
  BY DEF OutboxSafety
<1> QED
  BY <1>1, EffectsRunAtMostOnce, PendingIsClean, ClaimsAreExclusive, PTL

(* A settled decision is final: no step changes it. *)
THEOREM SettledIsFinal == Spec => DecisionIsFinal
<1> DEFINE Keeps == \A a \in Approvals : approvals[a].status \in Decision =>
                      approvals'[a].status = approvals[a].status
<1>1. OutboxInv /\ [Next]_vars => [Keeps]_vars
  <2> SUFFICES ASSUME OutboxInv, Next, NEW a \in Approvals, approvals[a].status \in Decision
               PROVE  approvals'[a].status = approvals[a].status
    OBVIOUS
  <2> USE DEF OutboxInv, TypeOK, RequestsWellFormed, TablesAgree, Decision
  <2>1. operations[a].status = "completed"
    OBVIOUS
  <2>2. CASE \E b \in Approvals : ApprovalRequested(b)
    BY <2>2 DEF ApprovalRequested
  <2>3. CASE \E r \in Requests, b \in Approvals, d \in Decision : ReceiveDecision(r, b, d)
    BY <2>3 DEF ReceiveDecision
  <2>4. ASSUME NEW r \in Requests, RequestStep(r)
        PROVE  approvals'[a].status = approvals[a].status
    BY <2>4 DEF RequestStep, RefuseDecision, ClaimDecision, Claim, ExecuteEffect,
                FinishDecision, CanFinalize, Finalize, AbortDecision, Fail
  <2>5. ASSUME NEW b \in Approvals, NEW outcome \in Outcome, Reconcile(b, outcome)
        PROVE  approvals'[a].status = approvals[a].status
    BY <2>1, <2>5 DEF Reconcile, ReconcileRows
  <2>6. CASE Crash
    BY <2>6 DEF Crash
  <2>7. CASE Restart
    BY <2>1, <2>7 DEF Restart, RecoverRows
  <2> QED
    BY <2>2, <2>3, <2>4, <2>5, <2>6, <2>7 DEF Next
<1> QED
  BY <1>1, OutboxInvariant, PTL DEF Spec, DecisionIsFinal

-----------------------------------------------------------------------------
(* The outbox implements ApprovalContract.                                 *)

(* An approval is claimed at most MaxAttempts times, and one that is being *)
(* processed has been claimed.                                             *)
AttemptsAreCounted == \A a \in Approvals :
  /\ approvals[a].attempts <= MaxAttempts
  /\ approvals[a].status = "processing" => approvals[a].attempts # 0

(* Only a claim counts an attempt. *)
LEMMA NextAttempts ==
  ASSUME OutboxInv, AttemptsAreCounted, [Next]_vars
  PROVE  AttemptsAreCounted'
<1> USE DEF OutboxInv, TypeOK, ApprovalRow, AttemptsAreCounted
<1>1. CASE \E a \in Approvals : ApprovalRequested(a)
  BY <1>1 DEF ApprovalRequested
<1>2. ASSUME NEW r \in Requests, ClaimDecision(r)
      PROVE  AttemptsAreCounted'
  BY <1>2 DEF ClaimDecision, Claim, RequestsWellFormed
<1>3. ASSUME NEW r \in Requests, FinishDecision(r) \/ AbortDecision(r)
      PROVE  AttemptsAreCounted'
  BY <1>3 DEF FinishDecision, Finalize, AbortDecision, Fail, RequestsWellFormed, Decision
<1>4. ASSUME NEW a \in Approvals, NEW outcome \in Outcome, Reconcile(a, outcome)
      PROVE  AttemptsAreCounted'
  BY <1>4 DEF Reconcile, ReconcileRows, OperationsWellFormed, Decision
<1>5. CASE Restart
  BY <1>5 DEF Restart, RecoverRows
<1>6. CASE UNCHANGED approvals
  BY <1>6
<1> QED
  BY <1>1, <1>2, <1>3, <1>4, <1>5, <1>6
     DEF Next, RequestStep, ReceiveDecision, RefuseDecision, ExecuteEffect, Crash, vars

(* A step of tables, requests, crashes and reconciliations is one step of  *)
(* the contract, or none.                                                  *)
LEMMA StepIsContractStep ==
  ASSUME OutboxInv, AttemptsAreCounted, [Next]_vars
  PROVE  [Contract!Next]_(Contract!contractVars)
<1> DEFINE force(a) == effects[a] \ disowned[a]
           settled(a) == IF approvals[a].status \in Decision THEN approvals[a].status ELSE NULL
           inForce == [a \in Approvals |-> force(a)]
           verdict == [a \in Approvals |-> settled(a)]
<1> USE DEF OutboxInv, TypeOK, ApprovalRow, OperationRow
<1>a. ASSUME UNCHANGED <<effects, disowned>>, \A a \in Approvals : settled(a)' = settled(a)
      PROVE  UNCHANGED Contract!contractVars
  <2>1. inForce' = inForce
    BY <1>a
  <2>2. verdict' = verdict
    BY <1>a
  <2> QED
    BY <2>1, <2>2 DEF Contract!contractVars
<1>b. ASSUME NEW a \in Approvals, NEW d \in Decision, UNCHANGED <<effects, disowned>>,
             approvals[a].status \notin Decision,
             settled(a)' = d, \A b \in Approvals \ {a} : settled(b)' = settled(b)
      PROVE  Contract!Next
  <2>1. inForce' = inForce
    BY <1>b
  <2>2. verdict' = [verdict EXCEPT ![a] = d]
    BY <1>b
  <2>3. verdict[a] = NULL
    BY <1>b
  <2>4. Contract!Settle(a, d)
    BY <2>1, <2>2, <2>3 DEF Contract!Settle
  <2> QED
    BY <2>4 DEF Contract!Next, Contract!Decision, Decision
<1>1. ASSUME NEW a \in Approvals, ApprovalRequested(a)
      PROVE  UNCHANGED Contract!contractVars
  <2>1. \A b \in Approvals : settled(b)' = settled(b)
    BY <1>1 DEF ApprovalRequested, Decision
  <2> QED
    BY <1>1, <1>a, <2>1 DEF ApprovalRequested
<1>2. ASSUME NEW r \in Requests, ClaimDecision(r)
      PROVE  UNCHANGED Contract!contractVars
  <2>1. \A b \in Approvals : settled(b)' = settled(b)
    BY <1>2 DEF ClaimDecision, Claim, Decision, RequestsWellFormed
  <2> QED
    BY <1>2, <1>a, <2>1 DEF ClaimDecision
<1>3. ASSUME NEW r \in Requests, ExecuteEffect(r)
      PROVE  Contract!Next \/ UNCHANGED Contract!contractVars
  <2>1. PICK a \in Approvals : a = request[r].approval /\ approvals[a].status = "processing"
    BY <1>3 DEF ExecuteEffect, RequestsWellFormed
  <2>2. PICK e \in 1 .. MaxAttempts : e = operations[a].attempt
    BY <2>1 DEF TablesAgree, AttemptsAreCounted
  <2>3. verdict' = verdict /\ verdict[a] = NULL
    BY <1>3, <2>1 DEF ExecuteEffect, Decision
  <2>4. effects' = [effects EXCEPT ![a] = @ \cup {e}] /\ disowned' = disowned
    BY <1>3, <2>1, <2>2 DEF ExecuteEffect
  <2>5. force(a) \subseteq {e}
    BY <2>2 DEF OnlyNewestInForce
  <2>6. \A b \in Approvals \ {a} : force(b)' = force(b)
    BY <2>4
  <2>7. CASE e \in effects[a] \/ e \in disowned[a]
    <3>1. force(a)' = force(a)
      BY <2>1, <2>4, <2>7
    <3>2. inForce' = inForce
      BY <2>6, <3>1
    <3> QED
      BY <2>3, <3>2 DEF Contract!contractVars
  <2>8. CASE e \notin effects[a] /\ e \notin disowned[a]
    <3>1. force(a) = {} /\ force(a)' = {e}
      BY <2>1, <2>4, <2>5, <2>8
    <3>2. inForce' = [inForce EXCEPT ![a] = {e}] /\ inForce[a] = {}
      BY <2>1, <2>6, <3>1
    <3>3. Contract!Execute(a)
      BY <2>2, <2>3, <3>2 DEF Contract!Execute
    <3> QED
      BY <2>1, <3>3 DEF Contract!Next
  <2> QED
    BY <2>7, <2>8
<1>4. ASSUME NEW r \in Requests, FinishDecision(r)
      PROVE  Contract!Next \/ UNCHANGED Contract!contractVars
  <2>1. PICK a \in Approvals, d \in Decision :
          /\ a = request[r].approval /\ d = request[r].decision
          /\ approvals[a].status = "processing" /\ UNCHANGED <<effects, disowned>>
    BY <1>4 DEF FinishDecision, RequestsWellFormed
  <2>2. CASE CanFinalize(a, d)
    <3>1. approvals' = [approvals EXCEPT ![a].status = d]
      BY <1>4, <2>1, <2>2 DEF FinishDecision, Finalize
    <3>2. settled(a)' = d /\ \A b \in Approvals \ {a} : settled(b)' = settled(b)
      BY <2>1, <3>1
    <3> QED
      BY <1>b, <2>1, <3>2 DEF Decision
  <2>3. CASE ~CanFinalize(a, d)
    <3>1. \A b \in Approvals : settled(b)' = settled(b)
      BY <1>4, <2>1, <2>3 DEF FinishDecision, Fail, Decision
    <3> QED
      BY <1>a, <2>1, <3>1
  <2> QED
    BY <2>2, <2>3
<1>5. ASSUME NEW r \in Requests, AbortDecision(r)
      PROVE  UNCHANGED Contract!contractVars
  <2>1. \A b \in Approvals : settled(b)' = settled(b)
    BY <1>5 DEF AbortDecision, Fail, Decision, RequestsWellFormed
  <2> QED
    BY <1>5, <1>a, <2>1 DEF AbortDecision
<1>6. ASSUME NEW a \in Approvals, NEW outcome \in Outcome, Reconcile(a, outcome)
      PROVE  Contract!Next \/ UNCHANGED Contract!contractVars
  <2>1. approvals[a].status = "reconcile_required" /\ operations[a].decision \in Decision
    BY <1>6 DEF Reconcile, TablesAgree, OperationsWellFormed
  <2>2. CASE outcome = "applied"
    <3>1. approvals' = [approvals EXCEPT ![a].status = operations[a].decision]
          /\ UNCHANGED <<effects, disowned>>
      BY <1>6, <2>1, <2>2 DEF Reconcile, ReconcileRows
    <3>2. settled(a)' = operations[a].decision /\ \A b \in Approvals \ {a} : settled(b)' = settled(b)
      BY <2>1, <3>1
    <3> QED
      BY <1>b, <2>1, <3>1, <3>2 DEF Decision
  <2>3. CASE outcome = "not_applied"
    <3>1. /\ approvals' = [approvals EXCEPT ![a].status = "pending", ![a].requested = NULL]
          /\ disowned' = [disowned EXCEPT ![a] = @ \cup {operations[a].attempt}]
          /\ effects' = effects
      BY <1>6, <2>1, <2>3 DEF Reconcile, ReconcileRows
    <3>2. force(a)' = {} /\ \A b \in Approvals \ {a} : force(b)' = force(b)
      BY <3>1 DEF OnlyNewestInForce
    <3>3. inForce' = [inForce EXCEPT ![a] = {}]
      BY <3>2
    <3>4. verdict' = verdict /\ verdict[a] = NULL
      BY <2>1, <3>1 DEF Decision
    <3>5. Contract!Disown(a)
      BY <3>3, <3>4 DEF Contract!Disown
    <3> QED
      BY <3>5 DEF Contract!Next
  <2> QED
    BY <2>2, <2>3 DEF Outcome
<1>7. CASE Restart
  <2>1. \A b \in Approvals : settled(b)' = settled(b)
    BY <1>7 DEF Restart, RecoverRows, TablesAgree, Decision
  <2> QED
    BY <1>7, <1>a, <2>1 DEF Restart
<1>8. CASE UNCHANGED <<approvals, effects, disowned>>
  BY <1>8, <1>a
<1> QED
  BY <1>1, <1>2, <1>3, <1>4, <1>5, <1>6, <1>7, <1>8
     DEF Next, RequestStep, ReceiveDecision, RefuseDecision, Crash, vars

(* Requests, failures, crashes, restarts and reconciliations produce       *)
(* nothing that the contract does not allow.                               *)
THEOREM OutboxImplementsContract == Spec => ImplementsContract
<1>1. Init => AttemptsAreCounted
  BY DEF Init, AttemptsAreCounted, NoApproval
<1>2. Init => Contract!Init
  BY DEF Init, Contract!Init, NoApproval, Decision
<1> QED
  BY <1>1, <1>2, OutboxInvariant, NextAttempts, StepIsContractStep, PTL
     DEF Spec, ImplementsContract, Contract!Spec
=============================================================================
