-------------------------- MODULE ApprovalContract --------------------------
(***************************************************************************)
(* What the approval outbox promises its users, without tables, requests   *)
(* or restarts: at most one execution of an approval's side effect is in   *)
(* force, and a verdict, once given, stands for ever.                      *)
(***************************************************************************)
CONSTANTS Approvals, Executions, NULL

VARIABLES
  inForce,  \* inForce[a]: the executions of a's side effect nobody disowned
  verdict   \* verdict[a]: the final decision, or NULL

contractVars == <<inForce, verdict>>

Decision == {"approved", "rejected"}

Init ==
  /\ inForce = [a \in Approvals |-> {}]
  /\ verdict = [a \in Approvals |-> NULL]

(* The side effect runs: only while no execution of it is in force and     *)
(* nothing has been settled.                                               *)
Execute(a) ==
  /\ verdict[a] = NULL /\ inForce[a] = {}
  /\ \E e \in Executions : inForce' = [inForce EXCEPT ![a] = {e}]
  /\ UNCHANGED verdict

(* A human declares that the side effect did not take place. *)
Disown(a) ==
  /\ verdict[a] = NULL
  /\ inForce' = [inForce EXCEPT ![a] = {}]
  /\ UNCHANGED verdict

(* The verdict is recorded, once. *)
Settle(a, d) ==
  /\ verdict[a] = NULL
  /\ verdict' = [verdict EXCEPT ![a] = d]
  /\ UNCHANGED inForce

Next == \E a \in Approvals : Execute(a) \/ Disown(a) \/ \E d \in Decision : Settle(a, d)

Spec == Init /\ [][Next]_contractVars
=============================================================================
