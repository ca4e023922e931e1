------------------------------ MODULE MCDurable ------------------------------
(***************************************************************************)
(* What the gateway keeps in rows and files, side by side: approvals,      *)
(* deletions, the apply stage, new projects, merges, resource leases, the  *)
(* registry of agents and the questions to the user.  They share no state, *)
(* so each behaviour runs one of them while the others rest.               *)
(***************************************************************************)
EXTENDS ApprovalOutbox, DeletionOperation, ApplyVerification, NewSibling, ResourceLeases, AgentRegistry, Questions,
        WorkspaceMerge

CONSTANTS a1, a2, r1, r2, d1, d2, o1, o2, h1, h2, h3, p1, k1, k2, k3, b1, m1, m2

MCApprovals  == {a1, a2}
MCRequests   == {r1, r2}
MCDeletions  == {d1, d2}
MCPublishers == {o1, o2}
MCHolders    == {h1, h2, h3}
MCPlanned    == {p1}
MCGuarded    == {1, 3}
MCKeys       == {k1, k2, k3}
MCDismissals == {k3}
MCBranches   == {b1}
MCMerges     == {m1, m2}
MCDirect     == {m2}
MCBranchOf   == [m \in MCMerges |-> b1]

VARIABLE component

durableVars ==
  <<component, vars, deletionVars, applyVars, siblingVars, leaseVars, registryVars, questionVars, mergeVars>>

Outbox(A) ==
  /\ component = "approvals" /\ A
  /\ UNCHANGED <<component, deletionVars, applyVars, siblingVars, leaseVars, registryVars, questionVars, mergeVars>>
Deletion(A) ==
  /\ component = "deletion" /\ A
  /\ UNCHANGED <<component, vars, applyVars, siblingVars, leaseVars, registryVars, questionVars, mergeVars>>
Applying(A) ==
  /\ component = "apply" /\ A
  /\ UNCHANGED <<component, vars, deletionVars, siblingVars, leaseVars, registryVars, questionVars, mergeVars>>
Publishing(A) ==
  /\ component = "sibling" /\ A
  /\ UNCHANGED <<component, vars, deletionVars, applyVars, leaseVars, registryVars, questionVars, mergeVars>>
Leasing(A) ==
  /\ component = "leases" /\ A
  /\ UNCHANGED <<component, vars, deletionVars, applyVars, siblingVars, registryVars, questionVars, mergeVars>>
Registering(A) ==
  /\ component = "agents" /\ A
  /\ UNCHANGED <<component, vars, deletionVars, applyVars, siblingVars, leaseVars, questionVars, mergeVars>>
Asking(A) ==
  /\ component = "questions" /\ A
  /\ UNCHANGED <<component, vars, deletionVars, applyVars, siblingVars, leaseVars, registryVars, mergeVars>>
Merging(A) ==
  /\ component = "merges" /\ A
  /\ UNCHANGED <<component, vars, deletionVars, applyVars, siblingVars, leaseVars, registryVars, questionVars>>

(* The stage of a plan, publications, merges and the agents of a mission   *)
(* end.                                                                    *)
ComponentEnds ==
  /\ \/ component = "apply" /\ At("idle")
     \/ component = "sibling" /\ \A o \in Publishers : step[o] \in {"over", "refused"}
     \/ component = "merges" /\ \A m \in Merges : at[m] = "over"
     \/ component = "agents" /\ \A a \in Agents : worker[a] \notin AtWork
  /\ UNCHANGED durableVars

DurableInit ==
  /\ component \in {"approvals", "deletion", "apply", "sibling", "leases", "agents", "questions", "merges"}
  /\ Init /\ DeletionInit /\ SiblingInit /\ LeaseInit /\ RegistryInit /\ QuestionInit /\ MergeInit
  /\ ApplyInit /\ (component # "apply" => approval = "none")
DurableNext ==
  \/ Outbox(Next) \/ Deletion(DeletionNext) \/ Applying(ApplyNext) \/ Publishing(SiblingNext)
  \/ Leasing(LeaseNext) \/ Registering(RegistryNext)
  \/ Asking(QuestionNext) \/ Merging(MergeNext) \/ ComponentEnds

DurableSpec ==
  /\ DurableInit /\ [][DurableNext]_durableVars
  /\ WF_durableVars(Outbox(Restart)) /\ \A r \in Requests : WF_durableVars(Outbox(RequestStep(r)))
  /\ WF_durableVars(Deletion(LeaseRunsOut))
  /\ \A r \in Runners : WF_durableVars(Deletion(ReadRow(r))) /\ WF_durableVars(Deletion(RunnerNext(r)))
  /\ WF_durableVars(Applying(JobNext)) /\ WF_durableVars(Applying(RecoverCompletion))
  /\ WF_durableVars(Applying(RecoverPlan)) /\ WF_durableVars(Applying(Approve))
  /\ WF_durableVars(Applying(ReconcileApply)) /\ WF_durableVars(Applying(RequestRetry))
  /\ \A o \in Publishers : WF_durableVars(Publishing(PublishStep(o)))
  /\ WF_durableVars(Leasing(LeaseTick))
  /\ \A h \in Holders : WF_durableVars(Leasing(Statement(h))) /\ WF_durableVars(Leasing(Ask(h, "reserve")))
  /\ WF_durableVars(Asking(ReadResolution)) /\ WF_durableVars(Asking(ListQuestions))
  /\ \A k \in Keys : WF_durableVars(Asking(ReplyStep(k)))

(* Each variable of the components has its type.                           *)
DurableTypeOK ==
  /\ TypeOK /\ DeletionTypeOK /\ ApplyTypeOK /\ SiblingTypeOK /\ LeaseTypeOK /\ RegistryTypeOK
  /\ QuestionTypeOK /\ MergeTypeOK
=============================================================================
