-------------------------- MODULE MCMissionScheduler --------------------------
(* Instances of MissionScheduler: the plans a mission is checked with.     *)
EXTENDS MissionScheduler

(* Two candidates that wait for each other's slot, and a plain pipeline    *)
(* with two Researchers before the Builder.                                *)
Candidates == [kind |-> "candidate", role |-> <<"builder", "builder", "reviewer", "qa">>,
               deps |-> <<{}, {}, {1, 2}, {3}>>]
Pipeline == [kind |-> "execute", role |-> <<"researcher", "researcher", "builder", "reviewer">>,
             deps |-> <<{}, {}, {1, 2}, {3}>>]
Research == [kind |-> "delegate", role |-> <<"researcher", "researcher">>, deps |-> <<{}, {1}>>]

MCPlans == {Candidates, Pipeline, Research}
MCResearch == {Research}
MCCandidates == {Candidates}
MCRoleLimit == [r \in {"builder", "reviewer", "qa", "researcher"} |-> IF r = "builder" THEN 2 ELSE 1]
Only(kinds) == [k \in Kinds |-> IF k \in kinds THEN 1 ELSE 0]
MCScenarios == {Only({"expiry", "crash"}), Only({"repeat"}), Only({"userRetry", "cancel"}), Only({"crash", "cancel"})}
MCUndisturbed == {Only({})}
=============================================================================
