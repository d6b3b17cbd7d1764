------------------------ MODULE MCGraphOrchestrator ------------------------
(* The graph on a small instance, with and without a working agent. *)
EXTENDS GraphOrchestrator

Raw(role) == [role |-> role, exact |-> TRUE, described |-> TRUE]

\* A three-step plan, a plan the orchestrator's parser refuses, and no plan.
MCResponses ==
  { [syntax |-> "object", steps |-> <<Raw("office"), Raw("reviewer"), Raw("reviewer")>>],
    [syntax |-> "object", steps |-> <<[role |-> "office", exact |-> FALSE, described |-> TRUE]>>],
    [syntax |-> "none",   steps |-> <<>>] }

MCPools == { {"planner", "reviewer"}, {"planner", "reviewer", "office"} }

=============================================================================
