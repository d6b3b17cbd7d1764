--------------------------- MODULE MCOrchestrator ---------------------------
(* The linear runner on a small instance. *)
EXTENDS Orchestrator

Raw(role, exact) == [role |-> role, exact |-> exact, described |-> TRUE]

\* A good two-step plan, one whose second role has no agent, a fenced answer, a
\* free-form risk, an empty plan, an undescribed step and text without JSON.
MCResponses ==
  { [syntax |-> "object",  steps |-> <<Raw("office", TRUE), Raw("office", TRUE)>>],
    [syntax |-> "object",  steps |-> <<Raw("unknown", TRUE), Raw("file", TRUE)>>],
    [syntax |-> "wrapped", steps |-> <<Raw("file", TRUE), Raw("office", TRUE)>>],
    [syntax |-> "object",  steps |-> <<Raw("office", FALSE)>>],
    [syntax |-> "object",  steps |-> <<>>],
    [syntax |-> "object",  steps |-> <<[role |-> "office", exact |-> TRUE, described |-> FALSE]>>],
    [syntax |-> "nonobject", steps |-> <<>>],
    [syntax |-> "none",    steps |-> <<>>] }

MCPools == { {}, {"planner", "office"} }

=============================================================================
