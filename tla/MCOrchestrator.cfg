\* Settings range over every level and environment; the budgets cover a plan
\* that fits, one that does not, and none at all.
SPECIFICATION Spec
CONSTANTS
  Tools = {read, write, pay, ghost}
  SafeTools = {read}
  ElevatedTools = {pay}
  RegisteredTools = {read, write, pay}
  Roles = {"planner", "office", "file"}
  ToolRoles = {"office"}
  Pools <- MCPools
  Responses <- MCResponses
  Budgets = {0, 1, 2}
  MaxAttempts = 2
  NoCall = NoCall
INVARIANTS
  TypeOK
  PolicyRespected
  AuditComplete
  CompletedMeansWalked
  EffectsWithinBudget
  MemoryMatchesOutcome
PROPERTIES
  NothingAfterPause
  KeepsContract
  AlwaysAnswers
CHECK_DEADLOCK FALSE
