\* Two iterations: the last step the budget allows is one the reviewer fails.
SPECIFICATION Spec
CONSTANTS
  Tools = {pay}
  SafeTools = {}
  ElevatedTools = {pay}
  RegisteredTools = {pay}
  Roles = {"planner", "office", "reviewer"}
  ToolRoles = {"office"}
  Pools <- MCPools
  Responses <- MCResponses
  Budgets = {2}
  MaxAttempts = 2
  NoCall = NoCall
INVARIANT FailedIsNotCompleted
CHECK_DEADLOCK FALSE
