\* The step after a refused call resets the FAILED it had set.
SPECIFICATION Spec
CONSTANTS
  Tools = {read, write, pay, ghost}
  SafeTools = {read}
  ElevatedTools = {pay}
  RegisteredTools = {read, write, pay}
  Roles = {"planner", "office", "file"}
  ToolRoles = {"office"}
  Pools <- MCPools
  Responses <- MCResponses
  Budgets = {0, 1, 2}
  MaxAttempts = 2
  NoCall = NoCall
INVARIANT RefusedCallFailsTask
CHECK_DEADLOCK FALSE
