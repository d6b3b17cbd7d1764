\* One tool, elevated: its calls run, wait or are denied. Four
\* iterations let a task fail, pass a step and fail again.
SPECIFICATION Spec
CONSTANTS
  Tools = {pay}
  SafeTools = {}
  ElevatedTools = {pay}
  RegisteredTools = {pay}
  Roles = {"planner", "office", "reviewer"}
  ToolRoles = {"office"}
  Pools <- MCPools
  Responses <- MCResponses
  Budgets = {0, 4}
  MaxAttempts = 2
  NoCall = NoCall
INVARIANTS
  RefusedCallFailsTask
  CompletedIsReviewed
  FailsOnlyOnTwoFailures
PROPERTIES
  KeepsContract
  StepsRunOut
  AlwaysAnswers
CHECK_DEADLOCK FALSE
