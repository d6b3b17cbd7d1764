----------------------------- MODULE PlanParsing -----------------------------
(***************************************************************************)
(* A plan is parsed twice.  PlannerAgent validates the model's answer with *)
(* a tolerant parser (agents/planner.py) and passes the RAW text on; the   *)
(* orchestrator parses that text again, strictly (orchestration/runner.py).*)
(*                                                                         *)
(* An answer is abstracted to what the two parsers tell apart: its syntax, *)
(* and for each raw step whether it has a description, its role and        *)
(* whether its expected_risk is spelled exactly as a RiskLevel.            *)
(***************************************************************************)
EXTENDS Naturals, Sequences

CONSTANT Roles   \* the members of AgentRole the model distinguishes

ASSUME RolesAssumption == "office" \in Roles

\* "object": the text is a JSON object.  "wrapped": a JSON object inside a
\* markdown fence or prose.  "nonobject": JSON, but not an object.  "none": no
\* JSON in it.
Syntaxes == {"object", "wrapped", "nonobject", "none"}
RawStep  == [role : Roles \cup {"unknown"}, exact : BOOLEAN, described : BOOLEAN]
Response == [syntax : Syntaxes, steps : Seq(RawStep)]

PlanStep == [role : Roles, done : BOOLEAN]

\* Mutant: an unknown role is kept.
KeepRole(role) == role

\* AgentRole(value), with OFFICE for a name that is no role.
CoerceRole(role) == IF role = "unknown" THEN "office" ELSE role

Coerced(raw) == [i \in DOMAIN raw |-> [role |-> CoerceRole(raw[i].role), done |-> FALSE]]

SingleStep == <<[role |-> "office", done |-> FALSE]>>

\* _parse_plan_json: what the planner takes for a valid plan.
PlannerAccepts(r) ==
  /\ r.syntax \in {"object", "wrapped"}
  /\ r.steps # <<>>
  /\ \A i \in DOMAIN r.steps : r.steps[i].described

\* _parse_plan: TaskStep refuses an expected_risk that is no RiskLevel, and
\* payload.get fails on a payload that is no object.
RunnerRaises(r) ==
  \/ r.syntax = "nonobject"
  \/ r.syntax = "object" /\ \E i \in DOMAIN r.steps : ~ r.steps[i].exact

\* The plan the orchestrator walks: any other text than a bare object, and an
\* object without steps, gives the single-step plan.
RunnerPlan(r) ==
  IF r.syntax = "object" /\ r.steps # <<>> THEN Coerced(r.steps) ELSE SingleStep

\* The planner's own fallback after its last attempt, as the message it sends.
FallbackMessage ==
  [syntax |-> "object",
   steps  |-> <<[role |-> "office", exact |-> TRUE, described |-> TRUE]>>]

=============================================================================
