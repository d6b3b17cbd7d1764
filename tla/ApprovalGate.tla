---------------------------- MODULE ApprovalGate ----------------------------
(***************************************************************************)
(* The policy every proposed tool call passes before it runs              *)
(* (security/approval.py).  The gate is stateless: a verdict is a function *)
(* of the call, with the risk its proposer CLAIMS, and of the process's    *)
(* settings.  The registered tool's own risk plays no part in it.          *)
(***************************************************************************)

CONSTANTS
  Tools,          \* every tool name an agent may write in a call
  SafeTools,      \* ApprovalGate.SAFE_TOOLS
  ElevatedTools   \* ApprovalGate.ELEVATED_TOOLS

ASSUME GateAssumption == SafeTools \subseteq Tools /\ ElevatedTools \subseteq Tools

Risks  == {"none", "safe", "destructive", "elevated"}
Levels == {"none", "destructive", "all"}
Envs   == {"dev", "staging", "prod"}

Calls     == [tool : Tools, risk : Risks]
Decisions == {"allow", "defer", "deny"}

RiskyCall(call)     == call.risk \in {"destructive", "elevated"}
SafeListed(call)    == call.tool \in SafeTools /\ call.risk = "none"
Misclassified(call) == call.tool \in ElevatedTools /\ call.risk # "elevated"

\* Mutant: the safe list is consulted before the "ask everything" mode.
AsksSafeListFirst(call, settings) ==
  /\ ~ SafeListed(call)
  /\ \/ settings.level = "all"
     \/ IF RiskyCall(call) THEN settings.level # "none" ELSE settings.env = "prod"

\* Does the call wait for the user?
Asks(call, settings) ==
  \/ settings.level = "all"
  \/ /\ ~ SafeListed(call)
     /\ IF RiskyCall(call) THEN settings.level # "none" ELSE settings.env = "prod"

Evaluate(call, settings) ==
  IF Misclassified(call) THEN "deny"
  ELSE IF Asks(call, settings) THEN "defer" ELSE "allow"

=============================================================================
