---------------------------- MODULE TaskContract ----------------------------
(***************************************************************************)
(* What a caller of either orchestrator may rely on, whatever plan the     *)
(* model makes and whatever its agents propose: a bounded number of tool   *)
(* calls take effect, all of them before the outcome is settled; a settled *)
(* outcome is the one reported; and the caller always gets an answer, if   *)
(* only an exception.                                                      *)
(***************************************************************************)
EXTENDS Naturals

VARIABLES
  budget,    \* the iteration budget of the run
  effects,   \* tool calls started so far
  phase,     \* "working", then "settled", then "reported"; or "lost"
  outcome    \* "none" until the outcome is settled

vars == <<budget, effects, phase, outcome>>

Outcomes == {"completed", "failed", "awaiting_approval"}

Init ==
  /\ budget \in Nat
  /\ effects = 0
  /\ phase = "working"
  /\ outcome = "none"

\* A tool runs.
Effect ==
  /\ phase = "working"
  /\ effects < budget
  /\ effects' = effects + 1
  /\ UNCHANGED <<budget, phase, outcome>>

Settle ==
  /\ phase = "working"
  /\ outcome' \in Outcomes
  /\ phase' = "settled"
  /\ UNCHANGED <<budget, effects>>

Report ==
  /\ phase = "settled"
  /\ phase' = "reported"
  /\ UNCHANGED <<budget, effects, outcome>>

\* The run raises: its tools have had their effects, and nobody gets the state.
Lose ==
  /\ phase \in {"working", "settled"}
  /\ phase' = "lost"
  /\ UNCHANGED <<budget, effects, outcome>>

Next == Effect \/ Settle \/ Report \/ Lose

Spec == Init /\ [][Next]_vars

Answered == <>(phase \in {"reported", "lost"})

=============================================================================
