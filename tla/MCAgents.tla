------------------------------ MODULE MCAgents ------------------------------
(* Two tasks of every pair of roles. *)
EXTENDS SpecialistAgents, TLC

Symmetry == Permutations(Tasks)
=============================================================================
