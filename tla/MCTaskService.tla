--------------------------- MODULE MCTaskService ---------------------------
(* One goal, two workers, and failures of every kind. *)
EXTENDS TaskService

=============================================================================
