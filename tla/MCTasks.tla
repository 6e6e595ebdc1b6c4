------------------------------ MODULE MCTasks ------------------------------
(* Instances of SystemTasks: every task, two runs and two changes at once. *)
EXTENDS SystemTasks

=============================================================================
