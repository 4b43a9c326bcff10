------------------------ MODULE MCSimulationManager ------------------------
(* Two or three jobs, the manager's thread and another client, one or two workers. *)
EXTENDS SimulationManager, TLC

JobSymmetry == Permutations(Jobs)

=============================================================================
