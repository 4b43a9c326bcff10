------------------------- MODULE MCHydraulicSolver -------------------------
(* A simulation of up to three steps, at times and with steps the toolkit picks.  *)
EXTENDS HydraulicSolver
=============================================================================
