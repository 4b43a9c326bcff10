---------------------------- MODULE MCEpanetRun ----------------------------
(* A request of up to two quality runs, with or without a multi-species run. *)
EXTENDS EpanetRun
=============================================================================
