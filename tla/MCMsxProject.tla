---------------------------- MODULE MCMsxProject ----------------------------
(* Two concurrent runs of up to three steps each. *)
EXTENDS MsxProject

CONSTANTS r1, r2

MCRuns == {r1, r2}
=============================================================================
