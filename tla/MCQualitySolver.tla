-------------------------- MODULE MCQualitySolver --------------------------
(* An analysis of up to three samples, at times the toolkit picks. *)
EXTENDS QualitySolver
=============================================================================
