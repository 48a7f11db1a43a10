-------------------------- MODULE MCSourceCapture --------------------------
(* Instances of SourceCapture for TLC. *)
EXTENDS SourceCapture, TLC
=============================================================================
