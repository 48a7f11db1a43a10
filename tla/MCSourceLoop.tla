---------------------------- MODULE MCSourceLoop ----------------------------
(* Instances of SourceLoop for TLC. *)
EXTENDS SourceLoop, TLC
=============================================================================
