------------------------------- MODULE MCWal -------------------------------
(* Instances of Wal for TLC. *)
EXTENDS Wal, TLC
=============================================================================
