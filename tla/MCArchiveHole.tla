---------------------------- MODULE MCArchiveHole ----------------------------
(* One coordinator whose caller goes on to the next batch after an error. *)
EXTENDS ArchivePipeline, TLC

CONSTANT w1

Hours == (0 :> 10) @@ (1 :> 10) @@ (2 :> 11)

AllBatches == {b \in [first : 0 .. 2, last : 0 .. 2] : b.first <= b.last}
=============================================================================
