------------------------ MODULE EthereumCanonicality ------------------------
(***************************************************************************)
(* EthereumCanonicality of processors/evm-canonicality/src/lib.rs: the     *)
(* execution chain joined to the safe and finalized checkpoints of a       *)
(* consensus client.  A rejected call changes nothing and is not a step.   *)
(***************************************************************************)
EXTENDS ExecutionChain

VARIABLE safe

ethereumVars == <<chainVars, safe>>

EthereumInit ==
    /\ ChainInit
    /\ safe = NoBlock

commit_segment(segment) ==
    /\ commit(segment)
    /\ UNCHANGED safe

(* Mutant: the safe checkpoint survives the reorg that removes its block. *)
reorg_keeps_safe(old, new) ==
    /\ reorg_applies(old, new)
    /\ Elements(new) \intersect canonical = {}
    /\ replace(old, new)
    /\ UNCHANGED safe

(* The safe checkpoint is dropped when its block left the chain. *)
reorg(old, new) ==
    /\ reorg_applies(old, new)
    /\ Elements(new) \intersect canonical = {}
    /\ replace(old, new)
    /\ safe' = IF safe \in canonical' THEN safe ELSE NoBlock

(* Mutant: any canonical checkpoint is taken. *)
advances_anywhere(previous, next) == TRUE

(* A checkpoint moves forward on its own branch or stays. *)
advances(previous, next) ==
    \/ previous \in {NoBlock, next}
    \/ is_ancestor(previous, next) /\ number[previous] < number[next]

observe_checkpoint(new_safe, new_finalized) ==
    /\ head # NoBlock
    /\ {new_safe, new_finalized} \subseteq canonical
    /\ is_ancestor(new_finalized, new_safe)
    /\ is_ancestor(new_safe, head)
    /\ advances(finalized, new_finalized)
    /\ advances(safe, new_safe)
    /\ safe' = new_safe
    /\ finalized' = new_finalized
    /\ status' =
          [b \in Blocks |->
              IF b = new_finalized /\ finalized # new_finalized THEN "finalized"
              ELSE IF b = new_safe /\ safe # new_safe THEN "safe"
              ELSE status[b]]
    /\ UNCHANGED <<blocks, canonical, head>>

EthereumNext ==
    \/ \E segment \in Segments : commit_segment(segment)
    \/ \E old, new \in Segments : reorg(old, new)
    \/ \E s, f \in Blocks : observe_checkpoint(s, f)

EthereumSpec == EthereumInit /\ [][EthereumNext]_ethereumVars

-----------------------------------------------------------------------------
(* At every moment the checkpoints are ancestors of one another and of the
   head; a reorg can only take the safe one away. *)
CheckpointsOrdered ==
    safe # NoBlock =>
        /\ finalized # NoBlock
        /\ is_ancestor(finalized, safe)
        /\ is_ancestor(safe, head)

(* The highest revision of the finalized block says that it is final (BSC's
   tracker has its own word for it). *)
FinalizedRevisionStays ==
    finalized # NoBlock => status[finalized] \in {"finalized", "fast_finalized"}
=============================================================================
