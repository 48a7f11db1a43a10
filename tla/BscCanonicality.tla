--------------------------- MODULE BscCanonicality ---------------------------
(***************************************************************************)
(* BscCanonicality of processors/evm-canonicality/src/lib.rs: the          *)
(* execution chain with BSC's native finalized tag, reported by one node   *)
(* with the time of the report.  A rejected call changes nothing and is    *)
(* not a step.                                                             *)
(***************************************************************************)
EXTENDS ExecutionChain

CONSTANT MaxTime        \* reports carry times 1 .. MaxTime

ASSUME TimeAssumption == MaxTime \in Nat

VARIABLES
    last_observed_at,   \* 0 before the first report
    last_finality_change_at

bscVars == <<chainVars, last_observed_at, last_finality_change_at>>

BscInit ==
    /\ ChainInit
    /\ last_observed_at = 0
    /\ last_finality_change_at = 0

bsc_commit_segment(segment) ==
    /\ commit(segment)
    /\ UNCHANGED <<last_observed_at, last_finality_change_at>>

(* Unlike Ethereum's, the new segment may repeat blocks of the old one. *)
bsc_reorg(old, new) ==
    /\ reorg_applies(old, new)
    /\ replace(old, new)
    /\ UNCHANGED <<last_observed_at, last_finality_change_at>>

(* A repeated report of the same block makes a revision and no change. *)
observe_finalized(observed, at) ==
    /\ at > last_observed_at
    /\ head # NoBlock
    /\ observed \in canonical
    /\ is_ancestor(observed, head)
    /\ \/ finalized \in {NoBlock, observed}
       \/ is_ancestor(finalized, observed) /\ number[observed] > number[finalized]
    /\ last_observed_at' = at
    /\ finalized' = observed
    /\ last_finality_change_at' = IF finalized # observed THEN at ELSE last_finality_change_at
    /\ status' = [status EXCEPT ![observed] = "fast_finalized"]
    /\ UNCHANGED <<blocks, canonical, head>>

BscNext ==
    \/ \E segment \in Segments : bsc_commit_segment(segment)
    \/ \E old, new \in Segments : bsc_reorg(old, new)
    \/ \E b \in Blocks, at \in 1 .. MaxTime : observe_finalized(b, at)

BscSpec == BscInit /\ [][BscNext]_bscVars

-----------------------------------------------------------------------------
(* A block once reported final keeps that status in its highest revision,
   whatever is reorganised above it later. *)
FinalRevisionsStay ==
    [][\A b \in Blocks : status[b] = "fast_finalized" => status'[b] = "fast_finalized"]_bscVars
=============================================================================
