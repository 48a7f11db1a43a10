------------------------------- MODULE Backfill -------------------------------
(***************************************************************************)
(* BackfillCoordinator of processors/bitcoin-canonicality/src/backfill.rs: *)
(* a height range is fetched concurrently from a Bitcoin node, archived    *)
(* and materialized in height order, with a checkpoint persisted after     *)
(* each.  Every await may fail, and the process may stop at every await;   *)
(* the node may reorganise at any time.                                    *)
(*                                                                         *)
(* The sink and the node are external.  A sink call that fails may have    *)
(* taken effect.  A node keeps the blocks it leaves, so getblock by hash   *)
(* answers whenever getblockhash did, and the two are one step.            *)
(***************************************************************************)
EXTENDS BlockTree

CONSTANTS
    StartHeight, EndHeight,     \* the request
    MaxInFlight,
    Tips,                       \* blocks the node may have as its tip
    MaxFaults                   \* bound on failed awaits and stops

VARIABLES
    node_tip,       \* tip of the node's active chain
    checkpoint,     \* the caller's BackfillCheckpoint: last heights, or -1
    persisted,      \* the durable one
    tip_at_start,   \* canonical_tip_hash_at_start
    fetched,        \* height -> hash, the buffered results of this pass
    at,             \* the await the pass is at
    archived, materialized,     \* what the sinks hold
    report,         \* tip_at_end of the finished pass, or NoBlock
    faults

backfillVars == <<node_tip, checkpoint, persisted, tip_at_start, fetched, at,
                  archived, materialized, report, faults>>

sinks == <<archived, materialized>>

none == [archived |-> -1, materialized |-> -1]

(* The tip of the node's chain at a height. *)
block_hash(h) == path[node_tip][h + 1]

(* The node is past the end of the range. *)
ASSUME TipsAssumption == Tips \subseteq {b \in Blocks : height(b) >= EndHeight}

BackfillInit ==
    /\ node_tip \in Tips
    /\ checkpoint = none /\ persisted = none
    /\ tip_at_start = node_tip
    /\ fetched = <<>>
    /\ at = "stopped"
    /\ archived = {} /\ materialized = {}
    /\ report = NoBlock
    /\ faults = 0

(* The node follows the most work it has seen. *)
NodeReorganises ==
    /\ \E b \in Tips :
          /\ cumulative_work[b] > cumulative_work[node_tip]
          /\ node_tip' = b
    /\ UNCHANGED <<checkpoint, persisted, tip_at_start, fetched, at, sinks, report, faults>>

(* Mutant: skips a height on resume. *)
first_height_skips ==
    IF checkpoint.materialized = -1 THEN StartHeight ELSE checkpoint.materialized + 2

(* Mutant: starts at the last materialized height again. *)
first_height_repeats ==
    IF checkpoint.materialized = -1 THEN StartHeight ELSE checkpoint.materialized

(* The height whose block the pass handles next. *)
first_height ==
    IF checkpoint.materialized = -1 THEN StartHeight ELSE checkpoint.materialized + 1

(* run with the checkpoint at hand. *)
RunBegins ==
    /\ at = "stopped" /\ report = NoBlock
    /\ at' = "fetch"
    /\ fetched' = <<>>
    /\ UNCHANGED <<node_tip, checkpoint, persisted, tip_at_start, sinks, report, faults>>

(* A restarted process runs with the persisted checkpoint. *)
RunResumes ==
    /\ at = "stopped" /\ report = NoBlock
    /\ checkpoint' = persisted
    /\ at' = "fetch"
    /\ fetched' = <<>>
    /\ UNCHANGED <<node_tip, persisted, tip_at_start, sinks, report, faults>>

(* fetch_block: up to max_in_flight requests are out, the handled one
   included, and are answered in any order. *)
fetch_block(h) ==
    /\ at # "stopped"
    /\ h \in first_height .. EndHeight
    /\ h < first_height + MaxInFlight
    /\ h \notin DOMAIN fetched
    /\ fetched' = [k \in DOMAIN fetched \union {h} |->
                      IF k = h THEN block_hash(h) ELSE fetched[k]]
    /\ UNCHANGED <<node_tip, checkpoint, persisted, tip_at_start, at, sinks, report, faults>>

(* The block being handled. *)
block == fetched[first_height]

(* Coverage of the archive decides whether the block is archived. *)
archive_next ==
    IF checkpoint.archived < first_height THEN "archive" ELSE "materialize"

(* fetches.next() yields the results in height order. *)
NextBlock ==
    /\ at = "fetch"
    /\ first_height \in DOMAIN fetched
    /\ at' = archive_next
    /\ UNCHANGED <<node_tip, checkpoint, persisted, tip_at_start, fetched, sinks, report, faults>>

archive ==
    /\ at = "archive"
    /\ archived' = archived \union {block}
    /\ at' = "persist_archived"
    /\ UNCHANGED <<node_tip, checkpoint, persisted, tip_at_start, fetched, materialized, report, faults>>

materialize ==
    /\ at = "materialize"
    /\ materialized' = materialized \union {block}
    /\ at' = "persist_materialized"
    /\ UNCHANGED <<node_tip, checkpoint, persisted, tip_at_start, fetched, archived, report, faults>>

(* Mutant: counts the height after the block's. *)
next_checkpoint_ahead ==
    IF at = "persist_archived" THEN [checkpoint EXCEPT !.archived = first_height + 1]
    ELSE [checkpoint EXCEPT !.materialized = first_height]

(* The complete next value that is persisted before the caller's copy moves. *)
next_checkpoint ==
    IF at = "persist_archived" THEN [checkpoint EXCEPT !.archived = first_height]
    ELSE [checkpoint EXCEPT !.materialized = first_height]

persist_checkpoint ==
    /\ at \in {"persist_archived", "persist_materialized"}
    /\ persisted' = next_checkpoint
    /\ checkpoint' = next_checkpoint
    /\ at' = IF at = "persist_archived" THEN "materialize" ELSE "fetch"
    /\ UNCHANGED <<node_tip, tip_at_start, fetched, sinks, report, faults>>

(* All heights are done: the tip is read again for the report. *)
RunEnds ==
    /\ at = "fetch"
    /\ first_height > EndHeight
    /\ report' = node_tip
    /\ at' = "stopped"
    /\ UNCHANGED <<node_tip, checkpoint, persisted, tip_at_start, fetched, sinks, faults>>

(* An await fails, or the process stops there.  A sink may have done its
   part; the caller's checkpoint stays behind. *)
Fails ==
    /\ at # "stopped"
    /\ faults < MaxFaults
    /\ faults' = faults + 1
    /\ archived' \in {archived, IF at = "archive" THEN archived \union {block} ELSE archived}
    /\ materialized' \in {materialized, IF at = "materialize" THEN materialized \union {block}
                                        ELSE materialized}
    /\ persisted' \in {persisted, IF at \in {"persist_archived", "persist_materialized"}
                                  THEN next_checkpoint ELSE persisted}
    /\ at' = "stopped"
    /\ UNCHANGED <<node_tip, checkpoint, tip_at_start, fetched, report>>

Pass ==
    \/ \E h \in StartHeight .. EndHeight : fetch_block(h)
    \/ NextBlock
    \/ archive
    \/ materialize
    \/ persist_checkpoint
    \/ RunEnds

BackfillNext == RunBegins \/ RunResumes \/ Pass \/ Fails \/ NodeReorganises

(* Awaits are answered, and an operator restarts a pass that has failed. *)
BackfillFairness == WF_backfillVars(Pass) /\ WF_backfillVars(RunBegins \/ RunResumes)

BackfillSpec == BackfillInit /\ [][BackfillNext]_backfillVars /\ BackfillFairness

-----------------------------------------------------------------------------
(* Properties *)

Covers(sink, last) ==
    \A h \in StartHeight .. last : \E b \in sink : height(b) = h

(* The durable checkpoint never claims more than the sinks hold: each height
   up to it has an archived, respectively a materialized block, whatever
   failed and wherever the process stopped. *)
CheckpointCovered ==
    Covers(archived, persisted.archived) /\ Covers(materialized, persisted.materialized)

(* A finished backfill that reports an unchanged tip is an exact snapshot: at
   every height the archived and the materialized block are the node's.  This is
   said of one job.  start persists nothing, so a job that is lost before its
   first checkpoint is followed by another, which knows nothing of what the
   first one archived. *)
UnchangedTipIsExact ==
    report # NoBlock /\ report = tip_at_start =>
        LET chain == {path[report][h + 1] : h \in StartHeight .. EndHeight}
        IN  archived = chain /\ materialized = chain

(* Raw first: no block is materialized that was not archived. *)
MaterializedIsArchived == materialized \subseteq archived

(* With finitely many faults the backfill finishes. *)
BackfillFinishes == <>(report # NoBlock)
=============================================================================
