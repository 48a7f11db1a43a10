---------------------------- MODULE BitcoinState ----------------------------
(***************************************************************************)
(* BitcoinState of processors/bitcoin-canonicality: the candidate DAG with *)
(* heaviest-chain selection (dag.rs) joined to the UTXO projection         *)
(* (utxo.rs) by state.rs, which works on clones and commits both or none.  *)
(* A refused block changes nothing and is not a step.                      *)
(***************************************************************************)
EXTENDS UtxoState

CONSTANTS
    timestamp,      \* of each block
    Solved,         \* blocks whose hash meets the target they claim
    difficulty_interval,    \* of a network that retargets: all but regtest
    target_timespan,        \* the time the blocks of an interval should take
    pow_limit               \* the easiest target

ASSUME TargetAssumption ==
    /\ timestamp \in [Blocks -> Nat] /\ Solved \subseteq Blocks
    /\ difficulty_interval \in Nat \ {0, 1} /\ target_timespan \in Nat \ {0} /\ pow_limit \in Nat \ {0}

VARIABLES
    nodes,          \* accepted candidate blocks
    canonical_tip,
    utxos,          \* a UtxoState value
    latest          \* the transition with the highest revision of each block

stateVars == <<nodes, canonical_tip, utxos, latest>>

StateInit ==
    /\ nodes = {}
    /\ canonical_tip = NoBlock
    /\ utxos = new
    /\ latest = [b \in Blocks |-> "none"]

has_valid_pow_for(b, required_target) == compact_target[b] = required_target /\ b \in Solved

(* CompactTarget::from_header_difficulty_adjustment: the target changes in
   proportion to the time taken, at most fourfold, and never beyond the limit. *)
difficulty_adjustment(target, timespan) ==
    LET clamped == Max({target_timespan \div 4, Min({timespan, target_timespan * 4})})
    IN  Min({(target * clamped) \div target_timespan, pow_limit})

(* Mutant: the boundary is looked up on the canonical chain. *)
ancestor_at_canonical_height(tip, h) ==
    IF h < Len(path[canonical_tip]) THEN path[canonical_tip][h + 1] ELSE path[tip][h + 1]

(* The walk along the parents of the candidate's own branch. *)
ancestor_at_height(tip, h) == path[tip][h + 1]

needs_epoch_boundary(h) == h % difficulty_interval = 0

(* The target a child of `parent` at height h must claim. *)
next_required_target(parent, h) ==
    IF ~needs_epoch_boundary(h) THEN compact_target[parent]
    ELSE difficulty_adjustment(compact_target[parent],
             timestamp[parent] - timestamp[ancestor_at_height(parent, h - difficulty_interval)])

validate_candidate_context(b) ==
    \/ b = Genesis /\ has_valid_pow_for(b, compact_target[b])
    \/ prev[b] \in nodes /\ has_valid_pow_for(b, next_required_target(prev[b], height(b)))

(* Equal work does not replace the tip. *)
should_reorganize(b) ==
    canonical_tip = NoBlock \/ cumulative_work[b] > cumulative_work[canonical_tip]

(* The blocks to disconnect, tip first, and to connect, ancestor first. *)
disconnects(new_tip) ==
    Reverse(SelectSeq(path[canonical_tip], LAMBDA b : b \notin Members(new_tip)))

connects(new_tip) ==
    SelectSeq(path[new_tip], LAMBDA b : b \notin Members(canonical_tip))

(* The transitions applied in order; the first error ends it. *)
reorganize_to(new_tip) ==
    LET revert(u, b) == IF u.error # "none" THEN u ELSE revert_block(u, b)
        apply(u, b) == IF u.error # "none" THEN u ELSE apply_block(u, b)
    IN  FoldLeft(apply, FoldLeft(revert, utxos, disconnects(new_tip)), connects(new_tip))

(* observe_block of a block that does not become the tip. *)
observe_side_block(b) ==
    /\ b \notin nodes
    /\ validate_candidate_context(b)
    /\ ~ should_reorganize(b)
    /\ nodes' = nodes \union {b}
    /\ UNCHANGED <<canonical_tip, utxos, latest>>

(* observe_block of a heavier block: clones of DAG and UTXO set are changed
   and replace the committed ones only if every transition applies. *)
observe_heavier_block(b) ==
    /\ b \notin nodes
    /\ validate_candidate_context(b)
    /\ should_reorganize(b)
    /\ LET next == reorganize_to(b)
       IN  /\ next.error = "none"
           /\ utxos' = [next EXCEPT !.undo = <<>>, !.input_sats = 0]
    /\ nodes' = nodes \union {b}
    /\ canonical_tip' = b
    /\ latest' = [c \in Blocks |->
                     IF c \in Range(connects(b)) THEN "Connected"
                     ELSE IF c \in Range(disconnects(b)) THEN "Disconnected"
                     ELSE latest[c]]

observe_block(b) == observe_side_block(b) \/ observe_heavier_block(b)

StateNext == \E b \in Blocks : observe_block(b)

StateSpec == StateInit /\ [][StateNext]_stateVars

-----------------------------------------------------------------------------
(* Properties *)

(* The transactions of the chain that ends in b. *)
ChainTransactions(b) == FlattenSeq([i \in DOMAIN path[b] |-> transactions[path[b][i]]])

(* After any history of side branches, reorgs and refused blocks the state is
   the one the canonical chain alone defines: no accepted block has more work
   than its tip; the UTXO set is what its transactions create and none of them
   spends; the undo data is that of its blocks, so that each can be
   disconnected; and the highest revisions call exactly its blocks connected. *)
StateOfChain ==
    LET txs == Range(ChainTransactions(canonical_tip))
        created == UNION {Range(OutputsOf(tx)) : tx \in txs}
        spent == UNION {Range(tx.inputs) : tx \in {t \in txs : ~ t.coinbase}}
    IN  /\ \A b \in nodes : cumulative_work[b] <= cumulative_work[canonical_tip]
        /\ {<<o, utxos.entries[o]>> : o \in DOMAIN utxos.entries}
              = {out \in created : out[1] \notin spent}
        /\ [i \in DOMAIN utxos.applied_blocks |-> utxos.applied_blocks[i].hash] = path[canonical_tip]
        /\ {b \in Blocks : latest[b] = "Connected"} = Members(canonical_tip)

(* What the epochs of a block's own branch require of it: the blocks of an
   interval share one target, the last interval's adjusted by the time between
   the first and the last block of that interval. *)
EpochTarget(b) ==
    LET epoch == height(b) \div difficulty_interval
        first == path[b][(epoch - 1) * difficulty_interval + 1]
        last == path[b][epoch * difficulty_interval]
    IN  IF epoch = 0 THEN compact_target[Genesis]
        ELSE difficulty_adjustment(compact_target[last], timestamp[last] - timestamp[first])

(* Whichever branches are known and whichever is canonical, a block is accepted
   for its target exactly when the epochs of its own branch require it: the
   target inherited from the parent and the boundary found by walking back give
   each branch its own difficulty, with no other branch's times in it. *)
TargetsFollowEpochs ==
    \A b \in Blocks :
        /\ b \in nodes => compact_target[b] = EpochTarget(b)
        /\ prev[b] \in nodes => (validate_candidate_context(b) <=> b \in Solved /\ compact_target[b] = EpochTarget(b))

(* apply_block is all or nothing: whichever next block it refuses, at
   whichever transaction, the UTXO set is as before.  (Not so when the input
   amounts overflow a u64: the entry has been taken and has no undo yet, and
   undoing the creation of an entry taken in the same block fails in turn.) *)
RefusedBlockUndone ==
    \A b \in Blocks :
        apply_block(utxos, b).error # "none" /\ apply_transactions(utxos, b).error # "InputOverflow"
            => apply_block(utxos, b).entries = utxos.entries
=============================================================================
