------------------------------ MODULE BlockTree ------------------------------
(* The Bitcoin blocks that exist, as their hashes: each one commits to its
   predecessor and its proof of work.  What a node or a processor knows of
   the tree is the state of the modules that extend this one. *)
EXTENDS Integers, Sequences, FiniteSets

CONSTANTS
    Blocks,     \* block hashes
    NoBlock,
    Genesis,    \* the genesis block of the network
    prev,       \* previous_block_hash
    compact_target, \* the target a block claims, as a number
    Hashes      \* the number of block hashes, 2^256

ASSUME TreeAssumption ==
    /\ NoBlock \notin Blocks
    /\ Genesis \in Blocks
    /\ prev \in [Blocks -> Blocks \union {NoBlock}]
    /\ prev[Genesis] = NoBlock
    /\ Hashes \in Nat
    /\ compact_target \in [Blocks -> 1 .. Hashes - 1]

(* The chain from the genesis block to b, as the walk along parents finds it. *)
path[b \in Blocks \union {NoBlock}] ==
    IF b = NoBlock THEN <<>> ELSE Append(path[prev[b]], b)

Members(b) == {path[b][i] : i \in DOMAIN path[b]}

height(b) == Len(path[b]) - 1

(* The hashes tried for one block, on average. *)
work(b) == Hashes \div (compact_target[b] + 1)

cumulative_work[b \in Blocks \union {NoBlock}] ==
    IF b = NoBlock THEN 0 ELSE cumulative_work[prev[b]] + work(b)
=============================================================================
