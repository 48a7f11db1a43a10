------------------------------ MODULE UtxoState ------------------------------
(***************************************************************************)
(* UtxoState of processors/bitcoin-canonicality/src/utxo.rs: the unspent   *)
(* outputs of the applied blocks with exact undo data per block.           *)
(*                                                                         *)
(* Its operations are functions on a value u with the fields entries (a    *)
(* map from outpoint to amount), applied_blocks, undo and input_sats (the  *)
(* locals of an application in progress) and error; a script is left out,  *)
(* since no operation looks at it.                                         *)
(***************************************************************************)
EXTENDS BlockTree, SequencesExt

CONSTANTS
    transactions,   \* block -> sequence of [txid, coinbase, inputs, outputs]
    MaxAmount       \* stands for u64::MAX

new == [entries |-> <<>>, applied_blocks |-> <<>>, undo |-> <<>>, input_sats |-> 0, error |-> "none"]

Without(map, o) == [x \in DOMAIN map \ {o} |-> map[x]]

With(map, o, v) == [x \in DOMAIN map \union {o} |-> IF x = o THEN v ELSE map[x]]

current_tip(u) ==
    IF u.applied_blocks = <<>> THEN NoBlock ELSE Last(u.applied_blocks).hash

Failed(u, e) == [u EXCEPT !.error = e]

(* One input: the entry is removed before the amount is added.  The code has one
   AmountOverflow; that of an input is told apart here from that of the outputs. *)
spend(u, outpoint) ==
    IF u.error # "none" THEN u
    ELSE IF outpoint \notin DOMAIN u.entries THEN Failed(u, "MissingPrevout")
    ELSE LET value == u.entries[outpoint]
             taken == [u EXCEPT !.entries = Without(@, outpoint)]
         IN  IF u.input_sats + value > MaxAmount THEN Failed(taken, "InputOverflow")
             ELSE [taken EXCEPT !.input_sats = @ + value,
                                !.undo = Append(@, [kind |-> "Spent", outpoint |-> outpoint, value |-> value])]

create(u, output) ==
    IF u.error # "none" THEN u
    ELSE IF output[1] \in DOMAIN u.entries THEN Failed(u, "DuplicateOutpoint")
    ELSE [u EXCEPT !.entries = With(@, output[1], output[2]),
                   !.undo = Append(@, [kind |-> "Created", outpoint |-> output[1], value |-> output[2]])]

(* The outpoints and amounts that a transaction creates. *)
OutputsOf(tx) == [i \in DOMAIN tx.outputs |-> <<<<tx.txid, i - 1>>, tx.outputs[i]>>]

output_sats(tx) == FoldLeft(LAMBDA total, v : total + v, 0, tx.outputs)

(* One transaction of apply_transactions; after an error nothing happens. *)
apply_transaction(u, tx) ==
    LET fresh == [u EXCEPT !.input_sats = 0]
        spent == IF tx.coinbase THEN fresh ELSE FoldLeft(spend, fresh, tx.inputs)
    IN  IF spent.error # "none" THEN spent
        ELSE IF output_sats(tx) > MaxAmount THEN Failed(spent, "AmountOverflow")
        ELSE IF ~ tx.coinbase /\ output_sats(tx) > spent.input_sats THEN Failed(spent, "NegativeFee")
        ELSE FoldLeft(create, spent, OutputsOf(tx))

apply_transactions(u, b) == FoldLeft(apply_transaction, [u EXCEPT !.undo = <<>>], transactions[b])

(* Mutant: a spent output is not put back. *)
undo_operation_unrestored(op, u) ==
    IF op.kind = "Created" THEN [u EXCEPT !.entries = Without(@, op.outpoint)] ELSE u

(* One undo operation; its effect should still be there. *)
undo_operation(op, u) ==
    LET undone == [u EXCEPT !.entries = IF op.kind = "Created" THEN Without(@, op.outpoint)
                                        ELSE With(@, op.outpoint, op.value)]
    IN  IF u.error = "InconsistentUtxo" THEN u
        ELSE IF (op.kind = "Created") # (op.outpoint \in DOMAIN u.entries) THEN Failed(undone, "InconsistentUtxo")
        ELSE undone

(* Mutant: a failed block is left half applied. *)
rollback_partial_omitted(u) == u

(* The undo operations so far, newest first. *)
rollback_partial(u) == FoldRight(undo_operation, u.undo, u)

(* apply_block: a repeated tip is accepted and ignored; a block that does not
   extend the tip is refused; a block that fails inside is rolled back. *)
apply_block(u, b) ==
    IF current_tip(u) = b THEN u
    ELSE IF current_tip(u) # NoBlock /\ prev[b] # current_tip(u) THEN Failed(u, "UnexpectedConnect")
    ELSE LET applied == apply_transactions(u, b)
         IN  IF applied.error # "none" THEN rollback_partial(applied)
             ELSE [applied EXCEPT !.applied_blocks = Append(@, [hash |-> b, undo |-> applied.undo])]

(* revert_block: only the tip, in exact reverse order. *)
revert_block(u, b) ==
    IF current_tip(u) # b THEN Failed(u, "OutOfOrderDisconnect")
    ELSE FoldRight(undo_operation, Last(u.applied_blocks).undo,
                   [u EXCEPT !.applied_blocks = Front(@)])
=============================================================================
