------------------------- MODULE SolanaCanonicality -------------------------
(***************************************************************************)
(* SolanaCanonicality of processors/solana-canonicality: the fork graph,   *)
(* the commitment of each fork and one reversible projection of selected   *)
(* accounts that follows the active tip.  A refused call changes nothing   *)
(* and is not a step.                                                      *)
(***************************************************************************)
EXTENDS Naturals, SequencesExt

CONSTANTS
    Forks,          \* ForkId: slot and blockhash
    NoFork,
    slot,           \* the slot of each fork
    Claims,         \* the <<fork, parent>> pairs that sources report
    Reports,        \* the <<fork, commitment>> pairs that sources report
    Pubkeys,
    Writes,         \* the account writes that sources report
    Executions,     \* the transaction keys that sources report
    NoWrite

ASSUME SolanaAssumption ==
    /\ NoFork \notin Forks /\ NoWrite \notin Writes
    /\ slot \in [Forks -> Nat]
    /\ Claims \subseteq Forks \X (Forks \union {NoFork})
    /\ Reports \subseteq Forks \X {"Received", "Processed", "Confirmed", "Finalized"}
    /\ Writes \subseteq [fork_id : Forks, pubkey : Pubkeys, write_version : Nat]

VARIABLES
    nodes,          \* fork -> [parent, commitment, transactions, writes, applied_undo]
    active_tip,
    accounts,       \* the write that each account's current value comes from
    told            \* the commitment in the latest revision of each fork

solanaVars == <<nodes, active_tip, accounts, told>>

rank(c) == CHOOSE i \in 1 .. 4 : <<"Received", "Processed", "Confirmed", "Finalized">>[i] = c

SolanaInit ==
    /\ nodes = <<>>
    /\ active_tip = NoFork
    /\ accounts = [k \in Pubkeys |-> NoWrite]
    /\ told = [f \in Forks |-> "Received"]

known(f) == f \in DOMAIN nodes

dead(f) == nodes[f].commitment = "Dead"

path_to_root[f \in DOMAIN nodes \union {NoFork}] ==
    IF f = NoFork THEN <<>> ELSE <<f>> \o path_to_root[nodes[f].parent]

is_ancestor(ancestor, f) == ancestor \in Range(path_to_root[f])

(* A fork is added below a live parent with a smaller slot, or as the root. *)
observe_slot(f, parent) ==
    /\ ~ known(f)
    /\ IF parent = NoFork THEN DOMAIN nodes = {}
       ELSE known(parent) /\ ~ dead(parent) /\ slot[f] > slot[parent]
    /\ nodes' = [g \in DOMAIN nodes \union {f} |->
                    IF g = f THEN [parent |-> parent, commitment |-> "Received", transactions |-> {},
                                   writes |-> <<>>, applied_undo |-> <<>>]
                    ELSE nodes[g]]
    /\ UNCHANGED <<active_tip, accounts, told>>

observe_commitment(f, c) ==
    /\ known(f)
    /\ ~ dead(f)
    /\ rank(c) > rank(nodes[f].commitment)
    /\ nodes' = [nodes EXCEPT ![f].commitment = c]
    /\ told' = [told EXCEPT ![f] = c]
    /\ UNCHANGED <<active_tip, accounts>>

-----------------------------------------------------------------------------
(* The projection: functions on s = [nodes, accounts]. *)

apply_write(s, w) ==
    [nodes |-> [s.nodes EXCEPT ![w.fork_id].applied_undo =
                   Append(@, [pubkey |-> w.pubkey, previous |-> s.accounts[w.pubkey]])],
     accounts |-> [s.accounts EXCEPT ![w.pubkey] = w]]

(* Mutant: the newest write first. *)
apply_node_reversed(s, f) ==
    FoldLeft(apply_write, [s EXCEPT !.nodes[f].applied_undo = <<>>], Reverse(s.nodes[f].writes))

apply_node(s, f) ==
    FoldLeft(apply_write, [s EXCEPT !.nodes[f].applied_undo = <<>>], s.nodes[f].writes)

(* The undo data, newest first. *)
revert_node(s, f) ==
    FoldRight(LAMBDA op, t : [t EXCEPT !.accounts[op.pubkey] = op.previous],
              s.nodes[f].applied_undo, [s EXCEPT !.nodes[f].applied_undo = <<>>])

(* From the active tip to target by their common ancestor. *)
activate_optional(target) ==
    LET current_path == path_to_root[active_tip]
        target_path == path_to_root[target]
        off(path, other) == SelectSeq(path, LAMBDA f : f \notin Range(other))
        reverted == FoldLeft(revert_node, [nodes |-> nodes, accounts |-> accounts],
                             off(current_path, target_path))
    IN  FoldLeft(apply_node, reverted, Reverse(off(target_path, current_path)))

activate(f) ==
    /\ known(f) /\ ~ dead(f)
    /\ LET s == activate_optional(f)
       IN  nodes' = s.nodes /\ accounts' = s.accounts
    /\ active_tip' = f
    /\ UNCHANGED told

(* The fork and all its descendants. *)
subtree(f) == {g \in DOMAIN nodes : is_ancestor(f, g)}

(* Mutant: the projection stays where it is. *)
mark_dead_in_place(f) ==
    /\ known(f) /\ ~ dead(f)
    /\ \A g \in subtree(f) : nodes[g].commitment # "Finalized"
    /\ nodes' = [g \in DOMAIN nodes |-> IF g \in subtree(f) THEN [nodes[g] EXCEPT !.commitment = "Dead"]
                                        ELSE nodes[g]]
    /\ told' = [told EXCEPT ![f] = "Dead"]
    /\ UNCHANGED <<active_tip, accounts>>

(* A fork dies with its descendants; a projection inside moves to its parent
   first.  Only the fork itself gets a revision. *)
mark_dead(f) ==
    /\ known(f) /\ ~ dead(f)
    /\ \A g \in subtree(f) : nodes[g].commitment # "Finalized"
    /\ LET inside == active_tip \in subtree(f)
           s == IF inside THEN activate_optional(nodes[f].parent)
                ELSE [nodes |-> nodes, accounts |-> accounts]
       IN  /\ nodes' = [g \in DOMAIN nodes |->
                           IF g \in subtree(f) THEN [s.nodes[g] EXCEPT !.commitment = "Dead"]
                           ELSE s.nodes[g]]
           /\ accounts' = s.accounts
           /\ active_tip' = IF inside THEN nodes[f].parent ELSE active_tip
    /\ told' = [told EXCEPT ![f] = "Dead"]

record_transaction(key) ==
    /\ known(key.fork_id) /\ ~ dead(key.fork_id)
    /\ key \notin nodes[key.fork_id].transactions
    /\ nodes' = [nodes EXCEPT ![key.fork_id].transactions = @ \union {key}]
    /\ UNCHANGED <<active_tip, accounts, told>>

newer(w) ==
    \A i \in DOMAIN nodes[w.fork_id].writes : w.write_version > nodes[w.fork_id].writes[i].write_version

(* A write is journaled; it reaches the projection now only at the tip. *)
record_account_write(w) ==
    /\ known(w.fork_id) /\ ~ dead(w.fork_id)
    /\ newer(w)
    /\ LET s0 == [nodes |-> nodes, accounts |-> accounts]
           s == IF active_tip = w.fork_id THEN apply_write(s0, w) ELSE s0
       IN  /\ nodes' = [s.nodes EXCEPT ![w.fork_id].writes = Append(@, w)]
           /\ accounts' = s.accounts
    /\ UNCHANGED <<active_tip, told>>

SolanaNext ==
    \/ \E claim \in Claims : observe_slot(claim[1], claim[2])
    \/ \E report \in Reports : observe_commitment(report[1], report[2])
    \/ \E f \in Forks : mark_dead(f)
    \/ \E f \in Forks : activate(f)
    \/ \E key \in Executions : record_transaction(key)
    \/ \E w \in Writes : record_account_write(w)

SolanaSpec == SolanaInit /\ [][SolanaNext]_solanaVars

-----------------------------------------------------------------------------
(* After any history of switches, deaths and late writes, undoing the active
   path tip first leaves no account; and where every journaled write of the
   path has been applied, the projection is the replay of its journals from
   the root on. *)
ProjectionIsReplay ==
    LET nothing == [k \in Pubkeys |-> NoWrite]
        path == Reverse(path_to_root[active_tip])
        journal == FlattenSeq([i \in DOMAIN path |-> nodes[path[i]].writes])
    IN  /\ FoldLeft(revert_node, [nodes |-> nodes, accounts |-> accounts],
                    path_to_root[active_tip]).accounts = nothing
        /\ (\A f \in Range(path) : Len(nodes[f].applied_undo) = Len(nodes[f].writes))
              => accounts = FoldLeft(LAMBDA a, w : [a EXCEPT ![w.pubkey] = w], nothing, journal)

(* The revisions tell which forks are dead: a fork is, when it or an ancestor
   was told dead, also one added or reported later, and otherwise it is what
   its latest revision says.  No account has a value written on a dead fork or
   off the active path. *)
DeadForksExcluded ==
    /\ \A f \in DOMAIN nodes :
          nodes[f].commitment =
              IF \E g \in Range(path_to_root[f]) : told[g] = "Dead" THEN "Dead" ELSE told[f]
    /\ \A k \in Pubkeys :
          accounts[k] # NoWrite =>
              ~ dead(accounts[k].fork_id) /\ is_ancestor(accounts[k].fork_id, active_tip)
=============================================================================
