----------------------------- MODULE MempoolGraph -----------------------------
(***************************************************************************)
(* The conflicts and packages of one observer's mempool                      *)
(* (processors/bitcoin-mempool/src/graph.rs): which transactions spend the    *)
(* same output, now or earlier, and which are connected as parent and child.  *)
(***************************************************************************)
EXTENDS Integers, Sequences, SequencesExt, FiniteSetsExt

CONSTANTS
    GraphTxids,
    Inputs          \* txid -> the outpoints <<txid, index>> it spends

VARIABLES
    present,            \* the txids in the mempool
    spent_by_history,   \* outpoint -> every txid ever added that spends it
    conflicts           \* the conflict edges reported so far

graphVars == <<present, spent_by_history, conflicts>>

Outpoints == UNION {Inputs[t] : t \in GraphTxids}

GraphInit == present = {} /\ spent_by_history = [o \in Outpoints |-> {}] /\ conflicts = {}

Evidences == {<<"None">>} \union {<<kind, t>> : kind \in {"Direct", "Reconciled"}, t \in GraphTxids}

(* Mutant: only transactions still present conflict. *)
conflicts_of_present(txid) ==
    UNION {{[spent |-> o, txid |-> txid, conflicting |-> t] : t \in (spent_by_history[o] \intersect present) \ {txid}} :
           o \in Inputs[txid]}

conflicts_of(txid) ==
    UNION {{[spent |-> o, txid |-> txid, conflicting |-> t] : t \in spent_by_history[o] \ {txid}} :
           o \in Inputs[txid]}

(* MempoolGraph::add: evidence that names no conflicting spend is refused; how it
   classifies the replacement is left out. *)
graph_add(txid, evidence) ==
    /\ txid \notin present
    /\ evidence[1] # "None" => \E edge \in conflicts_of(txid) : edge.conflicting = evidence[2]
    /\ conflicts' = conflicts \union conflicts_of(txid)
    /\ spent_by_history' = [o \in Outpoints |->
          IF o \in Inputs[txid] THEN spent_by_history[o] \union {txid} ELSE spent_by_history[o]]
    /\ present' = present \union {txid}

graph_remove(txid) == present' = present \ {txid} /\ UNCHANGED <<spent_by_history, conflicts>>

GraphNext ==
    \E t \in GraphTxids :
        \/ \E e \in Evidences : graph_add(t, e)
        \/ t \in present /\ graph_remove(t)

-----------------------------------------------------------------------------
Parents(t) == {o[1] : o \in Inputs[t]} \intersect present

current_adjacency(t) == Parents(t) \union {c \in present : t \in Parents(c)}

(* MempoolGraph::package, without the sums over its members: a breadth-first search, one queue
   element a step; an element is queued once for every edge that leads to it. *)
package(txid) ==
    LET Step(search, i) ==
            IF search.queue = <<>> THEN search
            ELSE LET member == Head(search.queue)
                 IN  IF member \in search.members THEN [search EXCEPT !.queue = Tail(@)]
                     ELSE [members |-> search.members \union {member},
                           queue |-> Tail(search.queue) \o SetToSeq(current_adjacency(member))]
        edges == Cardinality({<<t, u>> \in present \X present : u \in current_adjacency(t)})
    IN  FoldLeft(Step, [members |-> {}, queue |-> <<txid>>], [i \in 1 .. edges + 1 |-> i]).members

-----------------------------------------------------------------------------
(* What the graph answers is exact.  Every two transactions that were ever in
   this mempool and spend the same output are reported as a conflict, however
   often either has left in between, and nothing else is; the packages are the
   connected parts of the parent-child graph of the present transactions:
   closed under parents and children, and no smaller set around a transaction
   is. *)
GraphIsExact ==
    /\ {<<c.spent, {c.txid, c.conflicting}>> : c \in conflicts}
          = UNION {{<<o, {t, u}>> : t, u \in spent_by_history[o]} \ {<<o, {t}>> : t \in GraphTxids} : o \in Outpoints}
    /\ \A t \in present : LET p == package(t) IN
          /\ t \in p
          /\ \A u \in present : u \in p <=> p = package(u)
          /\ \A u \in p, c \in present : c \in p \/ (u \notin Parents(c) /\ c \notin Parents(u))
          /\ \A s \in SUBSET p : t \in s /\ s # p =>
                \E u \in s, v \in p \ s : u \in Parents(v) \/ v \in Parents(u)
=============================================================================
