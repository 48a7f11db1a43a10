--------------------------- MODULE ExecutionChain ---------------------------
(***************************************************************************)
(* The execution ancestry that the Ethereum and the BSC tracker of         *)
(* processors/evm-canonicality/src/lib.rs each keep: the blocks seen, the  *)
(* canonical chain by number, and the head.  The two trackers repeat the   *)
(* same code; it is modelled once.                                         *)
(*                                                                         *)
(* A block is its hash, which fixes number and parent.  `canonical`, a map *)
(* from number to hash, is the set of its hashes.  The revisions a call    *)
(* returns are kept as the status of the highest revision of each block,   *)
(* which is what the current-state views of the fact store select.         *)
(***************************************************************************)
EXTENDS Integers, Sequences, FiniteSets

CONSTANTS
    Blocks,         \* block hashes
    NoBlock,
    number, parent, \* what a hash commits to
    MaxSegment      \* longest segment of a notification

ASSUME ChainAssumption ==
    /\ NoBlock \notin Blocks
    /\ number \in [Blocks -> Nat]
    /\ parent \in [Blocks -> Blocks \union {NoBlock}]
    /\ \A b \in Blocks : parent[b] \in Blocks => number[b] = number[parent[b]] + 1
    /\ MaxSegment \in Nat

VARIABLES
    blocks,         \* every block ever applied
    canonical,      \* the canonical blocks
    head,
    status,         \* status of the highest revision of each block
    finalized       \* the finalized block; the trackers differ in what moves it

chainVars == <<blocks, canonical, head, status, finalized>>

ChainInit ==
    /\ blocks = {}
    /\ canonical = {}
    /\ head = NoBlock
    /\ status = [b \in Blocks |-> "none"]
    /\ finalized = NoBlock

Elements(segment) == {segment[i] : i \in DOMAIN segment}

validate_segment(segment) ==
    \A i \in 1 .. Len(segment) - 1 :
        /\ number[segment[i + 1]] = number[segment[i]] + 1
        /\ parent[segment[i + 1]] = segment[i]

(* The non-empty segments a notification may carry, ancestor first. *)
Segments ==
    {s \in UNION {[1 .. n -> Blocks] : n \in 1 .. MaxSegment} : validate_segment(s)}

(* canonical.insert of each block of a segment: a number holds one hash. *)
insert(chain, segment) ==
    {b \in chain : \A c \in Elements(segment) : number[b] # number[c]}
        \union Elements(segment)

(* Revisions are numbered as they are made, so the later one prevails. *)
revise(segment, to) ==
    [b \in Blocks |-> IF b \in Elements(segment) THEN to ELSE status[b]]

(* Mutant: the segment's first block need not name the head as its parent. *)
commit_by_number(segment) ==
    /\ ~ Elements(segment) \subseteq canonical
    /\ head # NoBlock => number[segment[1]] = number[head] + 1
    /\ blocks' = blocks \union Elements(segment)
    /\ canonical' = insert(canonical, segment)
    /\ head' = segment[Len(segment)]
    /\ status' = revise(segment, "canonical_head")
    /\ UNCHANGED finalized

(* commit_segment: an exact replay of canonical blocks returns early; the
   first block of anything else extends the head, if there is one. *)
commit(segment) ==
    /\ ~ Elements(segment) \subseteq canonical
    /\ head # NoBlock =>
          /\ number[segment[1]] = number[head] + 1
          /\ parent[segment[1]] = head
    /\ blocks' = blocks \union Elements(segment)
    /\ canonical' = insert(canonical, segment)
    /\ head' = segment[Len(segment)]
    /\ status' = revise(segment, "canonical_head")
    /\ UNCHANGED finalized

(* Mutant: the finalized block may be among the removed ones. *)
reorg_applies_unfinal(old, new) ==
    /\ number[old[1]] = number[new[1]]
    /\ parent[old[1]] = parent[new[1]]
    /\ old[Len(old)] = head
    /\ Elements(old) \subseteq canonical

(* The part of reorg that both trackers have: the old segment is the
   canonical suffix up to the head, the new one starts from the same parent,
   and the finalized block is not removed. *)
reorg_applies(old, new) ==
    /\ number[old[1]] = number[new[1]]
    /\ parent[old[1]] = parent[new[1]]
    /\ old[Len(old)] = head
    /\ Elements(old) \subseteq canonical
    /\ finalized \notin Elements(old)

(* Mutant: the removed blocks get no revision. *)
replace_silently(old, new) ==
    /\ blocks' = blocks \union Elements(new)
    /\ canonical' = insert(canonical \ Elements(old), new)
    /\ head' = new[Len(new)]
    /\ status' = revise(new, "canonical_head")
    /\ UNCHANGED finalized

replace(old, new) ==
    /\ blocks' = blocks \union Elements(new)
    /\ canonical' = insert(canonical \ Elements(old), new)
    /\ head' = new[Len(new)]
    /\ status' = [b \in Blocks |-> IF b \in Elements(new) THEN "canonical_head"
                                   ELSE IF b \in Elements(old) THEN "reorged"
                                   ELSE status[b]]
    /\ UNCHANGED finalized

(* Walks from the descendant through known parents down to the ancestor's
   number. *)
is_ancestor(ancestor, descendant) ==
    LET walk[b \in Blocks \union {NoBlock}] ==
            IF b \notin blocks THEN NoBlock
            ELSE IF number[b] > number[ancestor] THEN walk[parent[b]]
            ELSE b
    IN  ancestor \in blocks /\ walk[descendant] = ancestor

-----------------------------------------------------------------------------
(* The variables of the chain keep their types. *)
ChainTypeOK ==
    /\ blocks \subseteq Blocks
    /\ canonical \subseteq blocks
    /\ head \in blocks \union {NoBlock}
    /\ status \in [Blocks -> {"none", "canonical_head", "safe", "finalized",
                              "fast_finalized", "reorged"}]
    /\ finalized \in blocks \union {NoBlock}

(* Through any sequence of commits and reorgs the canonical blocks are one
   unbroken chain, linked by parent hash, and the head is its upper end. *)
CanonicalChain ==
    /\ head = NoBlock <=> canonical = {}
    /\ head # NoBlock => head \in canonical
    /\ \A b, c \in canonical : number[b] = number[c] => b = c
    /\ \A b \in canonical : number[b] <= number[head]
    /\ \A b \in canonical, c \in canonical :
          number[c] < number[b] => parent[b] \in canonical

(* A consumer that keeps the highest revision of each block, as the current
   views do, sees exactly the canonical blocks as not reorged. *)
RevisionsTellCanonical ==
    \A b \in Blocks :
        /\ b \in canonical <=> status[b] \notin {"none", "reorged"}
        /\ b \in blocks <=> status[b] # "none"
(* The finalized block, once there is one, is canonical: no sequence of
   commits, reorgs and checkpoints or reports takes it off the chain. *)
FinalizedCanonical == finalized # NoBlock => finalized \in canonical

Final == IF finalized = NoBlock THEN {}
         ELSE {b \in canonical : number[b] <= number[finalized]}

Ledger == INSTANCE FinalizedLedger WITH final <- Final

(* The blocks at and below the finalized one are an append-only ledger. *)
FinalityIsAppendOnly == Ledger!LedgerSpec
=============================================================================
