----------------------------- MODULE Reconciler -----------------------------
(***************************************************************************)
(* The coverage ledger and the lineage graph of                              *)
(* processors/reconciler/src/lib.rs: append-only revisions that say which     *)
(* ranges of a source are known to be incomplete or proved repaired, and the  *)
(* bounded walk from a fact back to the observations it was derived from.     *)
(* Calls that return an error change nothing and are no actions.              *)
(***************************************************************************)
EXTENDS Integers, Sequences, FiniteSets, SequencesExt

CONSTANTS
    CoverageKeys,       \* chain, network, dataset and source
    Positions,          \* of range bounds
    Causes, EvidenceIds,
    MaxRevision,        \* bound on revision numbers
    MaxAppended,        \* bound on the ledger
    LineageIds          \* integers: the order of parents matters to the walk

VARIABLES
    revisions,          \* the ledger, in the order of arrival
    current,            \* key -> index of its latest revision, 0 for none
    nodes               \* id -> [kind, parent_ids]

reconcilerVars == <<revisions, current, nodes>>

ReconcilerInit == revisions = <<>> /\ current = [k \in CoverageKeys |-> 0] /\ nodes = <<>>

-----------------------------------------------------------------------------
current_revision(key) == revisions[current[key]]

open(key) == current[key] # 0 /\ current_revision(key).state = "KnownIncomplete"

validate_next_revision(key, revision) ==
    revision # 0 /\ (current[key] # 0 => revision > current_revision(key).revision)

append(key, range_start, range_end, state, cause, evidence_ids, revision) ==
    /\ Len(revisions) < MaxAppended
    /\ revisions' = Append(revisions, [key |-> key, range_start |-> range_start, range_end |-> range_end,
                                       state |-> state, cause |-> cause, evidence_ids |-> evidence_ids,
                                       revision |-> revision])
    /\ current' = [current EXCEPT ![key] = Len(revisions) + 1]
    /\ UNCHANGED nodes

(* Mutant: a second gap replaces the one that is open. *)
open_gap_again(key, range_start, cause, revision) ==
    /\ validate_next_revision(key, revision)
    /\ append(key, range_start, -1, "KnownIncomplete", cause, {}, revision)

open_gap(key, range_start, cause, revision) ==
    /\ validate_next_revision(key, revision)
    /\ ~open(key)
    /\ append(key, range_start, -1, "KnownIncomplete", cause, {}, revision)

close_gap(key, range_end, evidence_ids, revision) ==
    /\ validate_next_revision(key, revision)
    /\ open(key)
    /\ range_end >= current_revision(key).range_start
    /\ evidence_ids # {}
    /\ append(key, current_revision(key).range_start, range_end, "Recovered",
              current_revision(key).cause, evidence_ids, revision)

-----------------------------------------------------------------------------
(* LineageNodeKind; to the graph, archive manifests and facts are alike. *)
LineageKinds == {"Observation", "Derived"}

(* LineageGraph::insert *)
insert(id, kind, parent_ids) ==
    /\ id \notin DOMAIN nodes
    /\ kind = "Observation" => parent_ids = {}
    /\ parent_ids \subseteq DOMAIN nodes
    /\ nodes' = [n \in DOMAIN nodes \union {id} |->
                    IF n = id THEN [kind |-> kind, parent_ids |-> parent_ids] ELSE nodes[n]]
    /\ UNCHANGED <<revisions, current>>

ReconcilerNext ==
    \/ \E key \in CoverageKeys, at \in Positions, revision \in 1 .. MaxRevision :
          \/ \E cause \in Causes : open_gap(key, at, cause, revision)
          \/ \E ids \in SUBSET EvidenceIds : close_gap(key, at, ids, revision)
    \/ \E id \in LineageIds, kind \in LineageKinds : \E parents \in SUBSET DOMAIN nodes : insert(id, kind, parents)

(* The parents of a node as trace_to_observations stacks them: the least is
   popped first. *)
stacked(id, depth) ==
    LET parents == SetToSortSeq(nodes[id].parent_ids, <)
    IN  [i \in DOMAIN parents |-> [id |-> parents[i], depth |-> depth]]

(* Mutant: the depth limit is exclusive. *)
too_deep_early(depth, max_depth) == depth >= max_depth

too_deep(depth, max_depth) == depth > max_depth

(* A branch that ends without an observation. *)
dead_end(id) == nodes[id].kind # "Observation" /\ nodes[id].parent_ids = {}

(* The loop of trace_to_observations; the head of the stack is its top. *)
RECURSIVE walk(_, _, _, _)
walk(stack, trace, max_depth, max_nodes) ==
    IF stack = <<>>
    THEN IF \E id \in Range(trace) : nodes[id].kind = "Observation" THEN <<"Ok", trace>>
         ELSE <<"LineageMissingObservation", <<>>>>
    ELSE LET top == Head(stack)
         IN  IF top.id \in Range(trace) THEN walk(Tail(stack), trace, max_depth, max_nodes)
             ELSE IF too_deep(top.depth, max_depth) THEN <<"LineageDepthExceeded", <<>>>>
             ELSE IF Len(trace) >= max_nodes THEN <<"LineageNodeLimitExceeded", <<>>>>
             ELSE IF dead_end(top.id) THEN <<"LineageMissingObservation", <<>>>>
             ELSE walk(stacked(top.id, top.depth + 1) \o Tail(stack), Append(trace, top.id), max_depth, max_nodes)

(* trace_to_observations from a root that exists. *)
trace_to_observations(root_id, max_depth, max_nodes) ==
    IF max_nodes = 0 THEN <<"LineageNodeLimitExceeded", <<>>>>
    ELSE walk(<<[id |-> root_id, depth |-> 0]>>, <<>>, max_depth, max_nodes)

-----------------------------------------------------------------------------
OfKey(key) == SelectSeq(revisions, LAMBDA r : r.key = key)

(* The revisions of a key strictly increase, with those of other keys in
   between, and current is the last of them; a gap is opened, stays open, and
   is closed once, by a revision that names evidence and keeps the start and
   the cause of exactly that gap. *)
RecoveryNamesItsGap ==
    \A key \in CoverageKeys :
        LET rs == OfKey(key)
        IN  /\ \A i, j \in DOMAIN rs : i < j => rs[i].revision < rs[j].revision
            /\ IF rs = <<>> THEN current[key] = 0 ELSE current_revision(key) = Last(rs)
            /\ \A i \in DOMAIN rs :
                /\ rs[i].state = "Recovered" <=> i % 2 = 0
                /\ rs[i].state = "Recovered" =>
                     /\ rs[i].evidence_ids # {}
                     /\ rs[i].range_start = rs[i - 1].range_start /\ rs[i].cause = rs[i - 1].cause
                     /\ rs[i].range_end >= rs[i].range_start

(* The ancestors of a set of nodes, themselves included, at most n steps up. *)
RECURSIVE Up(_, _)
Up(ids, n) == IF n = 0 THEN ids ELSE ids \union Up(UNION {nodes[id].parent_ids : id \in ids}, n - 1)

Ancestors(id) == Up({id}, Cardinality(LineageIds))

(* The length of a longest path up from a node. *)
RECURSIVE Height(_)
Height(id) == IF nodes[id].parent_ids = {} THEN 0
              ELSE 1 + CHOOSE h \in 0 .. Cardinality(LineageIds) :
                         /\ \E p \in nodes[id].parent_ids : Height(p) = h
                         /\ \A p \in nodes[id].parent_ids : Height(p) <= h

Bounds == 0 .. Cardinality(LineageIds)

(* A trace that succeeds holds every ancestor once, none farther than the depth
   limit, and every branch of it ends in an observation; a root that is within
   every limit whichever path the walk takes first, and has no branch without
   an observation, is not refused. *)
TraceIsExact ==
    \A root \in DOMAIN nodes, d \in Bounds, n \in Bounds :
        LET result == trace_to_observations(root, d, n)
            observed == \A id \in Ancestors(root) : nodes[id].parent_ids = {} => nodes[id].kind = "Observation"
        IN  /\ result[1] = "Ok" =>
                /\ Range(result[2]) = Ancestors(root) /\ Range(result[2]) = Up({root}, d)
                /\ IsInjective(result[2]) /\ Len(result[2]) <= n
                /\ observed
            /\ Height(root) <= d /\ Cardinality(Ancestors(root)) <= n /\ observed => result[1] = "Ok"
=============================================================================
