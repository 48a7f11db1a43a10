--------------------------- MODULE ObserverMempool ---------------------------
(***************************************************************************)
(* The mempools that several Bitcoin observers report, kept apart           *)
(* (processors/bitcoin-mempool: state.rs, membership.rs), and the view       *)
(* aggregated from them (aggregate.rs).                                      *)
(*                                                                          *)
(* A transaction is in an observer's mempool during epochs; every epoch has  *)
(* an ID, a Present revision and perhaps an Absent one.  A snapshot from     *)
(* RPC corrects the members without claiming to know when they came or left. *)
(***************************************************************************)
EXTENDS Integers, Sequences, SequencesExt, FiniteSetsExt

CONSTANTS
    Observers, Txids,
    Times,              \* when a source says a transaction arrived
    RemovalCauses,      \* why it says a transaction left
    Healths,            \* <<health, clock offset>> pairs
    MaxSnapshot,        \* snapshot sequences are 1 .. MaxSnapshot
    MaxRevisions,       \* bound on the revisions of all observers together
    MaximumClockOffset, \* maximum_clock_offset_ns
    Unknown             \* no time, no snapshot: None

ASSUME MempoolAssumption == Unknown \notin Times /\ \A time \in Times : time \in Int

VARIABLE mempool        \* observer -> ObserverMempool

Empty == [snapshot_sequence |-> 0, members |-> <<>>,
          epoch_counts |-> [t \in Txids |-> 0], revisions |-> <<>>,
          health |-> "Offline", clock_offset |-> 0]

MempoolInit == mempool = [o \in Observers |-> Empty]

contains(m, txid) == txid \in DOMAIN m.members

(* epoch_id: a digest of the source, the transaction and the epoch's number; the
   source is the observer that holds it. *)
epoch_id(txid, number) == <<txid, number>>

Revision(txid, epoch, n, state, cause, source_time) ==
    [txid |-> txid, epoch_id |-> epoch, epoch_revision |-> n, state |-> state,
     cause |-> cause, source_observed_at |-> source_time]

(* ObserverMempool::add: the mempool after it. *)
add(m, txid, cause, source_time) ==
    IF contains(m, txid) THEN m
    ELSE LET epoch == epoch_id(txid, m.epoch_counts[txid] + 1)
         IN  [m EXCEPT !.epoch_counts[txid] = @ + 1,
                       !.members = [t \in DOMAIN @ \union {txid} |->
                                       IF t = txid THEN [epoch_id |-> epoch, first_seen |-> source_time] ELSE @[t]],
                       !.revisions = Append(@, Revision(txid, epoch, 1, "Present", cause, source_time))]

(* ObserverMempool::remove; when a transaction left is not kept apart. *)
remove(m, txid, cause) ==
    IF ~contains(m, txid) THEN m
    ELSE [m EXCEPT !.members = [t \in DOMAIN @ \ {txid} |-> @[t]],
                   !.revisions = Append(@, Revision(txid, m.members[txid].epoch_id, 2, "Absent", cause, Unknown))]

Becomes(o, m) == mempool' = [mempool EXCEPT ![o] = m]

observe_add(o, txid, time) == Becomes(o, add(mempool[o], txid, "Observed", time))

reaccept_after_disconnect(o, txid, time) == Becomes(o, add(mempool[o], txid, "Disconnected", time))

observe_remove(o, txid, cause) == Becomes(o, remove(mempool[o], txid, cause))

(* Mutant: members that the snapshot does not name are dropped without a revision. *)
converge_silently(m, snapshot) ==
    FoldLeft(LAMBDA n, t : add(n, t, "ReconciledSnapshot", Unknown),
             [m EXCEPT !.members = [t \in DOMAIN @ \intersect snapshot |-> @[t]]],
             SetToSeq(snapshot \ DOMAIN m.members))

(* Removals in txid order, then additions in txid order. *)
converge(m, snapshot) ==
    FoldLeft(LAMBDA n, t : add(n, t, "ReconciledSnapshot", Unknown),
             FoldLeft(LAMBDA n, t : remove(n, t, "ReconciledSnapshot"),
                      m, SetToSeq(DOMAIN m.members \ snapshot)),
             SetToSeq(snapshot \ DOMAIN m.members))

(* An older sequence is refused.  So is the same sequence with other members, and
   the same snapshot again changes nothing; that is all last_snapshot_members is
   for, so it is left out. *)
apply_snapshot(o, sequence, snapshot) ==
    /\ sequence > mempool[o].snapshot_sequence
    /\ Becomes(o, [converge(mempool[o], snapshot) EXCEPT !.snapshot_sequence = sequence])

set_health(o, health, offset) ==
    Becomes(o, [mempool[o] EXCEPT !.health = health, !.clock_offset = offset])

Recorded == FoldSet(LAMBDA o, n : n + Len(mempool[o].revisions), 0, Observers)

MempoolNext ==
    \E o \in Observers :
        \/ /\ Recorded < MaxRevisions
           /\ \/ \E txid \in Txids, time \in Times :
                    \/ observe_add(o, txid, time)
                    \/ reaccept_after_disconnect(o, txid, time)
              \/ \E txid \in Txids, cause \in RemovalCauses : observe_remove(o, txid, cause)
              \/ \E sequence \in 1 .. MaxSnapshot, snapshot \in SUBSET Txids : apply_snapshot(o, sequence, snapshot)
        \/ \E h \in Healths : set_health(o, h[1], h[2])

-----------------------------------------------------------------------------
(* aggregate_membership *)

HealthySources(observers) == {o \in observers : mempool[o].health = "Healthy"}

present_sources(txid, observers) == {o \in HealthySources(observers) : contains(mempool[o], txid)}

(* Every observer with a directly observed arrival is asked for its time, whatever its health. *)
arrivals(txid) == {o \in Observers : contains(mempool[o], txid) /\ mempool[o].members[txid].first_seen # Unknown}

Abs(n) == IF n < 0 THEN -n ELSE n

trusted(o) == Abs(mempool[o].clock_offset) <= MaximumClockOffset

platform_first_seen(txid) ==
    LET seen == {mempool[o].members[txid].first_seen : o \in {a \in arrivals(txid) : trusted(a)}}
    IN  IF seen = {} THEN Unknown ELSE Min(seen)

Policies == {<<"Source", o>> : o \in Observers} \union {<<"Union">>, <<"Intersection">>}
                \union {<<"Quorum", k>> : k \in 0 .. Cardinality(Observers)}

(* Mutant: every observer counts as present, the healthy ones only as required. *)
policy_satisfied_by_any(txid, policy) ==
    /\ HealthySources(Observers) # {}
    /\ LET present == {o \in Observers : contains(mempool[o], txid)}
       IN  \/ policy[1] = "Source" /\ policy[2] \in present
           \/ policy[1] = "Union" /\ present # {}
           \/ policy[1] = "Intersection" /\ Cardinality(present) = Cardinality(HealthySources(Observers))
           \/ policy[1] = "Quorum" /\ policy[2] > 0 /\ Cardinality(present) >= policy[2]

policy_satisfied(txid, policy) ==
    /\ HealthySources(Observers) # {}
    /\ LET present == present_sources(txid, Observers)
       IN  \/ policy[1] = "Source" /\ policy[2] \in present
           \/ policy[1] = "Union" /\ present # {}
           \/ policy[1] = "Intersection" /\ present = HealthySources(Observers)
           \/ policy[1] = "Quorum" /\ policy[2] > 0 /\ Cardinality(present) >= policy[2]

-----------------------------------------------------------------------------
(* Replaying an observer's immutable revisions gives its current members with
   their epochs and first-seen times, and a transaction that comes back opens
   a new epoch: none is opened twice, closed twice or closed before it is
   open. *)
ReplayGivesMembers ==
    \A o \in Observers : LET r == mempool[o].revisions IN
        /\ FoldLeft(LAMBDA members, e :
                       IF e.state = "Absent" THEN [t \in DOMAIN members \ {e.txid} |-> members[t]]
                       ELSE [t \in DOMAIN members \union {e.txid} |->
                                IF t = e.txid THEN [epoch_id |-> e.epoch_id, first_seen |-> e.source_observed_at]
                                ELSE members[t]],
                    <<>>, r) = mempool[o].members
        /\ \A i, j \in DOMAIN r : r[i].epoch_id = r[j].epoch_id /\ r[i].state = r[j].state => i = j
        /\ \A i \in DOMAIN r : r[i].state = "Absent" =>
              \E j \in 1 .. i - 1 : r[j].epoch_id = r[i].epoch_id /\ r[j].state = "Present"

(* The platform's first-seen time is the earliest arrival that some observer
   with a trusted clock saw itself, in the epoch that is open now: never a
   time of an earlier epoch, of a snapshot or of a bad clock. *)
FirstSeenIsObserved ==
    \A t \in Txids :
        LET seen == {r.source_observed_at : r \in
                        UNION {{e \in Range(mempool[o].revisions) :
                                   /\ e.txid = t /\ e.state = "Present" /\ e.cause # "ReconciledSnapshot"
                                   /\ e.epoch_id[2] = mempool[o].epoch_counts[t]} :
                               o \in {p \in Observers : contains(mempool[p], t)
                                          /\ mempool[p].clock_offset \in -MaximumClockOffset .. MaximumClockOffset}}}
        IN  platform_first_seen(t) = IF seen = {} THEN Unknown ELSE Min(seen)

(* The two halves of the aggregate trust different observers.  The first-seen
   time is an arrival that an observer with a good clock saw itself, whether it
   is healthy or not; the verdict of a policy is that of the healthy observers,
   whatever their clocks: nothing that a gapped or offline one reports changes
   it. *)
AggregateIsSound ==
    /\ []FirstSeenIsObserved
    /\ [][(\A o \in Observers : mempool'[o].health = mempool[o].health
                                /\ (mempool[o].health = "Healthy" => mempool'[o] = mempool[o]))
            => \A t \in Txids, p \in Policies : policy_satisfied(t, p)' = policy_satisfied(t, p)]_mempool
=============================================================================
