--------------------------- MODULE ArchivePipeline ---------------------------
(***************************************************************************)
(* The delivery of committed observations of one source session to the     *)
(* broker and to the raw archive                                           *)
(* (services/archive-writer/src/lib.rs), over the Redpanda producer, the   *)
(* S3 archive with its PostgreSQL manifest ledger and the PostgreSQL       *)
(* checkpoint store (crates/storage-adapters/src), up to the decision that *)
(* a sealed WAL segment may be reclaimed                                   *)
(* (crates/storage-ports/src/checkpoint.rs).                               *)
(*                                                                         *)
(* A coordinator runs publish_and_archive on one batch at a time.  Every   *)
(* await is a step of its own, so several coordinators (a restarted        *)
(* process and the one it replaced, or two tasks) interleave between any   *)
(* two of them.  An error returned at any await and a crash are the same   *)
(* action, Fails: what was durable stays, the call is forgotten.  A        *)
(* request that took effect and whose answer was lost is the effect        *)
(* followed by Fails.                                                      *)
(*                                                                         *)
(* A batch is the interval of collector sequences of its records.  The     *)
(* object encoded from a batch is determined by the batch, so a batch also *)
(* stands for its object key and SHA-256.  A manifest names its batch and  *)
(* its predecessor; the predecessor's hash is the predecessor's position   *)
(* in the session's chain, 0 for none.                                     *)
(***************************************************************************)
EXTENDS Integers, Sequences, FiniteSets

CONSTANTS
    Workers,        \* coordinators at work on the session
    LastSequence,   \* last committed collector sequence of the sealed segment
    Partition,      \* archive partition (UTC hour) of each record
    Batches,        \* the ranges a caller may hand over
    AwaitOk,        \* whether callers wait for an Ok before the next batch
    MaxFaults,      \* bound on errors and crashes
    NoWorker

CollectorSequences == 0 .. LastSequence

ASSUME PipelineAssumption ==
    /\ LastSequence \in Nat
    /\ Batches \subseteq {b \in [first : CollectorSequences, last : CollectorSequences] : b.first <= b.last}
    /\ DOMAIN Partition = CollectorSequences
    /\ AwaitOk \in BOOLEAN
    /\ MaxFaults \in Nat
    /\ NoWorker \notin Workers

VARIABLES
    published,      \* sequences the broker has acknowledged durably
    checkpoints,    \* source_checkpoints: last sequence per kind, -1 for no row
    objects,        \* batches whose raw object is in the bucket
    markers,        \* manifests whose JSON is in the bucket
    manifests,      \* archive_manifests in chain order; the last is the head
    session_lock,   \* holder of the advisory transaction lock of the session
    call,           \* each coordinator's publish_and_archive call: the await
                    \* it is at, its batch, the next record to send, and the
                    \* previous_manifest_hash it has read
    finished,       \* batches some call has returned Ok for
    faults

ledger == <<objects, markers, manifests, session_lock>>
vars == <<published, checkpoints, objects, markers, manifests, session_lock,
          call, finished, faults>>

Kinds == {"broker", "archive"}

Idle == [at |-> "idle"]

Records(b) == b.first .. b.last

(***************************************************************************)
(* ArchiveBatch::try_new accepts a batch of one partition only.  The       *)
(* sequences of a batch are contiguous by construction here.               *)
(***************************************************************************)
try_new(b) == \A s \in Records(b) : Partition[s] = Partition[b.first]

Init ==
    /\ published = {}
    /\ checkpoints = [k \in Kinds |-> -1]
    /\ objects = {}
    /\ markers = {}
    /\ manifests = <<>>
    /\ session_lock = NoWorker
    /\ call = [w \in Workers |-> Idle]
    /\ finished = {}
    /\ faults = 0

Goto(w, place) == call' = [call EXCEPT ![w].at = place]

Return(w) == call' = [call EXCEPT ![w] = Idle]

(* The records that some finished call has covered. *)
Delivered == UNION {Records(b) : b \in finished}

-----------------------------------------------------------------------------
(* publish_and_archive *)

(* A caller hands a batch over; try_new and encode come first and touch
   nothing.  Callers keep the order of the records: every earlier one has
   been through a call that returned Ok (AwaitOk) or at least through the
   broker, its call failed or still running.  A batch that was handed over
   before may be handed over again: delivery is at least once. *)
Submit(w, b) ==
    /\ call[w].at = "idle"
    /\ 0 .. b.first - 1 \subseteq (IF AwaitOk THEN Delivered ELSE published)
    /\ try_new(b)
    /\ call' = [call EXCEPT ![w] = [at |-> "publish", batch |-> b,
                                    next |-> b.first, previous |-> 0]]
    /\ UNCHANGED <<published, checkpoints, ledger, finished, faults>>

(* RedpandaBroker::publish sends the records one by one, each awaited; the
   acknowledgement carries the session and last sequence of the batch, so
   the comparison that follows it succeeds. *)
publish(w) ==
    /\ call[w].at = "publish"
    /\ published' = published \union {call[w].next}
    /\ IF call[w].next = call[w].batch.last
       THEN Goto(w, "broker_checkpoint")
       ELSE call' = [call EXCEPT ![w].next = @ + 1]
    /\ UNCHANGED <<checkpoints, ledger, finished, faults>>

(* DurableCheckpoint::advance: the same sequence again is accepted, a
   smaller one is a regression. *)
advance(kind, candidate) == candidate >= checkpoints[kind]

broker_checkpoint(w) ==
    /\ call[w].at = "broker_checkpoint"
    /\ advance("broker", call[w].batch.last)
    /\ checkpoints' = [checkpoints EXCEPT !["broker"] = call[w].batch.last]
    /\ Goto(w, "committed_range")
    /\ UNCHANGED <<published, ledger, finished, faults>>

committed_range_overlapping(b) ==
    \E i \in DOMAIN manifests : Records(manifests[i].batch) \intersect Records(b) # {}

(* committed_range finds a manifest of exactly this range and object. *)
committed_range(b) == \E i \in DOMAIN manifests : manifests[i].batch = b

already_committed_not_asked(w) ==
    /\ call[w].at = "committed_range"
    /\ Goto(w, "latest_manifest_hash")
    /\ UNCHANGED <<published, checkpoints, ledger, finished, faults>>

already_committed(w) ==
    /\ call[w].at = "committed_range"
    /\ Goto(w, IF committed_range(call[w].batch) THEN "archive_checkpoint"
                                            ELSE "latest_manifest_hash")
    /\ UNCHANGED <<published, checkpoints, ledger, finished, faults>>

latest_manifest_hash(w) ==
    /\ call[w].at = "latest_manifest_hash"
    /\ call' = [call EXCEPT ![w].at = "stage", ![w].previous = Len(manifests)]
    /\ UNCHANGED <<published, checkpoints, ledger, finished, faults>>

(* put_create_or_verify: create the object, or accept the equal one. *)
stage(w) ==
    /\ call[w].at = "stage"
    /\ objects' = objects \union {call[w].batch}
    /\ Goto(w, "verify")
    /\ UNCHANGED <<published, checkpoints, markers, manifests, session_lock,
                   finished, faults>>

verify(w) ==
    /\ call[w].at = "verify"
    /\ call[w].batch \in objects
    /\ Goto(w, "commit_manifest")
    /\ UNCHANGED <<published, checkpoints, ledger, finished, faults>>

-----------------------------------------------------------------------------
(* S3RawArchive::commit_manifest *)

Manifest(w) == [batch |-> call[w].batch, previous |-> call[w].previous]

commit_without_lock(w) ==
    /\ call[w].at = "commit_manifest"
    /\ call[w].batch \in objects
    /\ Goto(w, "locked")
    /\ UNCHANGED <<published, checkpoints, ledger, finished, faults>>

(* The object is read back and validated, a transaction begins and takes the
   session's advisory lock, which it holds to its end. *)
lock_manifest_session(w) ==
    /\ call[w].at = "commit_manifest"
    /\ call[w].batch \in objects
    /\ session_lock = NoWorker
    /\ session_lock' = w
    /\ Goto(w, "locked")
    /\ UNCHANGED <<published, checkpoints, objects, markers, manifests, finished, faults>>

(* existing_manifest_ack: the same manifest again is acknowledged. *)
existing_manifest_ack(w) ==
    /\ call[w].at = "locked"
    /\ \E i \in DOMAIN manifests : manifests[i] = Manifest(w)
    /\ session_lock' = NoWorker
    /\ Goto(w, "archive_checkpoint")
    /\ UNCHANGED <<published, checkpoints, objects, markers, manifests, finished, faults>>

(* validate_database_manifest_chain: the head is the manifest's predecessor
   and ends before the manifest begins. *)
manifest_chain_valid(m) ==
    /\ m.previous = Len(manifests)
    /\ manifests # <<>> => m.batch.first > manifests[Len(manifests)].batch.last

(* The chain check passed: the manifest's JSON is put in the bucket, still
   under the lock and before the ledger names it. *)
put_manifest(w) ==
    /\ call[w].at = "locked"
    /\ \A i \in DOMAIN manifests : manifests[i] # Manifest(w)
    /\ manifest_chain_valid(Manifest(w))
    /\ markers' = markers \union {Manifest(w)}
    /\ Goto(w, "insert")
    /\ UNCHANGED <<published, checkpoints, objects, manifests, session_lock,
                   finished, faults>>

(* ManifestChainMismatch or OverlappingRange: the transaction is dropped. *)
manifest_refused(w) ==
    /\ call[w].at = "locked"
    /\ \A i \in DOMAIN manifests : manifests[i] # Manifest(w)
    /\ ~ manifest_chain_valid(Manifest(w))
    /\ session_lock' = NoWorker
    /\ Return(w)
    /\ UNCHANGED <<published, checkpoints, objects, markers, manifests, finished, faults>>

insert_manifest_and_head(w) ==
    /\ call[w].at = "insert"
    /\ manifests' = Append(manifests, Manifest(w))
    /\ session_lock' = NoWorker
    /\ Goto(w, "archive_checkpoint")
    /\ UNCHANGED <<published, checkpoints, objects, markers, finished, faults>>

(* The archive checkpoint advances and the call returns Ok. *)
archive_checkpoint(w) ==
    /\ call[w].at = "archive_checkpoint"
    /\ advance("archive", call[w].batch.last)
    /\ checkpoints' = [checkpoints EXCEPT !["archive"] = call[w].batch.last]
    /\ finished' = finished \union {call[w].batch}
    /\ Return(w)
    /\ UNCHANGED <<published, ledger, faults>>

(* CheckpointError::Regression ends the call, for either checkpoint. *)
checkpoint_refused(w) ==
    /\ \/ call[w].at = "broker_checkpoint" /\ ~ advance("broker", call[w].batch.last)
       \/ call[w].at = "archive_checkpoint" /\ ~ advance("archive", call[w].batch.last)
    /\ Return(w)
    /\ UNCHANGED <<published, checkpoints, ledger, finished, faults>>

(* Any await returns an error, or the process dies: the call is over and
   PostgreSQL releases the lock with the transaction. *)
Fails(w) ==
    /\ call[w].at # "idle"
    /\ faults < MaxFaults
    /\ faults' = faults + 1
    /\ session_lock' = IF session_lock = w THEN NoWorker ELSE session_lock
    /\ Return(w)
    /\ UNCHANGED <<published, checkpoints, objects, markers, manifests, finished>>

-----------------------------------------------------------------------------
Call(w) ==
    \/ publish(w)
    \/ broker_checkpoint(w)
    \/ already_committed(w)
    \/ latest_manifest_hash(w)
    \/ stage(w)
    \/ verify(w)
    \/ lock_manifest_session(w)
    \/ existing_manifest_ack(w)
    \/ put_manifest(w)
    \/ manifest_refused(w)
    \/ insert_manifest_and_head(w)
    \/ archive_checkpoint(w)
    \/ checkpoint_refused(w)

Next == \E w \in Workers :
    \/ \E b \in Batches : Submit(w, b)
    \/ Call(w)
    \/ Fails(w)

Spec == Init /\ [][Next]_vars

ensure_reclaimable_by_either(last) == \E k \in Kinds : checkpoints[k] >= last

(* ensure_reclaimable with both validate_coverage calls, for the segment that
   ends at `last`; a missing checkpoint row is -1. *)
ensure_reclaimable(last) == \A k \in Kinds : checkpoints[k] >= last

(***************************************************************************)
(* Fairness, for the progress property.  An await is answered in the end   *)
(* (with an error at worst), which for the lock means that PostgreSQL      *)
(* grants it in the end although other coordinators keep asking.  A caller *)
(* does not give a batch up: it hands it over again until it gets an Ok,   *)
(* whatever else it hands over in between.                                 *)
(***************************************************************************)
Fairness ==
    /\ \A w \in Workers : WF_vars(Call(w)) /\ SF_vars(lock_manifest_session(w))
    /\ \A b \in Batches : SF_vars(b \notin finished /\ \E w \in Workers : Submit(w, b))

FairSpec == Spec /\ Fairness

-----------------------------------------------------------------------------
(* Properties *)

Archived == UNION {Records(manifests[i].batch) : i \in DOMAIN manifests}

(* "Inclusive sequence covered by both sinks": a call that returned Ok left
   every record of its batch published and in a committed manifest, and both
   checkpoints at or past the batch's end, for good; and a manifest in the
   ledger has its raw object and its JSON in the bucket, the puts before the
   row, whichever transaction failed. *)
OkIsDurable ==
    /\ \A b \in finished :
          /\ Records(b) \subseteq published \intersect Archived
          /\ \A k \in Kinds : checkpoints[k] >= b.last
    /\ \A i \in DOMAIN manifests : manifests[i].batch \in objects /\ manifests[i] \in markers

(* A segment that ensure_reclaimable releases has every one of its records,
   from the first of the session on, in the broker and in the archive. *)
ReclaimSafe ==
    \A last \in CollectorSequences :
        ensure_reclaimable(last) => 0 .. last \subseteq published \intersect Archived

(* With finitely many faults the whole segment becomes reclaimable. *)
EventuallyReclaimable == <>[] ensure_reclaimable(LastSequence)
=============================================================================
