---------------------------- MODULE MemoryArchive ----------------------------
(* MemoryRawArchive of crates/storage-adapters/src/s3.rs, the archive that the
   tests of the pipeline run on: any task may call any operation at any time,
   under one lock.  One source session; an object's range stands for its key. *)
EXTENDS Integers, Sequences

CONSTANT Ranges         \* of collector sequences

VARIABLES
    staged,             \* the bytes under each key: "absent", "exact" or "corrupt"
    verified,
    committed           \* manifests, in the order of their commits; the last is
                        \* latest_by_session

memoryVars == <<staged, verified, committed>>

MemoryInit == staged = [b \in Ranges |-> "absent"] /\ verified = {} /\ committed = <<>>

(* New bytes under a key have to be verified anew. *)
Put(b, bytes) ==
    /\ staged' = [staged EXCEPT ![b] = bytes]
    /\ verified' = verified \ {b}
    /\ UNCHANGED committed

stage_encoded(b) == Put(b, "exact")

(* Corruption between PUT and verify. *)
replace_staged_bytes(b) == Put(b, "corrupt")

(* MissingObject, LengthMismatch and ChecksumMismatch change nothing. *)
verify_staged(b) ==
    /\ staged[b] = "exact"
    /\ verified' = verified \union {b}
    /\ UNCHANGED <<staged, committed>>

ranges_overlap(a, b) == a.first <= b.last /\ b.first <= a.last

(* Mutant: only the latest range is compared. *)
OverlapsLatest(b) == committed # <<>> /\ ranges_overlap(committed[Len(committed)].batch, b)

(* OverlappingRange: every committed range is compared, since the archive in
   memory lets a later manifest cover an earlier range. *)
OverlappingRange(b) == \E i \in DOMAIN committed : ranges_overlap(committed[i].batch, b)

(* The caller built the manifest on a latest_manifest_hash it read before.
   NotVerified, a mismatch of the bytes, OverlappingRange and
   ManifestChainMismatch refuse it; a committed one is acknowledged again. *)
commit_memory_manifest(b, previous) ==
    /\ b \in verified /\ staged[b] = "exact"
    /\ ~OverlappingRange(b)
    /\ previous = Len(committed)
    /\ committed' = Append(committed, [batch |-> b, previous |-> previous])
    /\ UNCHANGED <<staged, verified>>

MemoryNext ==
    \E b \in Ranges :
        \/ stage_encoded(b)
        \/ replace_staged_bytes(b)
        \/ verify_staged(b)
        \/ \E previous \in 0 .. Len(committed) : commit_memory_manifest(b, previous)
=============================================================================
