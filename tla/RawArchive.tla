----------------------------- MODULE RawArchive -----------------------------
(* What the RawArchive port promises of one source session
   (crates/storage-ports/src/object_store.rs): objects are staged without being
   replayable, and a committed manifest makes one visible for good.  A manifest
   names an object whose exact bytes are stored, extends the latest manifest,
   and covers no sequence that an earlier one covers. *)
EXTENDS Integers, Sequences

CONSTANT Manifests      \* [batch, previous]: the range of its object, and the
                        \* position of its predecessor, 0 for none

VARIABLES
    intact,             \* the objects stored with their exact bytes
    ledger              \* the committed manifests, in order

ranges_overlap(a, b) == a.first <= b.last /\ b.first <= a.last

RawArchiveInit == intact = {} /\ ledger = <<>>

(* Objects are staged, and bytes may be spoilt. *)
Stage == UNCHANGED ledger

commit_manifest(m) ==
    /\ m.batch \in intact
    /\ m.previous = Len(ledger)
    /\ \A i \in DOMAIN ledger : ~ranges_overlap(ledger[i].batch, m.batch)
    /\ ledger' = Append(ledger, m)
    /\ UNCHANGED intact

RawArchiveSpec ==
    RawArchiveInit /\ [][Stage \/ \E m \in Manifests : commit_manifest(m)]_<<intact, ledger>>
=============================================================================
