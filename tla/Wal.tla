-------------------------------- MODULE Wal --------------------------------
(***************************************************************************)
(* The commit-marked observation log of crates/wal: one preallocated       *)
(* segment file, its single writer FileWal, and recovery on open.          *)
(*                                                                         *)
(* The file is the sequence of frames a scan would meet.  Bytes are        *)
(* abstracted to frames, but a frame keeps its end offset (capacity is a   *)
(* matter of bytes) and an image: "good", "torn" (the header is there and  *)
(* the CRC fails) or "short" (the file ends inside the frame).  A hole (a  *)
(* zero type byte) stops the scan, and open cuts the file there, so it is  *)
(* the end of the sequence.  Hashes are injective: a commit stores what it *)
(* hashes, the observations it covers by position, and a seal stores the   *)
(* prefix it digests.                                                      *)
(*                                                                         *)
(* Calls come from any caller: an operation the code rejects before it     *)
(* writes changes nothing and is not a step.  group_commit and seal are    *)
(* several steps, and the process may stop or lose power between any two.  *)
(***************************************************************************)
EXTENDS Integers, Sequences, FiniteSets, FiniteSetsExt

CONSTANTS
  Payloads,      \* what one observation carries
  ObsBytes,      \* size of an observation frame
  CommitBytes,   \* size of a group-commit frame
  SealBytes,     \* size of a segment-seal frame
  ReserveBytes,  \* COMMIT_RESERVE_BYTES
  MaxBytes,      \* WalConfig.max_bytes
  MaxU64,        \* stands for u64::MAX, the last collector sequence
  MaxQuarantine, \* stands for the 10,001 quarantine names
  MaxIoErrors,   \* bound on writes and syncs that return an error
  MaxPowerLosses,
  TearableKinds  \* frame kinds a failed write or a power loss can leave half written

ASSUME SizesAssumption ==
  /\ {ObsBytes, CommitBytes, SealBytes, ReserveBytes} \subseteq Nat \ {0}
  /\ CommitBytes <= ReserveBytes
  /\ MaxBytes \in Nat /\ MaxBytes > ReserveBytes

ASSUME BoundsAssumption == {MaxU64, MaxQuarantine, MaxIoErrors, MaxPowerLosses} \subseteq Nat

VARIABLES
  file,          \* frames of the active segment up to logical_end
  tail,          \* at most one frame of rubbish a failed write left after it
  synced,        \* the first `synced` frames have reached the disk
  next_sequence, pending, sealed,   \* FileWal; pending holds file positions
  step,          \* where the writer is inside an operation
  quarantined,   \* segments moved aside, oldest first
  acked,         \* per segment: observations a group_commit returned Ok for
  io_errors, power_losses   \* how many so far

vars == <<file, tail, synced, next_sequence, pending, sealed, step,
          quarantined, acked, io_errors, power_losses>>

faults == <<io_errors, power_losses>>

writer == <<next_sequence, pending, sealed>>

-----------------------------------------------------------------------------
(* Frames *)

Steps == {"closed", "idle", "commit", "commit_sync", "seal_sync"}

SizeOf(kind) ==
  CASE kind = "obs" -> ObsBytes
    [] kind = "commit" -> CommitBytes
    [] kind = "seal" -> SealBytes
    [] OTHER -> 1

\* FileWal.logical_end: every frame knows its end offset.
EndOf(f) == IF f = <<>> THEN 0 ELSE f[Len(f)].end

remaining_capacity == MaxBytes - EndOf(file)

Frame(kind, body) ==
  [kind |-> kind, body |-> body, end |-> EndOf(file) + SizeOf(kind), image |-> "good"]

\* The content of the observations at a set of positions.
Contents(f, positions) == [j \in positions |-> f[j].body]

\* What a failed write_all may leave of its own frame.
TornHead(kind, body) ==
  IF kind \notin TearableKinds THEN {}
  ELSE {<<[Frame(kind, body) EXCEPT !.image = "torn"]>>}

\* A later write starts at the same offset.  When it is the shorter one the
\* middle of the old frame follows it, and a scan finds an unknown type byte,
\* a CRC mismatch, a length that runs past the file, or a zero.
Residue(kind) ==
  LET old == IF tail = <<>> THEN 0 ELSE tail[1].end - EndOf(file)
      rest == [Frame("unknown", <<>>) EXCEPT !.end = EndOf(file) + old]
  IN  {<<>>} \union
      IF old <= SizeOf(kind) THEN {}
      ELSE {<<[rest EXCEPT !.image = "torn"]>>, <<[rest EXCEPT !.image = "short"]>>,
            <<[rest EXCEPT !.kind = "obs", !.image = "torn"]>>}

-----------------------------------------------------------------------------
(* Recovery: what recover() computes from a file *)

\* scan stops at a frame that runs past the end of the file.
Scanned(f) ==
  {i \in DOMAIN f : \A j \in 1..i : f[j].image # "short"}

\* The observations a commit at position i has to account for.
Candidates(f, i) ==
  {j \in 1..(i - 1) : /\ f[j].kind = "obs"
                      /\ \A k \in j..(i - 1) : f[k].kind # "commit"}

process_commit_ok(f, i) ==
  LET cand == Candidates(f, i)
  IN  /\ f[i].image = "good"
      /\ cand # {}
      /\ \A j \in cand : f[j].image = "good"
      /\ f[i].body = Contents(f, cand)
      /\ \A j, k \in cand : k = j + 1 => f[k].body.seq = f[j].body.seq + 1
      /\ \A j \in cand : f[j].body.seq < MaxU64

process_seal_ok(f, i) ==
  /\ f[i].image = "good"
  /\ Candidates(f, i) = {}
  /\ f[i].body = SubSeq(f, 1, i - 1)

process_frame_ok(f, i) ==
  /\ \A j \in 1..(i - 1) : f[j].kind # "seal"
  /\ f[i].kind # "unknown"
  /\ f[i].kind = "commit" => process_commit_ok(f, i)
  /\ f[i].kind = "seal" => process_seal_ok(f, i)

\* recover() returns Ok.
recover_ok(f) == \A i \in Scanned(f) : process_frame_ok(f, i)

CommitPositions(f) == {i \in Scanned(f) : f[i].kind = "commit"}

\* A position is covered when some commit record follows it.
Committed(f) ==
  {j \in Scanned(f) : f[j].kind = "obs" /\ \E i \in CommitPositions(f) : j < i}

last_commit_end(f) == Max({0} \union CommitPositions(f))

\* Mutant: cuts the last commit record together with the tail.
finish_report_cuts_commit(f) ==
  LET uncommitted == {j \in Scanned(f) : f[j].kind = "obs" /\ j > last_commit_end(f)}
  IN  IF Scanned(f) # DOMAIN f \/ uncommitted # {}
      THEN Max({0, last_commit_end(f) - 1}) ELSE Len(f)

\* finish_report: a truncated, uncommitted or invalid tail is cut back to the
\* last commit record; otherwise everything scanned stays.
finish_report(f) ==
  LET uncommitted == {j \in Scanned(f) : f[j].kind = "obs" /\ j > last_commit_end(f)}
  IN  IF Scanned(f) # DOMAIN f \/ uncommitted # {}
      THEN last_commit_end(f) ELSE Len(f)

\* Mutant: resumes after the last observation, committed or not.
recovered_next_uncommitted(f) ==
  Cardinality({j \in Scanned(f) : f[j].kind = "obs"})

\* Sequence after the last committed observation; 0 when there is none.
recovered_next(f) ==
  IF Committed(f) = {} THEN 0
  ELSE f[last_commit_end(f) - 1].body.seq + 1

-----------------------------------------------------------------------------
(* FileWal *)

Init ==
  /\ file = <<>> /\ tail = <<>> /\ synced = 0
  /\ next_sequence = 0 /\ pending = {} /\ sealed = FALSE
  /\ step = "closed"
  /\ quarantined = <<>> /\ acked = <<{}>>
  /\ io_errors = 0 /\ power_losses = 0

IoError ==
  /\ io_errors < MaxIoErrors
  /\ io_errors' = io_errors + 1
  /\ UNCHANGED power_losses

\* open, when recovery succeeds: cut the tail, extend with zeros, sync.
Open ==
  /\ step = "closed"
  /\ recover_ok(file)
  /\ file' = SubSeq(file, 1, finish_report(file))
  /\ synced' = finish_report(file)
  /\ next_sequence' = recovered_next(file)
  /\ sealed' = (\E i \in Scanned(file) : file[i].kind = "seal")
  /\ pending' = {}
  /\ step' = "idle"
  /\ UNCHANGED <<tail, quarantined, acked, faults>>

\* open, when recovery reports corruption: rename the segment aside and fail.
\* The next open finds no file and creates an empty one.
OpenQuarantines ==
  /\ step = "closed"
  /\ ~recover_ok(file)
  /\ Len(quarantined) < MaxQuarantine
  /\ quarantined' = Append(quarantined, file)
  /\ acked' = Append(acked, {})
  /\ file' = <<>> /\ synced' = 0
  /\ UNCHANGED <<tail, writer, step, faults>>

\* write_frame succeeds: the frame is in the page cache.
WriteFrame(kind, body) ==
  /\ SizeOf(kind) <= remaining_capacity
  /\ file' = Append(file, Frame(kind, body))
  /\ tail' \in Residue(kind)

\* write_frame fails inside write_all: logical_end does not move, and what was
\* behind it stays or is replaced.
WriteFrameFails(kind, body) ==
  /\ SizeOf(kind) <= remaining_capacity
  /\ tail' = tail \/ tail' \in TornHead(kind, body)
  /\ file' = file

AppendAccepts ==
  /\ step = "idle"
  /\ ~sealed
  /\ ObsBytes + ReserveBytes <= remaining_capacity

\* append: the frame is pending.  At u64::MAX the caller gets an error and
\* next_sequence stays, but the frame has been written and is pending.
append(p) ==
  /\ AppendAccepts
  /\ WriteFrame("obs", [seq |-> next_sequence, payload |-> p])
  /\ pending' = pending \union {Len(file) + 1}
  /\ next_sequence' = IF next_sequence = MaxU64 THEN next_sequence ELSE next_sequence + 1
  /\ UNCHANGED <<synced, sealed, step, quarantined, acked, faults>>

AppendFails(p) ==
  /\ AppendAccepts
  /\ WriteFrameFails("obs", [seq |-> next_sequence, payload |-> p])
  /\ IoError
  /\ UNCHANGED <<synced, writer, step, quarantined, acked>>

\* group_commit, first half: the observations reach the disk.
CommitSyncsPending ==
  /\ step = "idle"
  /\ ~sealed /\ pending # {}
  /\ synced' = Len(file)
  /\ step' = "commit"
  /\ UNCHANGED <<file, tail, writer, quarantined, acked, faults>>

\* The commit record is written after the barrier.
CommitWrites ==
  /\ step = "commit"
  /\ WriteFrame("commit", Contents(file, pending))
  /\ step' = "commit_sync"
  /\ UNCHANGED <<synced, writer, quarantined, acked, faults>>

\* Mutant: answers Ok without the second barrier.
CommitAcksUnsynced ==
  /\ step = "commit_sync"
  /\ acked' = [acked EXCEPT ![Len(acked)] = @ \union {file[j].body : j \in pending}]
  /\ pending' = {}
  /\ step' = "idle"
  /\ UNCHANGED <<file, tail, synced, next_sequence, sealed, quarantined, faults>>

\* Second barrier: only now does the caller hear Ok.
CommitAcks ==
  /\ step = "commit_sync"
  /\ synced' = Len(file)
  /\ acked' = [acked EXCEPT ![Len(acked)] = @ \union {file[j].body : j \in pending}]
  /\ pending' = {}
  /\ step' = "idle"
  /\ UNCHANGED <<file, tail, next_sequence, sealed, quarantined, faults>>

\* The commit record does not fit: an error, with everything still pending.
CommitExhausted ==
  /\ step = "commit"
  /\ CommitBytes > remaining_capacity
  /\ step' = "idle"
  /\ UNCHANGED <<file, tail, synced, writer, quarantined, acked, faults>>

CommitWriteFails ==
  /\ step = "commit"
  /\ WriteFrameFails("commit", Contents(file, pending))
  /\ IoError
  /\ step' = "idle"
  /\ UNCHANGED <<synced, writer, quarantined, acked>>

SealWrites ==
  /\ step = "idle"
  /\ ~sealed /\ pending = {}
  /\ WriteFrame("seal", file)
  /\ step' = "seal_sync"
  /\ UNCHANGED <<synced, writer, quarantined, acked, faults>>

SealWriteFails ==
  /\ step = "idle"
  /\ ~sealed /\ pending = {}
  /\ WriteFrameFails("seal", file)
  /\ IoError
  /\ UNCHANGED <<synced, writer, step, quarantined, acked>>

SealAcks ==
  /\ step = "seal_sync"
  /\ synced' = Len(file)
  /\ sealed' = TRUE
  /\ step' = "idle"
  /\ UNCHANGED <<file, tail, next_sequence, pending, quarantined, acked, faults>>

\* A sync_data that fails: the operation returns the error and the frames it
\* wrote stay in the file, unsynced.
SyncFails ==
  /\ \/ step \in {"commit_sync", "seal_sync"}
     \/ step = "idle" /\ ~sealed /\ pending # {}
  /\ IoError
  /\ step' = "idle"
  /\ UNCHANGED <<file, tail, synced, writer, quarantined, acked>>

\* Nothing of the FileWal value outlives its process.
WriterDropped ==
  /\ tail' = <<>> /\ step' = "closed"
  /\ next_sequence' = 0 /\ pending' = {} /\ sealed' = FALSE

\* The process stops; the page cache survives it.
ProcessStops ==
  /\ step # "closed"
  /\ file' = file \o tail
  /\ WriterDropped
  /\ UNCHANGED <<synced, quarantined, acked, faults>>

\* Power loss: of the frames after the last barrier any number reach the disk,
\* each whole or torn, and the last one may be cut by the end of the file.
PowerLoss ==
  /\ power_losses < MaxPowerLosses
  /\ power_losses' = power_losses + 1
  /\ LET f == file \o tail
     IN  \E n \in synced..Len(f) :
         \E image \in [(synced + 1)..n -> {"good", "torn", "short"}] :
           /\ \A i \in (synced + 1)..n :
                /\ f[i].image # "good" => image[i] = f[i].image
                /\ f[i].kind \notin TearableKinds /\ f[i].image = "good"
                     => image[i] = "good"
                /\ image[i] = "short" => i = n
           /\ file' = [i \in 1..n |->
                         IF i <= synced THEN f[i] ELSE [f[i] EXCEPT !.image = image[i]]]
  /\ WriterDropped
  /\ UNCHANGED <<synced, quarantined, acked, io_errors>>

Next ==
  \/ Open
  \/ OpenQuarantines
  \/ \E p \in Payloads : append(p)
  \/ \E p \in Payloads : AppendFails(p)
  \/ CommitSyncsPending
  \/ CommitWrites
  \/ CommitAcks
  \/ CommitExhausted
  \/ CommitWriteFails
  \/ SealWrites
  \/ SealWriteFails
  \/ SealAcks
  \/ SyncFails
  \/ ProcessStops
  \/ PowerLoss

Spec == Init /\ [][Next]_vars

-----------------------------------------------------------------------------
(* Properties *)

Segment(g) == IF g <= Len(quarantined) THEN quarantined[g] ELSE file

GoodObservations(f) ==
  {f[j].body : j \in {k \in DOMAIN f : f[k].kind = "obs" /\ f[k].image = "good"}}

\* Once group_commit has returned Ok for an observation its frame is intact in
\* the active segment, or in the segment that quarantine moved aside, whatever
\* errors, kills and power losses follow.
AckedRetained ==
  \A g \in DOMAIN acked : acked[g] \subseteq GoodObservations(Segment(g))

\* Opening a segment discards no acknowledged observation: each is covered by
\* a valid commit record of the active segment, so that committed() returns it.
AckedRecovered ==
  LET all == UNION {acked[g] : g \in DOMAIN acked}
  IN  step \in {"closed", "idle"} /\ all # {} =>
        /\ recover_ok(file)
        /\ all \subseteq {file[j].body : j \in Committed(file)}

\* Recovery checks sequence numbers inside one commit only; across commits,
\* reopenings and cut tails the committed observations are still 0, 1, 2, ...
CommittedGapFree ==
  recover_ok(file) =>
    \A j \in Committed(file) :
      file[j].body.seq = Cardinality({k \in Committed(file) : k < j})

\* A crash during recovery is harmless: recovering the segment that recovery
\* has just cut finds nothing more to cut and the same observations.
RecoveryIdempotent ==
  step = "closed" /\ recover_ok(file) =>
    LET cut == SubSeq(file, 1, finish_report(file))
    IN  /\ recover_ok(cut)
        /\ finish_report(cut) = Len(cut)
        /\ Committed(cut) = Committed(file)
        /\ recovered_next(cut) = recovered_next(file)
=============================================================================
