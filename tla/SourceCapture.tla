---------------------------- MODULE SourceCapture ----------------------------
(***************************************************************************)
(* DurableSourceCapture of crates/source-capture driving the WAL of module *)
(* Wal: one observation is appended and committed per call, a WAL failure  *)
(* poisons the writer, and recovery is a new FileWal::open whose           *)
(* next_sequence resumes the session.  Messages the boundary refuses       *)
(* (payload or cursor too large, labels) change nothing and are no steps.  *)
(* Commit and seal records reach the disk whole or not at all here, so that*)
(* open never quarantines (NeverQuarantined); module Wal has that path.    *)
(***************************************************************************)
EXTENDS Wal

VARIABLES
  session_next,  \* CaptureSession.next_sequence
  poisoned,
  mode,          \* where the owner of the writer is, see Modes
  returned       \* committed envelopes capture() has returned, in order

captureVars == <<session_next, poisoned, mode, returned>>

allVars == <<vars, captureVars>>

CaptureInit ==
  /\ Init
  /\ session_next = 0 /\ poisoned = FALSE /\ mode = "ready"
  /\ returned = <<>>

\* FileWal::open, then CaptureSession::resume and DurableSourceCapture::new.
Resume ==
  /\ Open
  /\ session_next' = recovered_next(file)
  /\ poisoned' = FALSE
  /\ UNCHANGED <<mode, returned>>

\* The checks before the WAL is touched: poisoned, and pending_sequence.
capture_begins ==
  /\ step = "idle" /\ mode = "ready"
  /\ ~poisoned
  /\ session_next # MaxU64

capture_appends(p) ==
  /\ capture_begins
  /\ session_next = next_sequence
  /\ append(p)
  /\ mode' = "calling"
  /\ UNCHANGED <<session_next, poisoned, returned>>

\* wal.append returns an error: refused before writing, or the write failed.
capture_append_fails ==
  /\ capture_begins
  /\ ~(AppendAccepts /\ session_next = next_sequence)
  /\ poisoned' = TRUE
  /\ UNCHANGED <<vars, session_next, mode, returned>>

capture_write_fails(p) ==
  /\ capture_begins
  /\ session_next = next_sequence
  /\ AppendFails(p)
  /\ poisoned' = TRUE
  /\ UNCHANGED <<session_next, mode, returned>>

capture_commits ==
  /\ mode = "calling"
  /\ CommitSyncsPending \/ CommitWrites
  /\ UNCHANGED captureVars

\* saturating_add.
commit_sequence == Min({session_next + 1, MaxU64})

\* group_commit returns Ok: the range has to be exactly the appended sequence.
capture_returns ==
  /\ mode = "calling"
  /\ CommitAcks
  /\ LET covered == {file[j].body.seq : j \in pending}
     IN  IF covered = {session_next}
         THEN /\ session_next' = commit_sequence
              /\ returned' = Append(returned, file[Max(pending)].body)
              /\ UNCHANGED poisoned
         ELSE /\ poisoned' = TRUE
              /\ UNCHANGED <<session_next, returned>>
  /\ mode' = "ready"

\* Mutant: a failed group_commit is tried again.
capture_commit_retries ==
  /\ mode = "calling"
  /\ CommitExhausted \/ CommitWriteFails \/ SyncFails
  /\ UNCHANGED captureVars

capture_commit_fails ==
  /\ mode = "calling"
  /\ CommitExhausted \/ CommitWriteFails \/ SyncFails
  /\ poisoned' = TRUE
  /\ mode' = "ready"
  /\ UNCHANGED <<session_next, returned>>

\* into_parts at an orderly shutdown; the new owner of the WAL may seal it
\* once.  A poisoned writer's WAL is only good for recovery, a new open.
into_parts ==
  /\ step = "idle" /\ mode = "ready" /\ ~poisoned
  /\ mode' = "released"
  /\ UNCHANGED <<vars, session_next, poisoned, returned>>

SealBegins ==
  /\ mode = "released"
  /\ SealWrites \/ SealWriteFails
  /\ mode' = "sealing"
  /\ UNCHANGED <<session_next, poisoned, returned>>

SealEnds ==
  /\ mode = "sealing" /\ step = "seal_sync"
  /\ SealAcks \/ SyncFails
  /\ UNCHANGED captureVars

\* The WAL is dropped for recovery, or the process ends, at any point.
CaptureStops ==
  /\ ProcessStops \/ PowerLoss
  /\ mode' = "ready"
  /\ session_next' = 0 /\ poisoned' = FALSE
  /\ UNCHANGED returned

CaptureNext ==
  \/ Resume
  \/ \E p \in Payloads : capture_appends(p)
  \/ capture_append_fails
  \/ \E p \in Payloads : capture_write_fails(p)
  \/ capture_commits
  \/ capture_returns
  \/ capture_commit_fails
  \/ into_parts
  \/ SealBegins
  \/ SealEnds
  \/ CaptureStops

CaptureSpec == CaptureInit /\ [][CaptureNext]_allVars

-----------------------------------------------------------------------------
(* Properties *)

\* When commit records reach the disk whole or not at all, no sequence of
\* failed writes, failed syncs, kills and power losses makes recovery reject
\* the segment: no second commit record for the same frames is written after
\* an ambiguous failure.
NeverQuarantined == recover_ok(file)

-----------------------------------------------------------------------------
(* The file implements the abstract log. *)

\* The committed observations in file order.
CommittedLog ==
  LET C == Committed(file)
      Nth(n) == CHOOSE j \in C : Cardinality({k \in C : k <= j}) = n
  IN  [n \in 1..Cardinality(C) |-> file[Nth(n)].body.payload]

Log == INSTANCE ObservationLog WITH
         log <- CommittedLog,
         answered <- {returned[i].seq + 1 : i \in DOMAIN returned}

\* Every step of the file, writer and session is a step of the abstract log:
\* commit records store one observation, Ok answers the newest one, and only
\* an unanswered newest one can be lost.
CaptureImplementsLog == Log!LogSpec
=============================================================================
