--------------------------- MODULE ObservationLog ---------------------------
(***************************************************************************)
(* What the durable capture boundary promises to its caller, without the   *)
(* file: a log to which observations are added one at a time.  The entry   *)
(* at index n carries collector sequence n - 1.  Storing an entry and      *)
(* answering Ok for it are two steps; a crash may fall between them, and   *)
(* then the entry may survive or not.  An answered entry is never lost and *)
(* its index is never given to another observation.                        *)
(***************************************************************************)
EXTENDS Naturals, Sequences, SequencesExt

CONSTANT Payloads

VARIABLES
  log,       \* the observations committed() would return
  answered   \* indices of the ones capture() has returned Ok for

logVars == <<log, answered>>

LogInit == log = <<>> /\ answered = {}

Store(p) ==
  /\ log' = Append(log, p)
  /\ UNCHANGED answered

\* Only the newest entry can still be waiting for its answer.
Answer ==
  /\ log # <<>> /\ Len(log) \notin answered
  /\ answered' = answered \union {Len(log)}
  /\ UNCHANGED log

Lose ==
  /\ log # <<>> /\ Len(log) \notin answered
  /\ log' = Front(log)
  /\ UNCHANGED answered

LogNext == (\E p \in Payloads : Store(p)) \/ Answer \/ Lose

LogSpec == LogInit /\ [][LogNext]_logVars
=============================================================================
