--------------------------- MODULE AlertEvaluator ---------------------------
(***************************************************************************)
(* The evaluation of a mempool alert definition over an ordered stream of     *)
(* snapshots (processors/alert-engine/src/mempool.rs): a pure function from   *)
(* the evaluator's state and a snapshot to an evaluation and the next state.  *)
(* The preview of services/query-api evaluates a whole stream.                *)
(***************************************************************************)
EXTENDS Integers, Sequences, SequencesExt

CONSTANTS
    Definitions,        \* what an alert may be defined to be
    quorum_required,    \* the same in every definition and snapshot
    Never               \* no time, no snapshot, no evaluation: None

(* QuorumVbytesAboveDefinition::new *)
QuorumVbytesAboveDefinition ==
    [threshold_vbytes : Nat \ {0}, for_evaluations : Nat \ {0}, cooldown_seconds : Nat,
     degraded_policy : {"Suppress", "EvaluateHealthyQuorum"}]

ASSUME DefinitionAssumption == Definitions \subseteq QuorumVbytesAboveDefinition /\ quorum_required \in Nat \ {0}

(* QuorumFeeBandSnapshot::new: there is evidence of some source, and complete
   evidence misses none. *)
QuorumFeeBandSnapshot(snapshot) ==
    /\ snapshot.eligible_sources + snapshot.unavailable_sources \in 1 .. 32
    /\ snapshot.completeness = "Complete" => snapshot.unavailable_sources = 0

(* MempoolAlertEvaluator::new *)
NewEvaluator(definition) ==
    [definition |-> definition, consecutive_true |-> 0, active |-> FALSE, last_snapshot |-> Never, last_trigger |-> Never]

(* validate_order_and_contract: neither revisions nor times go back, and a
   revision has one content. *)
accepts(e, snapshot) ==
    e.last_snapshot # Never =>
        /\ snapshot.revision >= e.last_snapshot.revision
        /\ snapshot.revision = e.last_snapshot.revision => snapshot = e.last_snapshot
        /\ snapshot.observed_at >= e.last_snapshot.observed_at

degraded(d, snapshot) ==
    \/ snapshot.eligible_sources < quorum_required
    \/ /\ d.degraded_policy = "Suppress"
       /\ snapshot.completeness = "KnownIncomplete" \/ snapshot.unavailable_sources > 0

above(d, snapshot) == snapshot.vbytes > d.threshold_vbytes

inside_cooldown(e, time) == e.last_trigger # Never /\ time < e.last_trigger + e.definition.cooldown_seconds

(* The count of consecutive true evaluations that the snapshot makes; it
   saturates at u16::MAX, which for_evaluations cannot exceed. *)
consecutive(e, snapshot) ==
    IF degraded(e.definition, snapshot) \/ ~above(e.definition, snapshot) THEN 0 ELSE e.consecutive_true + 1

transition(e, snapshot) ==
    CASE degraded(e.definition, snapshot) -> "DegradedSource"
      [] ~degraded(e.definition, snapshot) /\ ~above(e.definition, snapshot) ->
            IF ~e.active THEN "BelowThreshold"
            ELSE IF snapshot.cause = "Correction" THEN "Corrected" ELSE "Retracted"
      [] ~degraded(e.definition, snapshot) /\ above(e.definition, snapshot) ->
            IF e.active THEN "Confirmed"
            ELSE IF consecutive(e, snapshot) < e.definition.for_evaluations THEN "Pending"
            ELSE IF inside_cooldown(e, snapshot.observed_at) THEN "CooldownSuppressed"
            ELSE "Triggered"

(* The transitions that must be delivered. *)
Delivered == {"Triggered", "Corrected", "Retracted"}

(* Mutant: a degraded revision ends the alert. *)
after_degrading(e, snapshot) ==
    [e EXCEPT !.consecutive_true = consecutive(e, snapshot),
     !.active = transition(e, snapshot) \in {"Triggered", "Confirmed"},
     !.last_snapshot = snapshot,
     !.last_trigger = IF transition(e, snapshot) = "Triggered" THEN snapshot.observed_at ELSE e.last_trigger]

(* The evaluator after a snapshot that it accepts and has not just seen. *)
after(e, snapshot) ==
    [e EXCEPT !.consecutive_true = consecutive(e, snapshot),
     !.active = \/ transition(e, snapshot) = "Triggered"
                \/ e.active /\ transition(e, snapshot) \notin {"Corrected", "Retracted"},
     !.last_snapshot = snapshot,
     !.last_trigger = IF transition(e, snapshot) = "Triggered" THEN snapshot.observed_at ELSE e.last_trigger]

(* A digest of the definition, the snapshot and what became of it, but not of
   the definition's version; the outbox key is a digest of this one. *)
evaluation_id(definition, snapshot, outcome) == <<definition, snapshot, outcome>>

(* MempoolAlertEvaluation *)
evaluation(e, snapshot) ==
    [evaluation_id |-> evaluation_id(e.definition, snapshot, transition(e, snapshot)), transition |-> transition(e, snapshot),
     revision |-> snapshot.revision, active |-> after(e, snapshot).active,
     consecutive_true |-> consecutive(e, snapshot)]

(* MempoolAlertEvaluator::evaluate makes something new of a snapshot that is
   neither refused nor repeated. *)
Evaluates(e, snapshot) == accepts(e, snapshot) /\ snapshot # e.last_snapshot

(* One undisturbed pass over a stream. *)
replay(definition, stream) ==
    FoldLeft(LAMBDA r, s : IF Evaluates(r.evaluator, s)
                           THEN [evaluator |-> after(r.evaluator, s),
                                 evaluations |-> Append(r.evaluations, evaluation(r.evaluator, s))]
                           ELSE r,
             [evaluator |-> NewEvaluator(definition), evaluations |-> <<>>], stream)

(* evaluate_preview: one snapshot that is refused makes the whole request
   invalid, and a repeated one has a duplicate_evaluation. *)
duplicate_evaluation(e, evaluations) ==
    [evaluation_id |-> Last(evaluations).evaluation_id, transition |-> "DuplicateRevision",
     revision |-> e.last_snapshot.revision, active |-> e.active, consecutive_true |-> e.consecutive_true]

evaluate_preview(definition, stream) ==
    LET step(r, s) ==
            IF r = Never \/ ~accepts(r.evaluator, s) THEN Never
            ELSE IF Evaluates(r.evaluator, s)
            THEN [evaluator |-> after(r.evaluator, s), evaluations |-> Append(r.evaluations, evaluation(r.evaluator, s))]
            ELSE [r EXCEPT !.evaluations = Append(@, duplicate_evaluation(r.evaluator, @))]
        run == FoldLeft(step, [evaluator |-> NewEvaluator(definition), evaluations |-> <<>>], stream)
    IN  IF stream = <<>> \/ run = Never THEN Never
        ELSE [evaluations |-> run.evaluations, final_active |-> Last(run.evaluations).active]
=============================================================================
