----------------------------- MODULE AlertOutbox -----------------------------
(***************************************************************************)
(* The durable side of alerts (processors/alert-engine/src/persistence.rs):   *)
(* workers register the version of the alert that they are deployed with,      *)
(* evaluate a stream of snapshots and persist each evaluation with the state  *)
(* and the outbox row in one PostgreSQL transaction; deliverers drain the     *)
(* outbox into a sink that deduplicates by key.                               *)
(*                                                                          *)
(* The repository has no driver for either yet.  Its workers are modelled     *)
(* from what the store is built for: they repeat a write whose outcome they   *)
(* do not know, stop when their definition is refused, and begin again from   *)
(* the start of the stream, perhaps with another deployment, after a crash.   *)
(***************************************************************************)
EXTENDS AlertEvaluator, FiniteSetsExt, TLC

CONSTANTS
    Workers, Deliverers,
    Deployments,    \* the versions and definitions a worker may be given
    Kinds,          \* what a snapshot may say: snapshots without revision and time
    MaxFeed,        \* bound on the snapshots
    Limit,          \* of a delivery batch
    MaxFaults       \* bound on failures and crashes

(* An evaluation_id does not tell versions of the same content apart, so two
   versions differ in content. *)
ASSUME DeploymentAssumption ==
    /\ Deployments \subseteq (Nat \ {0}) \X Definitions
    /\ \A d, e \in Deployments : d[2] = e[2] => d[1] = e[1]
    /\ \A kind \in Kinds : QuorumFeeBandSnapshot(kind)

VARIABLES
    feed,               \* the snapshots materialised so far
    workers,            \* worker -> [version, stage, next, evaluator, write]
    alert_definitions,  \* version -> definition
    alert_evaluations,  \* the rows, in the order of insertion
    alert_state,        \* version -> [evaluation, last_triggered]
    alert_outbox,       \* evaluation_id -> "pending" or "delivered"
    refused,            \* the persistence errors other than storage failures
    deliverers,         \* deliverer -> [batch, answer]
    sink,               \* the evaluation_ids the sink has accepted
    faults

rows == <<alert_definitions, alert_evaluations, alert_state, alert_outbox, refused>>

alertVars == <<feed, workers, rows, deliverers, sink, faults>>

NewWorker(deployment) ==
    [version |-> deployment[1], stage |-> "registering", next |-> 1, evaluator |-> NewEvaluator(deployment[2]), write |-> Never]

NewDeliverer == [batch |-> <<>>, answer |-> Never]

AlertInit ==
    /\ feed = <<>>
    /\ \E deployed \in [Workers -> Deployments] : workers = [w \in Workers |-> NewWorker(deployed[w])]
    /\ alert_definitions = <<>> /\ alert_evaluations = <<>> /\ alert_state = <<>> /\ alert_outbox = <<>>
    /\ refused = {}
    /\ deliverers = [d \in Deliverers |-> NewDeliverer]
    /\ sink = {} /\ faults = 0

(* The next QuorumFeeBandSnapshot, a second after the one before.  Its sources
   are counted; its fee band and quorum are those of the definition. *)
NextSnapshot(kind) ==
    LET n == IF feed = <<>> THEN 1 ELSE Max({s.revision : s \in Range(feed)}) + 1
    IN  [revision |-> n, observed_at |-> n] @@ kind

Materialize(snapshot) ==
    /\ Len(feed) < MaxFeed
    /\ feed' = Append(feed, snapshot)
    /\ UNCHANGED <<workers, rows, deliverers, sink, faults>>

(* Mutant: the content registered under a version is not compared. *)
register_mempool_definition_any(w) ==
    LET worker == workers[w]
    IN  /\ alert_definitions' = (worker.version :> worker.evaluator.definition) @@ alert_definitions
        /\ workers' = [workers EXCEPT ![w].stage = "running"]

(* register_mempool_definition: a version is written once, and a worker that
   has other content for it is told of the conflict. *)
register_mempool_definition(w) ==
    LET worker == workers[w]
    IN  /\ alert_definitions' = alert_definitions @@ (worker.version :> worker.evaluator.definition)
        /\ workers' = [workers EXCEPT ![w].stage =
                          IF alert_definitions'[worker.version] = worker.evaluator.definition THEN "running" ELSE "refused"]

Register(w) ==
    /\ workers[w].stage = "registering"
    /\ register_mempool_definition(w)
    /\ UNCHANGED <<feed, alert_evaluations, alert_state, alert_outbox, refused, deliverers, sink, faults>>

(* EvaluationWrite::new; the identities of the input facts go with the snapshot. *)
EvaluationWrite(version, evaluated_at, result) ==
    [version |-> version, evaluation |-> result, evaluated_at |-> evaluated_at]

(* A worker evaluates its next snapshot; there is nothing to persist when the
   evaluator refuses it or has just seen it. *)
Evaluate(w) ==
    /\ workers[w].stage = "running"
    /\ workers[w].write = Never /\ workers[w].next <= Len(feed)
    /\ LET s == feed[workers[w].next]
           e == workers[w].evaluator
       IN  workers' = [workers EXCEPT ![w] =
               IF Evaluates(e, s)
               THEN [@ EXCEPT !.next = @ + 1, !.evaluator = after(e, s),
                              !.write = EvaluationWrite(workers[w].version, s.observed_at, evaluation(e, s))]
               ELSE [@ EXCEPT !.next = @ + 1]]
    /\ UNCHANGED <<feed, rows, deliverers, sink, faults>>

(* The rows of a version. *)
EvaluationsOf(version) == SelectSeq(alert_evaluations, LAMBDA r : r.version = version)

(* No operation changes the status of a definition from enabled. *)
ensure_definition_exists(write) == write.version \in DOMAIN alert_definitions

evaluation_matches(write, stored) == write \in stored

(* check_current_state with check_historical_replay, and the primary key of
   insert_evaluation: "insert", "duplicate", or the error. *)
check_current_state(write) ==
    LET id == write.evaluation.evaluation_id
        stored == {r \in Range(EvaluationsOf(write.version)) : r.evaluation.revision = write.evaluation.revision}
    IN  IF ~ensure_definition_exists(write) THEN "DefinitionUnavailable"
        ELSE IF \/ write.version \notin DOMAIN alert_state
                \/ write.evaluation.revision > alert_state[write.version].evaluation.revision
        THEN IF \E r \in Range(alert_evaluations) : r.evaluation.evaluation_id = id THEN "Storage" ELSE "insert"
        ELSE IF stored = {} THEN "RevisionRegression"
        ELSE IF \A r \in stored : r.evaluation.evaluation_id # id THEN "ConflictingRevision"
        ELSE IF ~evaluation_matches(write, stored) THEN "EvaluationConflict"
        ELSE "duplicate"

insert_outbox(write) ==
    alert_outbox' =
        IF write.evaluation.transition \in Delivered
        THEN [id \in DOMAIN alert_outbox \union {write.evaluation.evaluation_id} |->
                 IF id = write.evaluation.evaluation_id THEN "pending" ELSE alert_outbox[id]]
        ELSE alert_outbox

advance_state(write) ==
    alert_state' =
        (write.version :> [evaluation |-> write.evaluation,
                           last_triggered |-> IF write.evaluation.transition = "Triggered" THEN write.evaluated_at
                                              ELSE IF write.version \notin DOMAIN alert_state THEN Never
                                              ELSE alert_state[write.version].last_triggered])
            @@ alert_state

(* The transaction of persist_mempool_evaluation, which holds the version's
   advisory lock from start to end. *)
Transaction(write) ==
    CASE check_current_state(write) = "insert" ->
            /\ alert_evaluations' = Append(alert_evaluations, write)
            /\ advance_state(write) /\ insert_outbox(write)
            /\ UNCHANGED <<alert_definitions, refused>>
      [] check_current_state(write) = "duplicate" ->
            UNCHANGED rows
      [] OTHER ->
            /\ refused' = refused \union {check_current_state(write)}
            /\ UNCHANGED <<alert_definitions, alert_evaluations, alert_state, alert_outbox>>

persist_mempool_evaluation(w) ==
    /\ workers[w].write # Never
    /\ Transaction(workers[w].write)
    /\ workers' = [workers EXCEPT ![w].write = Never]
    /\ UNCHANGED <<feed, deliverers, sink, faults>>

(* The storage fails before or after the commit; the worker keeps the
   evaluation and will write it again. *)
PersistFails(w) ==
    /\ faults < MaxFaults /\ faults' = faults + 1
    /\ workers[w].write # Never
    /\ \/ Transaction(workers[w].write)
       \/ UNCHANGED rows
    /\ UNCHANGED <<feed, workers, deliverers, sink>>

(* The same of the registration. *)
RegisterFails(w) ==
    /\ faults < MaxFaults /\ faults' = faults + 1
    /\ workers[w].stage = "registering"
    /\ alert_definitions' \in {alert_definitions, alert_definitions @@ (workers[w].version :> workers[w].evaluator.definition)}
    /\ UNCHANGED <<feed, workers, alert_evaluations, alert_state, alert_outbox, refused, deliverers, sink>>

(* A worker that starts again knows nothing and evaluates from the start. *)
RestartWorker(w, deployment) ==
    /\ faults < MaxFaults /\ faults' = faults + 1
    /\ workers' = [workers EXCEPT ![w] = NewWorker(deployment)]
    /\ UNCHANGED <<feed, rows, deliverers, sink>>

-----------------------------------------------------------------------------
Pending == SelectSeq(alert_evaluations, LAMBDA r : r.evaluation.evaluation_id \in DOMAIN alert_outbox
                                                     /\ alert_outbox[r.evaluation.evaluation_id] = "pending")

Oldest(pending) == SubSeq(pending, 1, IF Len(pending) < Limit THEN Len(pending) ELSE Limit)

(* deliver_pending, one await a step: the rows, oldest first, ... *)
select_pending(d) ==
    /\ deliverers[d].batch = <<>> /\ Pending # <<>>
    /\ deliverers' = [deliverers EXCEPT ![d].batch =
          [i \in DOMAIN Oldest(Pending) |-> Oldest(Pending)[i].evaluation.evaluation_id]]
    /\ UNCHANGED <<feed, workers, rows, sink, faults>>

(* ... each given to the sink, which accepts it, or fails and may have accepted it, ... *)
deliver(d) ==
    /\ deliverers[d].batch # <<>> /\ deliverers[d].answer = Never
    /\ sink' = sink \union {Head(deliverers[d].batch)}
    /\ deliverers' = [deliverers EXCEPT ![d].answer = "Ok"]
    /\ UNCHANGED <<feed, workers, rows, faults>>

DeliverFails(d) ==
    /\ faults < MaxFaults /\ faults' = faults + 1
    /\ deliverers[d].batch # <<>> /\ deliverers[d].answer = Never
    /\ sink' \in {sink, sink \union {Head(deliverers[d].batch)}}
    /\ deliverers' = [deliverers EXCEPT ![d].answer = "Err"]
    /\ UNCHANGED <<feed, workers, rows>>

(* Mutant: the batch ends at the first failure, and with it the deliverer. *)
update_outbox_stops(d) ==
    /\ deliverers[d].answer = "Ok"
    /\ alert_outbox' = [alert_outbox EXCEPT ![Head(deliverers[d].batch)] = "delivered"]
    /\ deliverers' = [deliverers EXCEPT ![d] = [batch |-> Tail(@.batch), answer |-> Never]]
    /\ UNCHANGED <<feed, workers, alert_definitions, alert_evaluations, alert_state, refused, sink, faults>>

(* Mutant: a failed delivery is marked delivered too. *)
update_outbox_always(d) ==
    /\ deliverers[d].answer # Never
    /\ alert_outbox' = [alert_outbox EXCEPT ![Head(deliverers[d].batch)] = "delivered"]
    /\ deliverers' = [deliverers EXCEPT ![d] = [batch |-> Tail(@.batch), answer |-> Never]]
    /\ UNCHANGED <<feed, workers, alert_definitions, alert_evaluations, alert_state, refused, sink, faults>>

(* ... and the row's status updated; a failure leaves it pending. *)
update_outbox(d) ==
    /\ deliverers[d].answer # Never
    /\ alert_outbox' = IF deliverers[d].answer = "Err" THEN alert_outbox
                       ELSE [alert_outbox EXCEPT ![Head(deliverers[d].batch)] = "delivered"]
    /\ deliverers' = [deliverers EXCEPT ![d] = [batch |-> Tail(@.batch), answer |-> Never]]
    /\ UNCHANGED <<feed, workers, alert_definitions, alert_evaluations, alert_state, refused, sink, faults>>

(* A storage error or a crash ends deliver_pending wherever it is. *)
DelivererStops(d) ==
    /\ faults < MaxFaults /\ faults' = faults + 1
    /\ deliverers[d] # NewDeliverer
    /\ deliverers' = [deliverers EXCEPT ![d] = NewDeliverer]
    /\ UNCHANGED <<feed, workers, rows, sink>>

WorkerNext ==
    \/ \E kind \in Kinds : Materialize(NextSnapshot(kind))
    \/ \E i \in DOMAIN feed : Materialize(feed[i])
    \/ \E w \in Workers : Register(w) \/ RegisterFails(w) \/ Evaluate(w) \/ persist_mempool_evaluation(w) \/ PersistFails(w)
    \/ \E w \in Workers, deployment \in Deployments : RestartWorker(w, deployment)

DeliveryNext ==
    \E d \in Deliverers : select_pending(d) \/ deliver(d) \/ DeliverFails(d) \/ update_outbox(d) \/ DelivererStops(d)

AlertNext == WorkerNext \/ DeliveryNext

-----------------------------------------------------------------------------
(* Whatever workers ran, repeated, crashed or were deployed with, the durable
   evaluations of a version are the first ones of one undisturbed pass of its
   registered definition over the stream, beside the other deployed versions
   (DeploymentAssumption: no two of them agree in what evaluations are named
   after), and the first ones of what the preview of that definition shows,
   without the duplicate revisions that workers skip.  The state row
   tells the last of them and the last trigger, the outbox has a row for each
   that must be delivered and for no other, and no worker was refused a write. *)
StateIsReplay ==
    /\ \A v \in DOMAIN alert_definitions :
          LET once == replay(alert_definitions[v], feed).evaluations
              preview == evaluate_preview(alert_definitions[v], feed)
              stored == EvaluationsOf(v)
              n == Len(stored)
              triggers == {r.evaluated_at : r \in {x \in Range(stored) : x.evaluation.transition = "Triggered"}}
          IN  /\ n <= Len(once)
              /\ \A i \in 1 .. n : stored[i].evaluation = once[i]
              /\ preview # Never =>
                    /\ SelectSeq(preview.evaluations, LAMBDA x : x.transition # "DuplicateRevision") = once
                    /\ n > 0 /\ n = Len(once) => preview.final_active = alert_state[v].evaluation.active
              /\ v \in DOMAIN alert_state <=> n > 0
              /\ n > 0 => alert_state[v] = [evaluation |-> once[n],
                                           last_triggered |-> IF triggers = {} THEN Never ELSE Max(triggers)]
    /\ DOMAIN alert_outbox = {r.evaluation.evaluation_id :
                                 r \in {x \in Range(alert_evaluations) : x.evaluation.transition \in Delivered}}
    /\ \A r \in Range(alert_evaluations) : r.version \in DOMAIN alert_definitions
    /\ refused = {}

(* The delivered alerts of a version follow its rule.  They alternate: a
   trigger, then its retraction or correction, and the alert is active exactly
   after a trigger, so that a degraded revision neither retracts an alert nor
   lets it trigger twice.  Two triggers are at least the cooldown apart, and
   each ends for_evaluations consecutive revisions above the threshold, none of
   them degraded. *)
AlertsFollowRule ==
    \A v \in DOMAIN alert_state :
        LET stored == EvaluationsOf(v)
            d == alert_definitions[v]
            Triggered(i) == stored[i].evaluation.transition = "Triggered"
            delivered == SelectSeq(stored, LAMBDA r : r.evaluation.transition \in Delivered)
        IN  /\ \A i \in DOMAIN delivered : delivered[i].evaluation.transition = "Triggered" <=> i % 2 = 1
            /\ alert_state[v].evaluation.active <=> Len(delivered) % 2 = 1
            /\ \A i, j \in DOMAIN stored : i < j /\ Triggered(i) /\ Triggered(j) =>
                  stored[j].evaluated_at - stored[i].evaluated_at >= d.cooldown_seconds
            /\ \A i \in DOMAIN stored : Triggered(i) =>
                  /\ i >= d.for_evaluations
                  /\ \A k \in i - d.for_evaluations + 1 .. i :
                        LET s == stored[k].evaluation.evaluation_id[2] IN above(d, s) /\ ~degraded(d, s)

(* Deliverers keep calling, and calls are answered. *)
DeliveryFairness == \A d \in Deliverers : WF_alertVars(select_pending(d) \/ deliver(d) \/ update_outbox(d))

(* A row is marked delivered only when the sink has accepted the alert, and
   failed and interrupted deliveries are made again until all rows are. *)
EverythingDelivered ==
    /\ [](\A id \in DOMAIN alert_outbox : alert_outbox[id] = "delivered" => id \in sink)
    /\ <>[](\A id \in DOMAIN alert_outbox : alert_outbox[id] = "delivered")
=============================================================================
