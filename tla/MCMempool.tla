------------------------------ MODULE MCMempool ------------------------------
(* Instances of the observer mempools, the mempool graph, the Bitcoin Core
   connector and the mempool alerts; which of them runs is chosen at the start. *)
EXTENDS ObserverMempool, MempoolGraph, BitcoinConnector, AlertOutbox

CONSTANTS o1, o2, t1, t2, r1, r2, r3, r4, w1, w2, d1, d2

VARIABLE program

MCvars == <<mempool, graphVars, connectorVars, alertVars, program>>

(* A gapped observer may have a good clock, and a healthy one a bad one.  One
   observer goes through all of it, beside one that is offline or healthy. *)
SourceHealths == {<<"Healthy", 0>>, <<"Healthy", -3>>, <<"Gapped", 0>>}

OneTroubled == mempool'[o2].clock_offset = 0 /\ mempool'[o2].health # "Gapped"

(* r1 and r2 spend the same output of a confirmed transaction, r3 spends an output of r1,
   r4 the same output of r1 and one of r2. *)
SpendsOf == (r1 :> {<<"confirmed", 0>>}) @@ (r2 :> {<<"confirmed", 0>>, <<"confirmed", 1>>})
               @@ (r3 :> {<<r1, 0>>}) @@ (r4 :> {<<r1, 0>>, <<r2, 0>>})

NotificationBounds == [sequence |-> 5, rawtx |-> 1]

(* At the threshold and above it, a correction, too few sources, and a quorum
   that misses a source. *)
Kind(vbytes, eligible, unavailable, completeness, cause) ==
    [vbytes |-> vbytes, eligible_sources |-> eligible, unavailable_sources |-> unavailable,
     completeness |-> completeness, cause |-> cause]

SnapshotKinds == {Kind(2, 2, 0, "Complete", "Observed"), Kind(1, 2, 0, "Complete", "Observed"),
                  Kind(1, 2, 0, "Complete", "Correction"), Kind(2, 1, 1, "KnownIncomplete", "Observed"),
                  Kind(2, 2, 1, "Recovered", "Recovered")}

(* A strict and an eager definition; the third deployment gives version 1
   another content. *)
Definition(for_evaluations, cooldown_seconds, degraded_policy) ==
    [threshold_vbytes |-> 1, for_evaluations |-> for_evaluations, cooldown_seconds |-> cooldown_seconds,
     degraded_policy |-> degraded_policy]

Strict == Definition(2, 4, "Suppress")
Eager == Definition(1, 0, "EvaluateHealthyQuorum")
Edited == Definition(1, 4, "Suppress")
AlertDefinitions == {Strict, Eager, Edited}
AlertDeployments == {<<1, Strict>>, <<2, Eager>>, <<1, Edited>>}

PlainKinds == {k \in SnapshotKinds : k.unavailable_sources = 0 /\ k.cause = "Observed"}

Init ==
    /\ program \in {"mempool", "graph", "connector", "evaluator", "versions", "alerts"}
    /\ MempoolInit /\ GraphInit /\ ConnectorInit /\ AlertInit
    /\ workers[w1] \in {NewWorker(<<1, Strict>>), NewWorker(<<2, Eager>>)}
    /\ program # "evaluator" => workers[w1] = NewWorker(<<1, Strict>>)
    /\ program # "versions" => workers[w2] = NewWorker(<<1, Strict>>)

(* Every stream of snapshots, evaluated by one worker that nothing disturbs;
   the eager definition has no cooldown to wait for, and four are enough. *)
EvaluatorNext ==
    \/ /\ workers[w1].stage = "running" /\ workers[w1].write = Never /\ workers[w1].next > Len(feed)
       /\ workers[w1].version = 2 => Len(feed) < 4
       /\ \E kind \in Kinds : Materialize(NextSnapshot(kind))
    \/ Register(w1) \/ Evaluate(w1) \/ persist_mempool_evaluation(w1)

(* A short stream with repetitions, and everything that may happen to it: with
   every deployment and no delivery, or with delivery and one deployment. *)
OneDeployment == \A w \in Workers : workers'[w].evaluator.definition = Strict

ShortFeed ==
    /\ Len(feed') <= (IF program = "versions" THEN 2 ELSE 3)
    /\ \A s \in Range(feed') : \E k \in PlainKinds : s = [revision |-> s.revision, observed_at |-> s.observed_at] @@ k

Next ==
    /\ UNCHANGED program
    /\ \/ program = "mempool" /\ MempoolNext /\ OneTroubled /\ UNCHANGED <<graphVars, connectorVars, alertVars>>
       \/ program = "graph" /\ GraphNext /\ UNCHANGED <<mempool, connectorVars, alertVars>>
       \/ program = "connector" /\ ConnectorNext /\ UNCHANGED <<mempool, graphVars, alertVars>>
       \/ program = "evaluator" /\ EvaluatorNext /\ UNCHANGED <<mempool, graphVars, connectorVars>>
       \/ program = "versions" /\ WorkerNext /\ ShortFeed /\ UNCHANGED <<mempool, graphVars, connectorVars>>
       \/ program = "alerts" /\ AlertNext /\ ShortFeed /\ OneDeployment /\ UNCHANGED <<mempool, graphVars, connectorVars>>

Spec == Init /\ [][Next]_MCvars /\ (program = "alerts" => DeliveryFairness)

AlertsDelivered == program = "alerts" => EverythingDelivered
=============================================================================
