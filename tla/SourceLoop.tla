----------------------------- MODULE SourceLoop -----------------------------
(***************************************************************************)
(* The polling runtime of crates/source-runtime: SourceLoop driven by      *)
(* run_until_cancelled over an HttpPollingTransport, capturing through the *)
(* abstract log of ObservationLog and publishing to a broker.              *)
(*                                                                         *)
(* Responses are abstracted to the request they answer and how the status  *)
(* classifies; time is not modelled, a sleep may end at any moment.  The   *)
(* cancellation token may fire at any moment, and the process may crash.   *)
(***************************************************************************)
EXTENDS Integers, Sequences, FiniteSets

CONSTANTS
  Requests,      \* length of the HTTP request plan
  MaxLog,        \* the source answers at most this often
  MaxFailures,   \* bound on consecutive failed polls
  MaxBrokerFailures, MaxCrashes

ASSUME PlanAssumption == Requests \in Nat \ {0}
ASSUME LoopBounds == {MaxLog, MaxFailures, MaxBrokerFailures, MaxCrashes} \subseteq Nat

Kinds == {"success", "retryable", "permanent"}

Responses == [request : 1..Requests, kind : Kinds]

VARIABLES
  log, answered, \* see ObservationLog
  poisoned,      \* DurableSourceCapture.poisoned
  broker,        \* log indices in the order the broker took them
  pc,            \* where the loop is, see Pcs
  request_index, \* HttpPollingTransport, counted from 1
  event,         \* the PollEvent in hand
  cancelled,     \* the token
  health,
  done,          \* requests whose success was captured in this cycle
  broker_failures, crashes   \* how many so far

INSTANCE ObservationLog WITH Payloads <- Responses

captured == <<log, answered>>

loopVars == <<poisoned, broker, pc, request_index, event, cancelled, health,
              done, broker_failures, crashes>>

vars == <<captured, loopVars>>

NoEvent == [request |-> 0, kind |-> "none", complete |-> FALSE]

\* SourceHealth: the state, consecutive_failures, and the failure_count of the
\* active IncompleteInterval, 0 when there is none.
StartingHealth == [state |-> "Starting", failures |-> 0, interval |-> 0, next |-> Len(log)]

LoopInit ==
  /\ LogInit
  /\ poisoned = FALSE /\ broker = <<>> /\ pc = "off"
  /\ request_index = 1 /\ event = NoEvent /\ cancelled = FALSE
  /\ health = StartingHealth
  /\ done = {} /\ broker_failures = 0 /\ crashes = 0

record_failure(h) ==
  [h EXCEPT !.state = "Degraded", !.failures = @ + 1, !.interval = @ + 1]

record_success(h) ==
  [h EXCEPT !.state = "Healthy", !.next = Len(log), !.failures = 0, !.interval = 0]

-----------------------------------------------------------------------------
(* run_until_cancelled and run_until_cycle_complete *)

\* A process starts the loop; once it has returned, only a new process runs it.
Run ==
  /\ pc = "off"
  /\ pc' = "check"
  /\ UNCHANGED <<captured, poisoned, broker, request_index, event, cancelled, health,
                 done, broker_failures, crashes>>

Return(exit, state) ==
  /\ pc' = exit
  /\ health' = [health EXCEPT !.state = state]

\* Mutant: a running cycle does not see the token.
CancelTakenBetweenCycles ==
  /\ cancelled
  /\ pc \in {"check", "interval"}
  /\ Return("stopped", "Stopped")
  /\ UNCHANGED <<captured, poisoned, broker, request_index, event, cancelled, done,
                 broker_failures, crashes>>

\* Every place that tests the token: the loop head, the two selects and the
\* sleep between cycles.
CancelTaken ==
  /\ cancelled
  /\ pc \in {"check", "select", "interval"}
  /\ Return("stopped", "Stopped")
  /\ UNCHANGED <<captured, poisoned, broker, request_index, event, cancelled, done,
                 broker_failures, crashes>>

CycleBegins ==
  /\ pc = "check" /\ ~cancelled
  /\ pc' = "select"
  /\ UNCHANGED <<captured, poisoned, broker, request_index, event, cancelled, health,
                 done, broker_failures, crashes>>

\* Mutant: the plan moves on whatever the status was.
next_index_always(kind) == (request_index % Requests) + 1

\* Only a success moves to the next request of the plan.
next_index(kind) == IF kind = "success" THEN (request_index % Requests) + 1 ELSE request_index

\* next_event returns a response; its state advances after the last await, so
\* a fetch that cancellation drops leaves no trace.
next_event(kind) ==
  /\ pc = "select"
  /\ Len(log) < MaxLog
  /\ kind = "retryable" => health.failures < MaxFailures
  /\ request_index' = next_index(kind)
  /\ event' = [request |-> request_index, kind |-> kind,
               complete |-> kind = "success" /\ request_index' = 1]
  /\ pc' = "capture"
  /\ UNCHANGED <<captured, poisoned, broker, cancelled, health, done, broker_failures, crashes>>

\* A network error or timeout is recorded and waited out.
TransientFailure ==
  /\ pc = "select"
  /\ health.failures < MaxFailures
  /\ health' = record_failure(health)
  /\ pc' = "backoff"
  /\ UNCHANGED <<captured, poisoned, broker, request_index, event, cancelled, done,
                 broker_failures, crashes>>

\* A response over the size limit ends the loop.
PermanentFailure ==
  /\ pc = "select"
  /\ Return("failed", "Failed")
  /\ UNCHANGED <<captured, poisoned, broker, request_index, event, cancelled, done,
                 broker_failures, crashes>>

\* The backoff ends: by cancellation, which marks the loop stopped and still
\* goes round to the select, or by the delay.
BackoffEnds ==
  /\ pc = "backoff"
  /\ \/ cancelled /\ health' = [health EXCEPT !.state = "Stopped"]
     \/ UNCHANGED health
  /\ pc' = "select"
  /\ UNCHANGED <<captured, poisoned, broker, request_index, event, cancelled, done,
                 broker_failures, crashes>>

capture_stores ==
  /\ pc = "capture" /\ ~poisoned
  /\ Store([request |-> event.request, kind |-> event.kind])
  /\ pc' = "stored"
  /\ UNCHANGED <<poisoned, broker, request_index, event, cancelled, health, done,
                 broker_failures, crashes>>

capture_answers ==
  /\ pc = "stored"
  /\ Answer
  /\ done' = IF event.kind = "success" THEN done \union {event.request} ELSE done
  /\ pc' = "publish"
  /\ UNCHANGED <<poisoned, broker, request_index, event, cancelled, health,
                 broker_failures, crashes>>

\* The payload is over the capture limit: refused, the writer stays usable.
capture_refuses ==
  /\ pc = "capture" /\ ~poisoned
  /\ Return("failed", "Failed")
  /\ UNCHANGED <<captured, poisoned, broker, request_index, event, cancelled, done,
                 broker_failures, crashes>>

\* The WAL fails before or after the commit record, and the writer is
\* poisoned.
capture_fails ==
  /\ pc \in {"capture", "stored"}
  /\ poisoned' = TRUE
  /\ Return("failed", "Failed")
  /\ UNCHANGED <<captured, broker, request_index, event, cancelled, done,
                 broker_failures, crashes>>

\* publish returns an error; the record may have been delivered all the same.
publish_fails ==
  /\ pc = "publish"
  /\ broker_failures < MaxBrokerFailures
  /\ broker_failures' = broker_failures + 1
  /\ broker' \in {broker, Append(broker, Len(log))}
  /\ Return("failed", "Failed")
  /\ UNCHANGED <<captured, poisoned, request_index, event, cancelled, done, crashes>>

\* Mutant: a response that asks for a retry is captured and not published.
publish_successes_only ==
  /\ pc = "publish"
  /\ broker' = IF event.kind = "success" THEN Append(broker, Len(log)) ELSE broker
  /\ health' = IF event.kind = "success" THEN record_success(health) ELSE record_failure(health)
  /\ pc' = IF event.complete THEN "interval" ELSE "select"
  /\ done' = IF event.complete THEN {} ELSE done
  /\ event' = NoEvent
  /\ UNCHANGED <<captured, poisoned, request_index, cancelled, broker_failures, crashes>>

\* publish succeeds; the disposition decides how the loop goes on.
publish ==
  /\ pc = "publish"
  /\ broker' = Append(broker, Len(log))
  /\ LET h == [health EXCEPT !.next = Len(log)]
     IN  \/ /\ event.kind = "success"
            /\ health' = record_success(h)
            /\ pc' = IF event.complete THEN "interval" ELSE "select"
            /\ done' = IF event.complete THEN {} ELSE done
         \/ /\ event.kind = "retryable"
            /\ health' = record_failure(h)
            /\ pc' = "backoff"
            /\ UNCHANGED done
         \/ /\ event.kind = "permanent"
            /\ health' = [h EXCEPT !.state = "Failed"]
            /\ pc' = "failed"
            /\ UNCHANGED done
  /\ event' = NoEvent
  /\ UNCHANGED <<captured, poisoned, request_index, cancelled, broker_failures, crashes>>

\* poll_interval has passed.
IntervalEnds ==
  /\ pc = "interval"
  /\ pc' = "check"
  /\ UNCHANGED <<captured, poisoned, broker, request_index, event, cancelled, health,
                 done, broker_failures, crashes>>

-----------------------------------------------------------------------------
(* The surroundings *)

Cancel ==
  /\ pc # "off" /\ ~cancelled
  /\ cancelled' = TRUE
  /\ UNCHANGED <<captured, poisoned, broker, pc, request_index, event, health, done,
                 broker_failures, crashes>>

\* The process dies; a power loss can take a stored, unanswered entry with it.
\* The next process opens the WAL and starts with fresh loop and transport.
Crash ==
  /\ pc # "off" /\ crashes < MaxCrashes
  /\ crashes' = crashes + 1
  /\ Lose \/ UNCHANGED captured
  /\ pc' = "off" /\ poisoned' = FALSE /\ cancelled' = FALSE
  /\ request_index' = 1 /\ event' = NoEvent /\ done' = {}
  /\ health' = [state |-> "Starting", failures |-> 0, interval |-> 0, next |-> Len(log')]
  /\ UNCHANGED <<broker, broker_failures>>

Step ==
  \/ CycleBegins
  \/ BackoffEnds
  \/ capture_stores
  \/ capture_answers
  \/ capture_refuses
  \/ capture_fails
  \/ publish_fails
  \/ publish
  \/ IntervalEnds

LoopNext ==
  \/ Run
  \/ CancelTaken
  \/ \E kind \in Kinds : next_event(kind)
  \/ TransientFailure
  \/ PermanentFailure
  \/ Step
  \/ Cancel
  \/ Crash

\* The executor runs a ready task, and select! picks among ready branches at
\* random: a branch that is ready again and again is taken in the end.
LoopFairness == WF_vars(Step) /\ SF_vars(CancelTaken)

LoopSpec == LoopInit /\ [][LoopNext]_vars /\ LoopFairness

-----------------------------------------------------------------------------
(* Properties *)

\* WAL first: across errors and restarts the broker receives answered
\* observations in log order, each at most once, and one that is durable and
\* was never offered to it is the one in hand or the price of one broker
\* error, WAL error or crash.
HolesAreAccounted ==
  LET offered == {broker[i] : i \in DOMAIN broker}
      inHand == IF pc \in {"stored", "publish"} THEN {Len(log)} ELSE {}
      holes == DOMAIN log \ (offered \union inHand)
  IN  /\ offered \subseteq answered
      /\ \A i, j \in DOMAIN broker : i < j => broker[i] < broker[j]
      /\ Cardinality(holes) <= broker_failures + crashes + (IF poisoned THEN 1 ELSE 0)

\* What the loop reports complete is backed by durable observations: a cycle
\* ends when every request of the plan has been answered with a success in it,
\* and an incomplete interval closes, while the process lives, by a success
\* that has gone through WAL and broker.
CompletenessIsBacked ==
  [][/\ pc' = "interval" /\ pc # "interval" => done = 1..Requests
     /\ health.interval > 0 /\ health'.interval = 0 /\ pc' # "off" =>
          /\ broker' # <<>>
          /\ log[broker'[Len(broker')]].kind = "success"
          /\ health'.state = "Healthy"]_vars

\* Cancellation ends the loop however often polls fail or succeed meanwhile.
CancelStops == cancelled ~> pc \in {"stopped", "failed", "off"}
=============================================================================
