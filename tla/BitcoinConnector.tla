--------------------------- MODULE BitcoinConnector ---------------------------
(***************************************************************************)
(* The Bitcoin Core connector (connectors/bitcoin-core): one receiver task    *)
(* per ZMQ topic feeds a bounded channel, and one loop takes notifications    *)
(* from it, looks for gaps in the "sequence" topic, repairs them with an RPC  *)
(* snapshot of the mempool, and captures and publishes everything.  Every     *)
(* error ends the process; the next one is a new session with a new WAL.      *)
(***************************************************************************)
EXTENDS Integers, Sequences, SequencesExt, FiniteSetsExt

CONSTANTS
    Topics,             \* "sequence" and others
    Modulus,            \* transport sequences are u32
    Capacity,           \* of the channel
    MaxNotifications,   \* topic -> bound on its notifications
    MaxSessions,        \* bound on the processes started
    Nothing             \* no notification, no sequence: None

ASSUME ConnectorAssumption ==
    /\ "sequence" \in Topics
    /\ Modulus \in Nat \ {0, 1} /\ Capacity \in Nat \ {0}

VARIABLES
    notified,       \* topic -> notifications the node has sent
    receiving,      \* the topics whose receiver task runs
    channel,        \* notifications on their way to the loop
    main,           \* [at, notification, snapshot, topic_sequences]
    reconciler,     \* MempoolReconciler: [last_sequence, state, open, intervals]
    wal,            \* session -> the records captured
    published       \* session -> the records the broker has

connectorVars == <<notified, receiving, channel, main, reconciler, wal, published>>

session == Len(wal)

transport(notification) == notification.index % Modulus

NewReconciler == [last_sequence |-> Nothing, state |-> "Healthy", open |-> FALSE, intervals |-> 0]

NewMain == [at |-> "recv", notification |-> Nothing, snapshot |-> Nothing,
            topic_sequences |-> [t \in Topics |-> Nothing]]

ConnectorInit ==
    /\ notified = [t \in Topics |-> 0]
    /\ receiving = Topics /\ channel = <<>>
    /\ main = NewMain /\ reconciler = NewReconciler
    /\ wal = <<<<>>>> /\ published = <<<<>>>>

(* The node sends a notification.  It is lost when nobody receives, when the
   channel is full for too long, or on the way. *)
receive_topic(topic) ==
    /\ notified[topic] < MaxNotifications[topic]
    /\ notified' = [notified EXCEPT ![topic] = @ + 1]
    /\ \/ UNCHANGED channel
       \/ /\ topic \in receiving /\ Len(channel) < Capacity
          /\ channel' = Append(channel, [topic |-> topic, index |-> notified[topic]])
    /\ UNCHANGED <<receiving, main, reconciler, wal, published>>

(* A receiver that fails ends; the loop goes on as long as one is left. *)
receiver_stops(topic) ==
    /\ topic \in receiving
    /\ receiving' = receiving \ {topic}
    /\ UNCHANGED <<notified, channel, main, reconciler, wal, published>>

(* MempoolReconciler::observe_sequence, in which Nothing expects nothing. *)
observe_sequence(r, actual) ==
    IF r.state = "AwaitingAlignment"
    THEN [r EXCEPT !.state = "Healthy", !.last_sequence = actual,
                   !.open = FALSE, !.intervals = IF r.open THEN @ + 1 ELSE @]
    ELSE IF r.last_sequence \in {Nothing, actual - 1}
    THEN [r EXCEPT !.last_sequence = actual]
    ELSE [r EXCEPT !.last_sequence = actual, !.state = "Gapped", !.open = TRUE]

(* Mutant: the expected sequence does not wrap. *)
gap_unwrapped(notification) ==
    LET previous == main.topic_sequences[notification.topic]
    IN  previous # Nothing /\ notification.topic = "sequence" /\ transport(notification) # previous + 1

(* The loop's own test, which comes before the reconciler's. *)
gap(notification) ==
    LET previous == main.topic_sequences[notification.topic]
    IN  previous # Nothing /\ notification.topic = "sequence"
           /\ transport(notification) # (previous + 1) % Modulus

(* The loop up to its first await: take a notification and look for a gap. *)
recv ==
    /\ main.at = "recv" /\ channel # <<>>
    /\ channel' = Tail(channel)
    /\ LET n == Head(channel)
           previous == main.topic_sequences[n.topic]
           observed == observe_sequence(observe_sequence(reconciler, previous), transport(n))
           held == [main EXCEPT !.notification = n, !.topic_sequences[n.topic] = transport(n)]
       IN  IF gap(n)
           THEN /\ reconciler' = observed
                /\ main' = [held EXCEPT !.at = IF observed.state = "Gapped" THEN "recover" ELSE "capture"]
           ELSE main' = [held EXCEPT !.at = "capture"] /\ UNCHANGED reconciler
    /\ UNCHANGED <<notified, receiving, wal, published>>

(* MempoolReconciler::recover: the node's mempool now, with its sequence. *)
recover ==
    /\ main.at = "recover"
    /\ main' = [main EXCEPT !.at = "capture_snapshot", !.snapshot = notified["sequence"]]
    /\ reconciler' = [reconciler EXCEPT !.state = "AwaitingAlignment", !.last_sequence = notified["sequence"]]
    /\ UNCHANGED <<notified, receiving, channel, wal, published>>

(* The record that the loop is about to capture. *)
record ==
    IF main.at = "capture_snapshot"
    THEN [sequence |-> Len(wal[session]), kind |-> "snapshot", topic |-> "rpc", index |-> main.snapshot]
    ELSE [sequence |-> Len(wal[session]), kind |-> "notification",
          topic |-> main.notification.topic, index |-> main.notification.index]

Capturing == main.at \in {"capture_snapshot", "capture"}

Publishing == main.at \in {"publish_snapshot", "publish"}

(* CaptureEngine::capture and capture_recovered_mempool_snapshot *)
capture_payload ==
    /\ Capturing
    /\ wal' = [wal EXCEPT ![session] = Append(@, record)]
    /\ main' = [main EXCEPT !.at = IF @ = "capture" THEN "publish" ELSE "publish_snapshot"]
    /\ UNCHANGED <<notified, receiving, channel, reconciler, published>>

publish ==
    /\ Publishing
    /\ published' = [published EXCEPT ![session] = Append(@, Last(wal[session]))]
    /\ main' = IF main.at = "publish_snapshot" THEN [main EXCEPT !.at = "capture"]
               ELSE [main EXCEPT !.at = "recv", !.notification = Nothing, !.snapshot = Nothing]
    /\ UNCHANGED <<notified, receiving, channel, reconciler, wal>>

(* ctrl_c, an error of any call, or a crash; then a new process.  What the
   failed call was writing may have reached the WAL or the broker. *)
restart ==
    /\ session < MaxSessions
    /\ \E captured \in {wal[session]} \union {Append(wal[session], r) : r \in IF Capturing THEN {record} ELSE {}},
          sent \in {published[session]} \union IF Publishing THEN {wal[session]} ELSE {} :
          /\ wal' = Append([wal EXCEPT ![session] = captured], <<>>)
          /\ published' = Append([published EXCEPT ![session] = sent], <<>>)
    /\ receiving' = Topics /\ channel' = <<>>
    /\ main' = NewMain /\ reconciler' = NewReconciler
    /\ UNCHANGED notified

ConnectorNext ==
    \/ \E topic \in Topics : receive_topic(topic) \/ receiver_stops(topic)
    \/ recv \/ recover \/ capture_payload \/ publish \/ restart

-----------------------------------------------------------------------------
(* Between two successive "sequence" notifications in a WAL with others lost
   in between there is one mempool snapshot, taken after the second was sent,
   so that it covers everything lost; and where nothing was lost there is none,
   also where the u32 transport sequence wraps.  (A loss of exactly a multiple
   of 2^32 cannot be seen.)  Each such gap stays a known-incomplete interval,
   and the broker has the same records in the same order, but for the last. *)
GapsRepaired ==
    /\ \A s \in DOMAIN wal : \A i, j \in DOMAIN wal[s] :
          (/\ i < j /\ wal[s][i].topic = "sequence" /\ wal[s][j].topic = "sequence"
           /\ \A k \in i + 1 .. j - 1 : wal[s][k].topic # "sequence")
              => LET snapshots == {k \in i + 1 .. j - 1 : wal[s][k].kind = "snapshot"}
                 IN  IF (wal[s][j].index - wal[s][i].index) % Modulus = 1 THEN snapshots = {}
                     ELSE Cardinality(snapshots) = 1 /\ \A k \in snapshots : wal[s][k].index > wal[s][j].index
    /\ \A s \in DOMAIN wal : IsPrefix(published[s], wal[s]) /\ Len(wal[s]) <= Len(published[s]) + 1
    /\ Cardinality({i \in DOMAIN wal[session] : wal[session][i].kind = "snapshot"})
            + (IF main.at \in {"recover", "capture_snapshot"} THEN 1 ELSE 0)
          = reconciler.intervals + (IF reconciler.open THEN 1 ELSE 0)
=============================================================================
