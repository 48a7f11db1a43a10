----------------------------- MODULE Yellowstone -----------------------------
(***************************************************************************)
(* The bookkeeping of connectors/solana-yellowstone over two provider      *)
(* streams: a SessionCursor per source, which turns lost frames into       *)
(* explicit gaps, and the ProviderReconciler, which compares the blockhash *)
(* that each source claims for a slot.  Refused calls are not steps.       *)
(***************************************************************************)
EXTENDS Naturals, Functions

CONSTANTS
    Sources,        \* the two configured source IDs
    Sessions,       \* session IDs; a new one is drawn at random
    Slots,
    Blockhashes,
    NoHash,
    MaxSequence     \* bound on a session's source_sequence

VARIABLES
    cursor,         \* SessionCursor: source -> [session, last_sequence]
    accepted,       \* the <<source, session, sequence>> that were accepted
    gaps,           \* the SourceGaps reported
    last_slot,      \* ProviderReconciler
    by_slot,        \* slot -> source -> blockhash
    divergences     \* the ProviderDivergences emitted

cursorVars == <<cursor, accepted, gaps>>

providerVars == <<last_slot, by_slot, divergences>>

yellowstoneVars == <<cursorVars, providerVars>>

YellowstoneInit ==
    /\ LET session == CHOOSE f \in Injection(Sources, Sessions) : TRUE
       IN  cursor = [s \in Sources |-> [session |-> session[s], last_sequence |-> 0]]
    /\ accepted = {} /\ gaps = {}
    /\ last_slot = [s \in Sources |-> 0]
    /\ by_slot = [n \in Slots |-> [s \in Sources |-> NoHash]]
    /\ divergences = {}

(* SessionCursor::observe *)
observe_frame(s, sequence) ==
    /\ sequence > cursor[s].last_sequence
    /\ cursor' = [cursor EXCEPT ![s].last_sequence = sequence]
    /\ accepted' = accepted \union {<<s, cursor[s].session, sequence>>}
    /\ gaps' = IF sequence = cursor[s].last_sequence + 1 THEN gaps
               ELSE gaps \union {[source |-> s, session |-> cursor[s].session,
                                  expected |-> cursor[s].last_sequence + 1, observed |-> sequence]}
    /\ UNCHANGED providerVars

(* A random session ID is one that nobody has used. *)
Fresh(session) ==
    /\ \A s \in Sources : cursor[s].session # session
    /\ \A f \in accepted : f[2] # session

(* Mutant: numbering goes on across sessions. *)
reconnect_continues(s, session) ==
    /\ Fresh(session)
    /\ cursor' = [cursor EXCEPT ![s].session = session]
    /\ UNCHANGED <<accepted, gaps, providerVars>>

reconnect(s, session) ==
    /\ Fresh(session)
    /\ cursor' = [cursor EXCEPT ![s] = [session |-> session, last_sequence |-> 0]]
    /\ UNCHANGED <<accepted, gaps, providerVars>>

(* Mutant: compares only the first time both sources have a claim. *)
observe_block_once(s, n, hash) ==
    /\ n >= last_slot[s]
    /\ last_slot' = [last_slot EXCEPT ![s] = n]
    /\ by_slot' = [by_slot EXCEPT ![n][s] = hash]
    /\ divergences' =
          IF by_slot[n][s] = NoHash /\ \A t, u \in Sources : t # u => by_slot'[n][t] \notin {NoHash, by_slot'[n][u]}
          THEN divergences \union {[slot |-> n, claims |-> by_slot'[n]]}
          ELSE divergences
    /\ UNCHANGED cursorVars

(* ProviderReconciler::observe: a source may repeat its latest slot with
   another blockhash, which replaces its claim. *)
observe_block(s, n, hash) ==
    /\ n >= last_slot[s]
    /\ last_slot' = [last_slot EXCEPT ![s] = n]
    /\ by_slot' = [by_slot EXCEPT ![n][s] = hash]
    /\ divergences' =
          IF \A t, u \in Sources : t # u => by_slot'[n][t] \notin {NoHash, by_slot'[n][u]}
          THEN divergences \union {[slot |-> n, claims |-> by_slot'[n]]}
          ELSE divergences
    /\ UNCHANGED cursorVars

CursorNext ==
    \E s \in Sources :
        \/ \E sequence \in 1 .. MaxSequence : observe_frame(s, sequence)
        \/ \E session \in Sessions : reconnect(s, session)

ProviderNext ==
    \E s \in Sources : \E n \in Slots : \E hash \in Blockhashes : observe_block(s, n, hash)

-----------------------------------------------------------------------------
(* Within every session the reported gaps are exactly the frames below the
   last accepted one that were not accepted: nothing is lost in silence, and
   nothing that arrived is reported lost, whatever reconnects happen. *)
GapsAreLosses ==
    \A session \in Sessions :
        LET got == {f[3] : f \in {a \in accepted : a[2] = session}}
        IN  UNION {g.expected .. g.observed - 1 : g \in {h \in gaps : h.session = session}}
               = {n \in 1 .. MaxSequence : n \notin got /\ \E m \in got : m > n}

(* Two sources never disagree about a slot in silence, also when one of them
   has changed its claim in the meantime. *)
DisagreementReported ==
    \A n \in Slots :
        (\A s, t \in Sources : s # t => by_slot[n][s] \notin {NoHash, by_slot[n][t]})
            => [slot |-> n, claims |-> by_slot[n]] \in divergences
=============================================================================
