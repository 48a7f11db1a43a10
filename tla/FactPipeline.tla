---------------------------- MODULE FactPipeline ----------------------------
(***************************************************************************)
(* The normalisation of committed observations into ClickHouse facts          *)
(* (processors/native-normalizer/src) and the queries that read them back.     *)
(* A record of the broker becomes a batch of rows for several tables, one      *)
(* INSERT request a table, in a fixed order and without a transaction; tables  *)
(* only ever get more rows.                                                   *)
(*                                                                          *)
(* A consumer is the loop of native-normalizer/src/main.rs: it takes the next  *)
(* record, inserts its rows, and commits the offset without waiting for the    *)
(* broker; an error ends the process, one of normalisation included, and it is *)
(* started again at the last offset the broker knows.  That process handles    *)
(* fixtures; insert_*_batch, documented to keep a caller that gets an error    *)
(* from acknowledging, is taken to be called from the same loop.  Two          *)
(* consumers may be at work on the same record.                               *)
(***************************************************************************)
EXTENDS Integers, Sequences, FiniteSets, SequencesExt, FiniteSetsExt, TLC

CONSTANTS
    Logs,           \* what may be on the broker, in the order of the offsets
    Consumers,
    MaxFailures     \* bound on failed requests and crashes

VARIABLES
    log,            \* the log of this behaviour
    tables,         \* table -> its distinct rows; readers count no row twice
    offset,         \* the records acknowledged
    taken,          \* the records some consumer has taken at some time
    consuming,      \* consumer -> [record, table]: the last record it took, the
                    \* next table it fills; table is 0 between records, and
                    \* record too before the first of a process
    commits,        \* consumer -> the offset it has asked to be committed, 0 for none
    failures

factVars == <<log, tables, offset, taken, consuming, commits, failures>>

-----------------------------------------------------------------------------
(* From a record to its rows.  A record has the collector sequence of its
   observation, and its observation's identity and time. *)

Canonicalities == {"candidate", "canonical", "non_canonical"}

(* BitcoinFactContext::new *)
BitcoinFactContext(r) == r.revision # 0 /\ r.canonicality \in Canonicalities

(* EvmFactContext::new: each chain has its own words for finality. *)
EvmFactContext(r) ==
    /\ r.revision # 0 /\ r.canonicality \in Canonicalities
    /\ r.status \in {"pending", "included", "canonical_head", "reorged"}
                     \union (IF r.network = "ethereum" THEN {"safe", "finalized"} ELSE {"fast_finalized"})
    /\ (r.canonicality = "non_canonical") = (r.status = "reorged")

(* SolanaFactContext::new *)
SolanaFactContext(r) ==
    /\ r.revision # 0
    /\ r.canonicality \in CASE r.status = "dead" -> {"non_canonical"}
                            [] r.status = "received" -> {"candidate"}
                            [] r.status = "processed" -> {"candidate", "canonical"}
                            [] r.status \in {"confirmed", "finalized"} -> {"canonical"}
                            [] OTHER -> {}

(* normalize_fixture: the payload repeats the sequence of its envelope. *)
normalize_fixture(r) == r.source_sequence = r.payload_sequence

(* Whether a record becomes a batch; if not, the process ends with an error. *)
Normalizes(r) ==
    CASE r.kind = "bitcoin" -> BitcoinFactContext(r)
      [] r.kind = "evm" -> EvmFactContext(r)
      [] r.kind \in {"solana", "solana_write"} -> SolanaFactContext(r)
      [] r.kind = "fixture" -> normalize_fixture(r)
      [] r.kind = "no_payload" -> TRUE

(* What every row says of its record: the block, transaction or account, the
   revision of its status and the observation it is from. *)
Row(r, index) ==
    [subject |-> r.subject, revision |-> r.revision, canonicality |-> r.canonicality, status |-> r.status,
     observation |-> r.observation, recorded_at |-> r.recorded_at, index |-> index]

(* BitcoinFactBatch::from_block; a transaction is its numbers of inputs and
   outputs, and the index of a block's row is its transaction_count. *)
BitcoinFactBatch(r) ==
    LET txs == DOMAIN r.transactions
    IN  [bitcoin_blocks |-> {Row(r, <<Len(r.transactions)>>)},
         bitcoin_transactions |-> {Row(r, <<i>>) : i \in txs},
         bitcoin_inputs |-> UNION {{Row(r, <<i, j>>) : j \in 1 .. r.transactions[i][1]} : i \in txs},
         bitcoin_outputs |-> UNION {{Row(r, <<i, j>>) : j \in 1 .. r.transactions[i][2]} : i \in txs}]

(* EvmFactBatch::from_block; a transaction is the number of its receipt's logs. *)
EvmFactBatch(r) ==
    LET txs == DOMAIN r.transactions
    IN  [evm_blocks |-> {Row(r, <<>>)},
         evm_transactions |-> {Row(r, <<i>>) : i \in txs},
         evm_receipts |-> {Row(r, <<i>>) : i \in txs},
         evm_logs |-> UNION {{Row(r, <<i, j>>) : j \in 1 .. r.transactions[i]} : i \in txs}]

(* SolanaFactBatch::from_transaction; inner instructions are pairs of an outer
   and an inner index. *)
SolanaFactBatch(r) ==
    [solana_transactions |-> {Row(r, <<>>)},
     solana_instructions |-> {Row(r, <<i>>) : i \in 1 .. r.instructions} \union {Row(r, path) : path \in r.inner},
     solana_logs |-> {Row(r, <<i>>) : i \in 1 .. r.logs},
     solana_balance_changes |-> {Row(r, <<i>>) : i \in 1 .. r.accounts},
     solana_token_balance_changes |-> {Row(r, <<i>>) : i \in r.token_accounts},
     solana_account_writes |-> {}]

(* SolanaFactBatch::from_account_write *)
SolanaAccountWriteBatch(r) ==
    [t \in {"solana_transactions", "solana_instructions", "solana_logs", "solana_balance_changes",
            "solana_token_balance_changes"} |-> {}] @@ [solana_account_writes |-> {Row(r, <<>>)}]

(* fixture_fact_id: a digest of fact key, revision and observation. *)
fixture_fact_id(r) == <<r.subject, 1, r.observation>>

(* build_fact: the revision is always 1. *)
FixtureFact(r) ==
    [fixture_facts |-> {[subject |-> r.subject, revision |-> 1, fact_id |-> fixture_fact_id(r), value |-> r.value,
                         recorded_at |-> r.recorded_at]}]

Batch(r) ==
    CASE r.kind = "bitcoin" -> BitcoinFactBatch(r)
      [] r.kind = "evm" -> EvmFactBatch(r)
      [] r.kind = "solana" -> SolanaFactBatch(r)
      [] r.kind = "solana_write" -> SolanaAccountWriteBatch(r)
      [] r.kind = "fixture" -> FixtureFact(r)

(* The tables in the order in which insert_*_batch fills them. *)
insert_bitcoin_batch == <<"bitcoin_blocks", "bitcoin_transactions", "bitcoin_inputs", "bitcoin_outputs">>

(* Mutant: receipts are forgotten. *)
insert_evm_batch_without_receipts == <<"evm_blocks", "evm_transactions", "evm_logs">>

insert_evm_batch == <<"evm_blocks", "evm_transactions", "evm_receipts", "evm_logs">>

insert_solana_batch ==
    <<"solana_transactions", "solana_instructions", "solana_logs", "solana_balance_changes",
      "solana_token_balance_changes", "solana_account_writes">>

Order(r) ==
    CASE r.kind = "bitcoin" -> insert_bitcoin_batch
      [] r.kind = "evm" -> insert_evm_batch
      [] r.kind \in {"solana", "solana_write"} -> insert_solana_batch
      [] r.kind = "fixture" -> <<"fixture_facts">>

HasRows(r) == r.kind # "no_payload" /\ Normalizes(r)

(* The batch and the order of the tables for each record of each log. *)
BatchOf == [l \in Logs |-> [i \in {j \in DOMAIN l : HasRows(l[j])} |-> Batch(l[i])]]

OrderOf == [l \in Logs |-> [i \in {j \in DOMAIN l : HasRows(l[j])} |-> Order(l[i])]]

TableNames == UNION {UNION {DOMAIN BatchOf[l][i] : i \in DOMAIN BatchOf[l]} : l \in Logs}

Started == [record |-> 0, table |-> 0]

FactInit ==
    /\ log \in Logs
    /\ tables = [t \in TableNames |-> {}]
    /\ offset = 0
    /\ taken = 0
    /\ consuming = [c \in Consumers |-> Started]
    /\ commits = [c \in Consumers |-> 0]
    /\ failures = 0

-----------------------------------------------------------------------------
(* The loop of main *)

(* recv: the record after the last one taken; for a new process, after the last
   one committed.  A record without a payload is passed over, uncommitted; one
   that cannot be normalised ends the process, which is started again, and what
   it asked to be committed may be lost. *)
Poll(c) ==
    LET next == 1 + IF consuming[c] = Started THEN offset ELSE consuming[c].record
    IN  /\ consuming[c].table = 0 /\ next <= Len(log)
        /\ taken' = Max({taken, next})
        /\ IF Normalizes(log[next])
           THEN /\ consuming' = [consuming EXCEPT ![c] = [record |-> next, table |-> IF HasRows(log[next]) THEN 1 ELSE 0]]
                /\ UNCHANGED commits
           ELSE /\ consuming' = [consuming EXCEPT ![c] = Started]
                /\ commits' = [commits EXCEPT ![c] = 0]
        /\ UNCHANGED <<log, tables, offset, failures>>

(* Mutant: a table without rows is an error. *)
insert_json_rows_not_empty(c) ==
    LET r == consuming[c].record
    IN  /\ consuming[c].table # 0 /\ consuming[c].table <= Len(OrderOf[log][r])
        /\ LET t == OrderOf[log][r][consuming[c].table]
           IN  BatchOf[log][r][t] # {} /\ tables' = [tables EXCEPT ![t] = @ \union BatchOf[log][r][t]]
        /\ consuming' = [consuming EXCEPT ![c].table = @ + 1]
        /\ UNCHANGED <<log, offset, taken, commits, failures>>

(* The rows of one table go in one request; a table without rows has none. *)
insert_json_rows(c) ==
    LET r == consuming[c].record
    IN  /\ consuming[c].table # 0 /\ consuming[c].table <= Len(OrderOf[log][r])
        /\ LET t == OrderOf[log][r][consuming[c].table]
           IN  tables' = [tables EXCEPT ![t] = @ \union BatchOf[log][r][t]]
        /\ consuming' = [consuming EXCEPT ![c].table = @ + 1]
        /\ UNCHANGED <<log, offset, taken, commits, failures>>

(* A request fails, or the process crashes, and it is started again; a request
   that had its effect and was not answered is insert_json_rows and then this.
   What it asked to be committed may be lost. *)
RequestFails(c) ==
    /\ failures < MaxFailures /\ failures' = failures + 1
    /\ consuming' = [consuming EXCEPT ![c] = Started]
    /\ commits' = [commits EXCEPT ![c] = 0]
    /\ UNCHANGED <<log, tables, offset, taken>>

(* The insert returned Ok: commit_message with CommitMode::Async. *)
commit_message(c) ==
    /\ consuming[c].table # 0 /\ consuming[c].table > Len(OrderOf[log][consuming[c].record])
    /\ commits' = [commits EXCEPT ![c] = consuming[c].record]
    /\ consuming' = [consuming EXCEPT ![c].table = 0]
    /\ UNCHANGED <<log, tables, offset, taken, failures>>

(* The broker gets to the commit; it keeps the offset of the consumer that is
   ahead. *)
Committed(c) ==
    /\ commits[c] # 0
    /\ offset' = Max({offset, commits[c]})
    /\ commits' = [commits EXCEPT ![c] = 0]
    /\ UNCHANGED <<log, tables, taken, consuming, failures>>

(* ClickHouse merges parts of fixture_facts, a ReplacingMergeTree: of two rows
   with the same key, one of the highest revision stays. *)
Merge ==
    \E kept, dropped \in tables["fixture_facts"] :
        /\ kept # dropped /\ kept.fact_id = dropped.fact_id /\ kept.revision >= dropped.revision
        /\ tables' = [tables EXCEPT !["fixture_facts"] = @ \ {dropped}]
        /\ UNCHANGED <<log, offset, taken, consuming, commits, failures>>

FactNext ==
    \/ \E c \in Consumers : Poll(c) \/ insert_json_rows(c) \/ RequestFails(c) \/ commit_message(c) \/ Committed(c)
    \/ Merge

-----------------------------------------------------------------------------
(* What readers are answered *)

(* logical_count: the distinct fact_ids of a fixture. *)
logical_count(fixture) ==
    Cardinality({row.fact_id : row \in {q \in tables["fixture_facts"] : q.subject = fixture}})

(* query_one of fact: any row of the highest revision may be the answer; the
   view leaves out the times. *)
fact(fact_id) ==
    LET rows == {q \in tables["fixture_facts"] : q.fact_id = fact_id}
    IN  {<<row.subject, row.revision, row.value>> : row \in {q \in rows : \A p \in rows : p.revision <= q.revision}}

(* Mutant: the row that was recorded last is the current one. *)
current_status_by_time(table, subject) ==
    LET rows == {q \in tables[table] : q.subject = subject}
    IN  {<<row.revision, row.canonicality, row.status>> :
            row \in {q \in rows : \A p \in rows : p.recorded_at <= q.recorded_at}}

(* The *_current views: argMax(..., revision) for each column, so any of several
   rows of the highest revision may give it; an account whose highest revision
   is dead is left out. *)
current_status(table, subject) ==
    LET rows == {q \in tables[table] : q.subject = subject}
        last == {q \in rows : \A p \in rows : p.revision <= q.revision}
    IN  {<<row.revision, row.canonicality, row.status>> :
            row \in {q \in last : table = "solana_account_writes" => q.status # "dead"}}

(* detect_collector_gap and detect_sequence_gaps *)
detect_collector_gap(previous, next) ==
    IF next <= previous + 1 THEN {} ELSE {[missing_first |-> previous + 1, missing_last |-> next - 1]}

detect_sequence_gaps(sequences) ==
    LET ordered == SetToSortSeq(Range(sequences), <)
    IN  UNION {detect_collector_gap(ordered[i], ordered[i + 1]) : i \in 1 .. Len(ordered) - 1}

-----------------------------------------------------------------------------
(* Whatever failed, was repeated or ran twice, an acknowledged record was one
   that can be normalised and has all the rows of its batch (a fact that was
   merged is there once), and a Bitcoin block's transaction_count is the number
   of its transactions' rows.  So a record that cannot be normalised, and with
   it every later one, is never acknowledged. *)
AcknowledgedIsWhole ==
    \A i \in 1 .. offset :
        /\ Normalizes(log[i])
        /\ log[i].kind = "fixture" => \E row \in tables["fixture_facts"] : row.fact_id = fixture_fact_id(log[i])
        /\ HasRows(log[i]) /\ log[i].kind # "fixture" =>
             \A t \in DOMAIN BatchOf[log][i] : BatchOf[log][i][t] \subseteq tables[t]
        /\ log[i].kind = "bitcoin" =>
             \A block \in BatchOf[log][i].bitcoin_blocks :
                block.index[1] = Cardinality({row \in tables["bitcoin_transactions"] :
                    row.subject = block.subject /\ row.revision = block.revision
                    /\ row.observation = block.observation /\ row.recorded_at = block.recorded_at})

(* The table a reader asks for the status of a record's subject. *)
StatusTable(r) == IF r.kind = "solana_write" THEN "solana_account_writes" ELSE Order(r)[1]

(* What readers are answered is determined by what was taken, although records
   come again, out of order and while others read: the current status of an
   acknowledged subject is that of its highest revision so far, a fact and the
   number of a fixture's facts do not change when a record comes again or rows
   are merged ("logical truth is immediately idempotent"), and the gaps among
   the collector sequences are exactly the ones that have not come. *)
ReadersAreExact ==
    /\ \A i \in {j \in 1 .. offset : HasRows(log[j]) /\ log[j].kind # "fixture"} :
        \E k \in {j \in 1 .. taken : HasRows(log[j]) /\ log[j].kind = log[i].kind} :
            /\ log[k].subject = log[i].subject /\ log[k].revision >= log[i].revision
            /\ current_status(StatusTable(log[i]), log[i].subject) =
                (IF log[k].kind = "solana_write" /\ log[k].status = "dead" THEN {}
                 ELSE {<<log[k].revision, log[k].canonicality, log[k].status>>})
    /\ \A i \in {j \in 1 .. offset : log[j].kind = "fixture"} :
        LET seen(n) == {log[j].observation : j \in {m \in 1 .. n : log[m].kind = "fixture" /\ log[m].subject = log[i].subject}}
        IN  /\ fact(fixture_fact_id(log[i])) = {<<log[i].subject, 1, log[i].value>>}
            /\ logical_count(log[i].subject) \in Cardinality(seen(offset)) .. Cardinality(seen(taken))
    /\ LET sequences == [i \in 1 .. taken |-> log[i].sequence]
       IN  taken > 0 =>
            UNION {g.missing_first .. g.missing_last : g \in detect_sequence_gaps(sequences)}
                = (Min(Range(sequences)) .. Max(Range(sequences))) \ Range(sequences)

(* The records ahead of the first that cannot be normalised. *)
Clear == Max({n \in 0 .. Len(log) : \A i \in 1 .. n : Normalizes(log[i])})

(* When consumers go on, the rows of every record ahead of the first that cannot
   be normalised get into the tables, a batch with empty tables included; and
   where there is no such record, all are acknowledged up to the last that has a
   payload. *)
EverythingNormalized ==
    /\ <>(\A i \in 1 .. Clear : HasRows(log[i]) /\ log[i].kind # "fixture" =>
            \A t \in DOMAIN BatchOf[log][i] : BatchOf[log][i][t] \subseteq tables[t])
    /\ <>(Clear = Len(log) => \A i \in offset + 1 .. Len(log) : log[i].kind = "no_payload")
=============================================================================
