# Verification of the multichain observation platform

TLA+ models of the platform, TLC configurations that check them on small
instances, and theorems that TLAPS proves for every value of the constants.
`PROJECT.json` is the index: components, runs, mutants, the map from definitions
to source lines, findings, hazards and theorems.

## 1. The system

Connectors receive messages from chain nodes. A message becomes an observation,
which is made durable in a write-ahead log (WAL) before anything else sees it.
Committed observations are published to a broker and archived in object
storage; a WAL segment may be reclaimed once both have it. Processors derive
facts: which blocks are canonical, which outputs are unspent, what is in which
mempool, which alerts fire. Facts are revisions in append-only tables, and
readers select the highest revision.

| Part | Source | Module | Status |
|---|---|---|---|
| observation WAL | `crates/wal` | `Wal` | modelled |
| durable capture | `crates/source-capture` | `SourceCapture`, abstract: `ObservationLog` | modelled |
| polling runtime | `crates/source-runtime` | `SourceLoop` | modelled |
| broker, archive, checkpoints | `services/archive-writer`, `crates/storage-*`, `crates/archive-format` | `ArchivePipeline`, `MemoryArchive`, abstract: `RawArchive` | partly |
| Ethereum, BSC canonicality | `processors/evm-canonicality` | `ExecutionChain`, `EthereumCanonicality`, `BscCanonicality`, abstract: `FinalizedLedger` | modelled |
| Bitcoin canonicality | `processors/bitcoin-canonicality` | `BlockTree`, `UtxoState`, `BitcoinState` | modelled |
| Bitcoin backfill | `processors/bitcoin-canonicality/src/backfill.rs` | `Backfill` | modelled |
| Solana canonicality | `processors/solana-canonicality` | `SolanaCanonicality` | partly |
| Yellowstone connector | `connectors/solana-yellowstone` | `Yellowstone` | partly |
| Bitcoin Core connector | `connectors/bitcoin-core` | `BitcoinConnector` | partly |
| Bitcoin mempools | `processors/bitcoin-mempool` | `ObserverMempool`, `MempoolGraph` | modelled |
| alerts | `processors/alert-engine` | `AlertEvaluator`, `AlertOutbox` | modelled |
| native facts | `processors/native-normalizer`, `crates/fact-envelope` | `FactPipeline` | partly |
| coverage and lineage | `processors/reconciler` | `Reconciler` | modelled |
| decoder registries | `processors/evm-decoder`, `processors/solana-decoder` | `DecoderRegistry` | modelled |
| Ethereum and BSC connectors, domain types, API contract, stream gateway, fixture source, wire types, query API (but for alert previews) | | | not modelled, see 7 |

How they interact in the models:

* `SourceCapture` EXTENDS `Wal`: the capture boundary drives the same segment
  file, with its failures, and is shown to implement `ObservationLog`.
* `SourceLoop` captures through `ObservationLog` (INSTANCE), so what is checked
  of the loop rests on the promise that `SourceCapture` is checked to keep.
* `ArchivePipeline` takes a sealed segment as the range of its committed
  collector sequences, which `Wal` (`CommittedGapFree`) keeps without holes.
* `ArchivePipeline` (its objects and manifest ledger) and `MemoryArchive` are
  both shown to implement `RawArchive`, the promise of the port.
* `EthereumCanonicality` and `BscCanonicality` EXTEND `ExecutionChain` and are
  both shown to implement `FinalizedLedger`.
* `BitcoinState` and `Backfill` are over one `BlockTree`.
* `AlertOutbox` EXTENDS `AlertEvaluator`, whose `evaluate_preview` is also what
  the query API answers: the two are compared.

## 2. Modules and code

Names of actions and operators are those of the code wherever TLA+ allows. A
call that the code refuses before it changes anything is not a step. Definitions
named in a comment that begins with "Mutant" are wrong on purpose: each one
replaces a definition to show that a property notices.

**Wal.** The file is the sequence of frames that a scan would meet, each with
its end offset and an image (good, torn, short). `append`, `group_commit` and
`seal` are split at every write and sync; between any two the process may stop
(page cache kept) or lose power (unsynced frames kept, torn or lost). `Open` is
recovery: it truncates an uncommitted tail or moves the segment to quarantine.
Hashes are injective, so a commit stores what it hashes. Assumed: a successful
sync persists every earlier write; a frame's header is not torn inside a sector;
`open` is one step (a crash inside it is a crash before or after, since every
intermediate file is recovered to the same result: `RecoveryIdempotent`).

**SourceCapture.** One observation is appended and committed a call; a WAL
failure poisons the writer; a new `open` resumes the session. `capture_faults`
lets observation frames be torn and commit records be whole or absent, the case
in which `open` does not quarantine (`NeverQuarantined` checks that); what
happens otherwise is `wal_torn_commit`.

**SourceLoop.** `run_until_cancelled` with its `select!`, the HTTP request plan,
retry and failure paths, incomplete intervals and their closing, publication
after capture, crash and restart. Time is not modelled: a sleep may end at any
moment.

**ArchivePipeline.** `publish_and_archive` of several coordinators, a step for
every await, over the Redpanda producer, the S3 objects, the PostgreSQL manifest
ledger with its advisory lock, and the checkpoints. An error and a crash are the
same action; an effect whose answer was lost is the effect, then the error.

**RawArchive, MemoryArchive.** The port of `storage-ports/src/object_store.rs` as
a ledger: a committed manifest names an object that is stored exactly, extends
the latest and overlaps none. `MemoryArchive` is the archive of the tests, with
callers that keep no order and bytes that are spoilt before verification. It
takes a range that lies before a committed one, which S3 refuses; the port
allows both.

**ExecutionChain, EthereumCanonicality, BscCanonicality.** A block is its hash,
which fixes number and parent. The revisions that calls return are kept as the
status of the highest one for each block, since that is what readers select.

**UtxoState, BitcoinState.** Applying a block runs transaction by transaction on
a value, as the code does on a clone, and may fail in the middle. Amounts are
bounded by `MaxAmount`, in place of `u64::MAX`, with the code's checked
additions. The proof-of-work target a block must have is computed as the code
does: its parent's, or at a retarget height one adjusted by the time its own
branch took for the last interval, with the first block of the interval found by
walking back from the parent. Targets are small numbers (`pow_limit`), the
adjustment is that of the `bitcoin` crate (external), and the hash of a header is
left to `Solved`, the blocks that meet the target they claim.

**Backfill.** Concurrent fetches, ordered archiving and materialisation, a
checkpoint after each, passes that fail or stop at any await, a node that
reorganises at any time. The node and the sink are external: a node follows the
most work, and a sink call that fails may have taken effect.

**SolanaCanonicality, Yellowstone.** The fork graph with commitments, deaths and
the reversible account projection; the session cursors and the comparison of two
providers. Sessions are not reused, as their ids are random.

**BitcoinConnector.** One receiver a topic, the bounded channel, the loop of
`main.rs` with gap detection modulo 2^32 (`Modulus`), recovery snapshots, capture
and publication; every error ends the process and the next is a new session.

**ObserverMempool, MempoolGraph.** Membership epochs with their revisions,
snapshots, health and clock offsets, the aggregate under each policy; spends,
conflicts and packages.

**AlertEvaluator, AlertOutbox.** The evaluator is a function of its state and a
snapshot, and a version of a definition has an evaluator, a state and an audit of
its own. Workers register their definition first; a restart may deploy another
version, or other content under a version that is taken, which is refused.
`DeploymentAssumption` says that two versions differ in content, see 5. The
repository has no driver for the store yet: workers are modelled
from what the store is built for (they repeat a write whose outcome they do not
know and replay the stream after a crash) and are marked external.

**FactPipeline.** The rows of each batch by table, one INSERT a table, and the
consumer of `native-normalizer/src/main.rs` with its asynchronous commit of
offsets. That process handles fixtures only; `insert_bitcoin_batch` and the
others, which only tests call today, are taken to be called from the same loop.
Tables are sets of distinct rows, because readers collapse duplicates; ClickHouse
may merge fixture rows at any time. The checks on a record are modelled: one that
cannot be normalised ends the process, again after each restart. The readers
(`logical_count`, `fact`, the current views, gap detection) are operators over the
tables.

**Reconciler, DecoderRegistry.** Ledgers under every sequence of accepted calls.
The lineage walk is the code's depth-first loop, compared with a reference
definition of ancestors and height for every limit.

## 3. Runs

| Run | Question | Result |
|---|---|---|
| `wal_faults` | does one segment keep acknowledged observations and a gap-free committed order under an I/O error, a power loss and any number of kills, at full capacity and at the end of the sequence space? | holds |
| `wal_torn_commit` | does recovery truncate only an invalid or uncommitted tail? | violated |
| `capture_faults` | does the capture boundary implement an append-only log? | holds |
| `source_loop` | are publications in log order, gaps explicit, the plan covered and cancellation obeyed? | holds |
| `archive_and_facts` | do consumers of committed observations (archive, facts, ledgers) stay consistent when they race, crash and repeat? | holds |
| `archive_hole` | is a segment reclaimable only with complete coverage? | violated |
| `evm_canonicality` | is the canonical chain one chain and finality append-only? | holds |
| `ethereum_finalized_status` | does the current view of a finalized block stay finalized? | violated |
| `bitcoin_chain` | is the UTXO set the heaviest chain's, does every accepted block have the target its branch requires, and does a backfill checkpoint never claim too much? | holds |
| `backfill_unarchived` | is every materialised block archived? | violated |
| `solana` | is the projection reversible and free of dead forks, and no loss or disagreement silent? | holds |
| `mempool_alerts` | is every loss within a session repaired, are memberships what their revisions say, does redeployment keep each version's alerts its own, and is every alert transition delivered, and marked so only then? | holds |

Where one run covers several independent components, its MC module has a
variable (`program` or `mode`) that is chosen in the initial state and never
changes; it says which component moves. The components share no state, so the
run checks each of them separately and their states are not multiplied.

### The four violated properties

* `wal_torn_commit`: a power loss that tears a commit or seal record, which was
  never acknowledged, makes `open` move the whole segment aside, together with
  the observations acknowledged before. ADR 0001 says that recovery "truncates
  only an invalid or uncommitted tail". The observations are not destroyed: that
  is `AckedRetained`, which is checked and proved.
* `archive_hole`: coverage is the last sequence of a checkpoint. A call that
  fails, followed by the next batch, leaves a hole below both checkpoints.
  `ReclaimSafe` holds in `archive_and_facts` for callers that wait for an Ok
  before they hand over what comes next (`AwaitOk`); nothing in the code asks
  that of them.
* `ethereum_finalized_status`: after a reorg has dropped the safe checkpoint, a
  checkpoint with safe = finalized = the finalized block gives that block a newer
  revision with status safe. The tracker's own state is right
  (`FinalizedCanonical`, proved); the emitted revisions are not.
* `backfill_unarchived`: a pass decides by height whether a block is archived,
  and after a reorganisation another block has that height.

### Bounds

* WAL: one payload kind, frames of two units in a segment of twelve, sequence
  numbers up to 3 (`MaxU64`): large enough for three commits, or for four
  observations and a commit that recovery refuses at the last number; small enough
  that the reserve, a full segment and an exhausted sequence space occur. One
  quarantined segment, one I/O error and one power loss; kills are not bounded. Capture: eight frames
  (16 units), two payloads, two I/O errors, a power loss.
* Loop: a plan of two requests, three answers, two failures in a row, one broker
  failure, two crashes: an interval is opened, interrupted and closed.
* Archive: two coordinators, three records over an hour boundary, every cut, two
  faults; in memory, three single records and a range over two of them, so that a
  range may be left behind and come later. Facts: three logs (Bitcoin blocks and
  fixtures, revised and repeated; EVM and Solana, an account write that then dies;
  a record without a payload and one that cannot be normalised),
  two consumers, one failure. Ledgers: two keys, four revisions; four lineage nodes (a diamond)
  with every depth and node limit; two deployments and two attempts over three
  slots, the last of which is the maximum.
* EVM: eight blocks with two roots and forks at two heights, segments of three.
* Bitcoin: sixteen blocks in five branches, intervals of two blocks (so that
  branches retarget twice and to different targets), some of which fail in the
  middle of a block (a missing output, one that is there already, outputs or
  inputs above `MaxAmount` = 3, a negative fee), or by a target that is not the
  required one or that the hash misses; two win by work and not by height.
  Backfill: three heights, two in flight, two faults.
* Solana: four forks, two accounts; sessions of four sequences for two sources.
* Mempool: two observers, one of which goes through good and bad health with good
  and bad clocks, two transactions; four transactions in the graph; three
  sequence numbers (so that they wrap) and a channel of two. Alerts: two versions
  and an edited first one; six snapshots for the evaluator alone, two while
  workers are redeployed, three with two deliverers; two workers, two faults.

No symmetry is used: the runs have liveness properties or ordered constants.
`CHECK_DEADLOCK FALSE` is set where inputs are bounded or the system may stop;
`archive_and_facts` and `capture_faults` check deadlock (bounded programs of the
former may stutter, the archive may not).

### Fairness

* `SourceLoop`: weak fairness of the loop's own steps, as the executor runs a
  ready task; strong fairness of the cancellation branch, as `select!` picks
  among ready branches at random.
* `ArchivePipeline`: an await is answered in the end, with an error at worst;
  PostgreSQL grants a lock that is asked for again and again; a caller hands a
  batch over until it gets an Ok. The last is the caller's duty and not in the
  code: `PersistentCallersSucceed` says what follows from it.
* `FactPipeline`: a consumer that is not stopped goes on, and the broker gets to
  its commits. Failures are bounded.
* `Backfill`: a pass goes on, and an operator starts another one after a failure.
* `AlertOutbox`: deliverers go on; failures are bounded.

### What the properties say

* WAL: `AckedRetained` (what was acknowledged is intact somewhere, whatever
  fails), `CommittedGapFree` (committed sequences are 0, 1, 2, ...),
  `RecoveryIdempotent` (a crash during recovery is harmless).
* Capture: `NeverQuarantined`, and `CaptureImplementsLog`, the refinement of
  `ObservationLog`, in which no answered position is lost or used again.
* Loop: `HolesAreAccounted` (log order, and each unpublished observation has a
  fault to show for it), `CompletenessIsBacked` (cycles and intervals end on
  durable successes), `CancelStops`.
* Archive: `ArchivesImplementContract`, the refinement of `RawArchive` by both
  archives; `OkIsDurable`, `ReclaimSafe`, `PersistentCallersSucceed`. Facts:
  `AcknowledgedIsWhole` (no acknowledged record is partly there, or could not be
  normalised), `ReadersAreExact` (answers are determined by what was taken,
  whatever was repeated or merged), `RecordsNormalized`.
  Ledgers: `RecoveryNamesItsGap`, `TraceIsExact`, `AttemptsStayValid`.
* EVM: `CanonicalChain`, `RevisionsTellCanonical` (revisions tell readers the
  chain), `CheckpointsOrdered` (Ethereum), `FinalRevisionsStay` (BSC), and
  `FinalityIsAppendOnly`, the refinement of `FinalizedLedger`.
* Bitcoin: `StateOfChain` (tip, UTXO set, undo data and revisions belong to one
  chain, the heaviest), `RefusedBlockUndone` (a refused block leaves no trace, but see 5),
  `TargetsFollowEpochs` (each accepted
  block has the target computed along its own branch). Backfill: `CheckpointCovered`,
  `UnchangedTipIsExact` (of one job: `start` persists nothing, so a job lost before
  its first checkpoint is begun anew), `Finishes`.
* Solana: `ProjectionIsReplay`, `DeadForksExcluded`; Yellowstone:
  `GapsAreLosses`, `DisagreementReported`.
* Mempool: `ReplayGivesMembers`, `AggregateIsSound` (a first-seen time is an
  arrival that an observer with a good clock saw in the open epoch, whatever its
  health, as `tests/aggregate.rs:45-59` has it; unhealthy observers count for
  nothing in the verdict of a policy), `GraphIsExact`; connector: `GapsRepaired`
  (of losses within one session, see 5 for those across a restart); alerts: `StateIsReplay` (what is
  stored for a version is one undisturbed pass, and what a preview answers but for
  duplicate revisions), `AlertsFollowRule`, `AlertsDelivered` (every row is
  delivered in the end, and none is marked so before the sink has it).

## 4. Proofs

`WalProofs` proves **AckedNeverDestroyed**: `Spec => []AckedRetained`, from
`SizesAssumption` and `BoundsAssumption`, for every set of payloads, sizes and
numbers of failures. `AckedRetained` is not inductive: what protects an
acknowledged observation is its position. `WalInv` adds that it sits before a
commit record within the synced prefix (`Intact`), that frames inside that prefix
are never short, that the frames a commit is about to cover are good
observations, and that every quarantined segment keeps its own. Then
`FinishReportBounds` shows that recovery never cuts below the last commit, and
one lemma for each action (`OpenPreserves`, `QuarantinePreserves`,
`PowerLossPreserves`, `CommitAcksPreserves`, ...) gives the step.

`ExecutionChainProofs` and `EvmProofs` prove, for every tree of blocks and every
segment length (`ChainAssumption`):

* **EthereumChain**: the canonical blocks are one linked chain up to the head.
  The difficult case is `ReorgKeepsChain`: the retracted segment is the whole top
  of the chain (`ReorgBelow`), so what is left is linked to the new segment.
* **EthereumFinality**, **BscFinality**: no call takes the finalized block off
  the chain. `FinalInv` joins this to the shape of the chain, without which it is
  not inductive: only because the chain is linked does a retracted segment above
  the finalized number not contain the finalized block.
* **EthereumImplementsLedger**, **BscImplementsLedger**: both refine
  `FinalizedLedger` under `final <- ` the canonical blocks up to the finalized
  one; commits and reorgs are stutters, checkpoints and reports are `Finalize`.
* **BscFinalStatusStays**: a block that was reported final keeps that status in
  its highest revision; `StatusInv` locates such blocks in the final chain. The
  same statement is false for Ethereum (`ethereum_finalized_status`).

Only model-checked: all liveness properties (TLAPS has neither fairness nor
ENABLED here); what recursive definitions compute (`Reconciler`'s walk,
`UtxoState`'s application of a block), since induction over data is out of
reach; and every safety property not listed above.

## 5. Disagreements without a run

Met while modelling, and recorded for whoever works on the code:

* Bitcoin connector: the sequence is observed by the reconciler only at a gap, so
  an interval closes only at the next gap (`infra/runbooks/bitcoin-zmq-gap.md:20`
  expects otherwise); gaps of `rawtx` and `rawblock` are not looked at (`:5`); a
  receiver that stops is not noticed while others run (`main.rs:99-116`); a
  record that is committed to the WAL and not published when the process ends is
  never published.
* Bitcoin connector: a new process keeps no sequence of the one before, so what is
  lost between two sessions gets no snapshot and no incomplete interval
  (`main.rs:65`, `:108`), where the runbook treats "a subscriber reconnect as a
  known source gap" (`infra/runbooks/bitcoin-zmq-gap.md:6-7`).
* Bitcoin UTXO set: an entry is taken before its amount is added to the others
  (`utxo.rs:206-216`), so a block refused because its inputs overflow a `u64` is
  not undone, where `utxo.rs:84` says "atomically"; `RefusedBlockUndone` excludes
  this case alone. `observe_block` works on clones and drops them.
* Alerts: a duplicate revision is answered without consulting the evaluator's
  state, and persisting it after the original is `EvaluationConflict`, where
  `docs/data-catalog/alerts-bitcoin-v1.md` says that exact replay is idempotent;
  a retraction may be delivered before the retry of the trigger it retracts.
* Alerts: `evaluation_id` and `idempotency_key` digest a definition's content and
  not its version, and are primary keys. Two versions with the same content that
  evaluate one snapshot collide, and the second gets a storage error, where
  `processors/alert-engine/tests/postgres_alert_outbox.rs:86` says "new version
  audit is isolated". `DeploymentAssumption` excludes this.
* Bitcoin connector: a second gap overwrites the start of the interval that is
  open (`connectors/bitcoin-core/src/reconcile.rs:74`); the runbook opens it "with
  the first detected time".
* ADR 0003 derives epoch ids otherwise than the code (source, txid, number).
* Native normaliser: the process ends at a record that does not normalise and
  meets it again after each restart; two observations of one fixture are both
  revision 1, so which one a reader sees is not determined by the revision; ADR
  0002 calls a different payload for one `(fact_key, revision)` "a hard conflict".
* EVM facts: `EvmFactContext` and `docs/data-catalog/evm-v1.md` say `included`
  where the trackers' `as_str` gives `included_candidate`: a revision so named
  cannot be normalised (the third log of `MCArchivePipeline`).
* Solana facts: the current view of account writes hides an account whose highest
  revision is dead, an older live write included, where
  `docs/data-catalog/solana-v1.md` excludes "Dead-fork account revisions".
* Lineage: the depth of a node is that of the first path the walk takes, so a
  trace may be refused although a shorter path is within the limit
  (`TraceIsExact` therefore asks that every path is).
* EVM decoders: `record_unknown` does not look whether a deployment covers.
* Solana: `mark_dead` emits one revision for a whole subtree; a dead root cannot
  be replaced.

## 6. Plan

Done: all modules above, their runs, and the proofs of section 4. Next, in
this order:

1. *Extend.* `recover_blocks_to_ancestor` and `HealthTracker` of the Bitcoin
   connector, and `ConsensusCursor` of the beacon connector, once a loop uses
   them; sealing, archiving and reclaiming as one composition, once code outside
   the tests wires the WAL to the archive; BSC's `finality_health` and the quality
   of an aggregate view, which are queries over state that is modelled.
2. *Prove.* `CaptureImplementsLog` from an invariant over `WalInv`;
   `OkIsDurable` of `ArchivePipeline` and its refinement of `RawArchive`, and that
   of `MemoryArchive`;
   `ReplayGivesMembers` of `ObserverMempool`; `RecoveryNamesItsGap` and
   `AttemptsStayValid` of the ledgers (after the recursive walk has moved to a
   module of its own); `RevisionsTellCanonical` of `ExecutionChain`.

## 7. Not modelled

* Parsing, hashing, encoding and configuration: `*-domain` crates, connectors'
  JSON and protobuf, `observation-envelope`, `api-contract`. They validate one
  value and keep no state, so a model of them would restate their conditions; the
  modules take valid values as inputs.
* `query-api` (but for previews of alerts) and `stream-gateway`: stateless reads.
* The Ethereum and BSC connectors: request plans and parsing around the loop that
  `SourceLoop` models. The repository does not wire their cursor to a tracker.
* Reclaiming a segment: the decision is modelled (`ensure_reclaimable`), but no
  code outside the tests deletes a segment or hands one to the archive.
* `fixture-source`: one call each of `append`, `group_commit` and `seal`.
* The broker and the checkpoint store in memory: single-lock versions of what
  `ArchivePipeline` models, without failures.
* Generated code, telemetry and test helpers.
