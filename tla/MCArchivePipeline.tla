-------------------------- MODULE MCArchivePipeline --------------------------
(* Instances of the consumers of committed observations: the archive, the fact
   pipeline, and the ledgers kept beside the facts (coverage, lineage, decoder
   deployments).  Which of them runs is chosen at the start. *)
EXTENDS ArchivePipeline, MemoryArchive, FactPipeline, Reconciler, DecoderRegistry

CONSTANTS w1, w2, c1, c2, k1, k2, e1, p1, v1, v2

VARIABLE program

MCvars == <<vars, memoryVars, factVars, reconcilerVars, decoderVars, program>>

-----------------------------------------------------------------------------
(* Three records, the last in the next hour. *)
Hours == (0 :> 10) @@ (1 :> 10) @@ (2 :> 11)

(* Every range a caller could cut out of the segment. *)
AllBatches == {b \in [first : 0 .. 2, last : 0 .. 2] : b.first <= b.last}

(* One fixed cut of the segment. *)
FixedBatches == {[first |-> 0, last |-> 1], [first |-> 2, last |-> 2]}

(* Callers either cut as they like ("archive"), or keep to one cut and do not
   give up ("persistent"). *)
ArchiveNext ==
    \E w \in Workers :
        \/ \E b \in Batches : (program = "persistent" => b \in FixedBatches) /\ Submit(w, b)
        \/ Call(w)
        \/ Fails(w)

(* Fairness of ArchivePipeline, for the batches of persistent callers. *)
PersistentCallers ==
    /\ \A w \in Workers :
        /\ WF_vars(program = "persistent" /\ Call(w))
        /\ SF_vars(program = "persistent" /\ lock_manifest_session(w))
    /\ \A b \in FixedBatches :
        SF_vars(program = "persistent" /\ b \notin finished /\ \E w \in Workers : Submit(w, b))

(* EventuallyReclaimable, for persistent callers. *)
PersistentCallersSucceed == program = "persistent" => EventuallyReclaimable

(* Each record by itself, so that a range may be left behind, and one range
   over the first two. *)
MemoryRanges == {b \in AllBatches : b.first = b.last \/ b = [first |-> 0, last |-> 1]}

AllManifests == [batch : AllBatches, previous : 0 .. 3]

S3RawArchive == INSTANCE RawArchive WITH Manifests <- AllManifests, intact <- objects, ledger <- manifests

MemoryRawArchive ==
    INSTANCE RawArchive WITH Manifests <- AllManifests, intact <- {b \in Ranges : staged[b] = "exact"}, ledger <- committed

(* Both archives keep the promise of the port.  Whatever coordinators race and
   die, validate_database_manifest_chain under the session's lock makes the
   ledger one chain of disjoint ranges that only grows, each over an object
   that is in the bucket; and so does the archive in memory, for callers that
   keep no order and with bytes spoilt between staging and verification. *)
ArchivesImplementContract == S3RawArchive!RawArchiveSpec /\ MemoryRawArchive!RawArchiveSpec

-----------------------------------------------------------------------------
(* Three logs.  In the first a Bitcoin block is disconnected, its first record
   comes again and was recorded later, and so does a fixture; a sequence comes
   late.  The second has an EVM block without logs and both kinds of Solana
   record, the fork of the account write then dead.  In the third a record
   without a payload is followed by an EVM block with a status in the words of
   the canonicality tracker, which the normaliser does not know. *)
BrokerLogs ==
    LET bitcoin == [kind |-> "bitcoin", sequence |-> 1, subject |-> "b1", revision |-> 1, canonicality |-> "canonical",
                    status |-> "none", observation |-> "o1", recorded_at |-> 1, transactions |-> <<<<1, 1>>, <<1, 2>>>>]
        fixture == [kind |-> "fixture", sequence |-> 4, subject |-> "f1", observation |-> "o2", recorded_at |-> 1,
                    value |-> "x", source_sequence |-> 7, payload_sequence |-> 7]
        evm == [kind |-> "evm", sequence |-> 3, network |-> "ethereum", subject |-> "e1", revision |-> 1,
                canonicality |-> "canonical", status |-> "safe", observation |-> "o3", recorded_at |-> 1,
                transactions |-> <<0>>]
        write == [kind |-> "solana_write", sequence |-> 6, subject |-> "a1", revision |-> 1, canonicality |-> "canonical",
                  status |-> "confirmed", observation |-> "o5", recorded_at |-> 1]
    IN  {<<bitcoin, fixture,
           [bitcoin EXCEPT !.sequence = 2, !.revision = 2, !.canonicality = "non_canonical", !.observation = "o6"],
           [bitcoin EXCEPT !.recorded_at = 2], [fixture EXCEPT !.recorded_at = 2]>>,
         <<evm,
           [kind |-> "solana", sequence |-> 5, subject |-> "s1", revision |-> 1, canonicality |-> "candidate",
            status |-> "processed", observation |-> "o4", recorded_at |-> 1, instructions |-> 1,
            inner |-> {<<1, 0>>}, logs |-> 0, accounts |-> 2, token_accounts |-> {}],
           write, [write EXCEPT !.sequence = 7, !.revision = 2, !.canonicality = "non_canonical", !.status = "dead"]>>,
         <<fixture, [kind |-> "no_payload", sequence |-> 5], [evm EXCEPT !.status = "included_candidate"],
           [fixture EXCEPT !.sequence = 6, !.observation = "o7"]>>}

(* Consumers go on, and the broker gets to their commits. *)
FactConsumers ==
    \A c \in Consumers :
        /\ WF_factVars(program = "facts" /\ (Poll(c) \/ insert_json_rows(c) \/ commit_message(c)))
        /\ WF_factVars(program = "facts" /\ Committed(c))

(* EverythingNormalized, where consumers run. *)
RecordsNormalized == program = "facts" => EverythingNormalized

-----------------------------------------------------------------------------
(* The ledger and the graph are independent of each other. *)
CoverageNext == ReconcilerNext /\ UNCHANGED nodes

LineageNext == ReconcilerNext /\ UNCHANGED <<revisions, current>>

MCInit ==
    /\ program \in {"archive", "persistent", "memory", "facts", "coverage", "lineage", "evm_decoder", "solana_decoder"}
    /\ Init /\ MemoryInit /\ FactInit /\ ReconcilerInit /\ DecoderInit
    /\ program # "facts" => log = CHOOSE l \in Logs : TRUE

(* All but the archive's coordinators come to an end: their inputs are bounded. *)
Ends == program \notin {"archive", "persistent"} /\ UNCHANGED <<vars, memoryVars, factVars, reconcilerVars, decoderVars>>

MCNext ==
    /\ UNCHANGED program
    /\ \/ program \in {"archive", "persistent"} /\ ArchiveNext /\ UNCHANGED <<memoryVars, factVars, reconcilerVars, decoderVars>>
       \/ program = "memory" /\ MemoryNext /\ UNCHANGED <<vars, factVars, reconcilerVars, decoderVars>>
       \/ program = "facts" /\ FactNext /\ UNCHANGED <<vars, memoryVars, reconcilerVars, decoderVars>>
       \/ program = "coverage" /\ CoverageNext /\ UNCHANGED <<vars, memoryVars, factVars, decoderVars>>
       \/ program = "lineage" /\ LineageNext /\ UNCHANGED <<vars, memoryVars, factVars, decoderVars>>
       \/ program = "evm_decoder" /\ EvmDecoderNext /\ UNCHANGED <<vars, memoryVars, factVars, reconcilerVars>>
       \/ program = "solana_decoder" /\ SolanaDecoderNext /\ UNCHANGED <<vars, memoryVars, factVars, reconcilerVars>>
       \/ Ends

MCSpec == MCInit /\ [][MCNext]_MCvars /\ PersistentCallers /\ FactConsumers
=============================================================================
