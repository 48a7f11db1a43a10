--------------------------- MODULE DecoderRegistry ---------------------------
(***************************************************************************)
(* The decoder registries of processors/evm-decoder/src/lib.rs and            *)
(* processors/solana-decoder/src/lib.rs.  Both hold deployments of decoders   *)
(* over ranges of blocks or slots; a decode attempt is recorded with the      *)
(* version that was valid there.  The EVM registry is given the revision of   *)
(* an attempt by its caller, the Solana registry counts attempts itself.      *)
(*                                                                          *)
(* A subject is a chain and contract, or a program; a slot is a block number  *)
(* or a slot.  Calls that return an error change nothing and are no actions.  *)
(***************************************************************************)
EXTENDS Integers, Sequences, FiniteSets, SequencesExt, FiniteSetsExt

CONSTANTS
    Subjects,
    MaxSlot,        \* the last slot: u64::MAX
    Versions,
    MaxDeployments, MaxAttempts,    \* bounds
    NoEnd,          \* valid_to of a deployment without an end
    NoVersion       \* of an attempt without a deployment

VARIABLES
    evm_deployments, evm_attempts,
    solana_deployments, solana_attempts, solana_revision

decoderVars == <<evm_deployments, evm_attempts, solana_deployments, solana_attempts, solana_revision>>

Slots == 0 .. MaxSlot

(* DecoderDeployment::new *)
Deployments ==
    {d \in [subject : Subjects, valid_from : Slots, valid_to : Slots \union {NoEnd}, version : Versions] :
        d.valid_to # NoEnd => d.valid_to >= d.valid_from}

DecoderInit ==
    /\ evm_deployments = <<>> /\ evm_attempts = <<>>
    /\ solana_deployments = <<>> /\ solana_attempts = <<>> /\ solana_revision = 0

EndOf(d) == IF d.valid_to = NoEnd THEN MaxSlot ELSE d.valid_to

(* contains, covers *)
covers(d, slot) == slot >= d.valid_from /\ (d.valid_to # NoEnd => slot <= d.valid_to)

overlaps(d, e) == d.subject = e.subject /\ d.valid_from <= EndOf(e) /\ e.valid_from <= EndOf(d)

(* The deployments with one more, in the order of their starts; the order by
   subject makes no difference to what is found. *)
registered(deployments, d) ==
    SortSeq(Append(deployments, d), LAMBDA a, b : a.valid_from < b.valid_from)

(* Mutant: only the starts are compared. *)
accepted_by_start(deployments, d) ==
    Len(deployments) < MaxDeployments /\ \A i \in DOMAIN deployments : deployments[i].valid_from # d.valid_from

accepted(deployments, d) == Len(deployments) < MaxDeployments /\ \A i \in DOMAIN deployments : ~overlaps(deployments[i], d)

(* DecoderRegistry::resolve and deployment_for: the version of the first that covers. *)
resolve(deployments, subject, slot) ==
    LET found == {i \in DOMAIN deployments : deployments[i].subject = subject /\ covers(deployments[i], slot)}
    IN  IF found = {} THEN NoVersion ELSE deployments[Min(found)].version

register_evm(d) ==
    /\ accepted(evm_deployments, d)
    /\ evm_deployments' = registered(evm_deployments, d)
    /\ UNCHANGED <<evm_attempts, solana_deployments, solana_attempts, solana_revision>>

Attempt(subject, slot, version, status, revision) ==
    [subject |-> subject, slot |-> slot, version |-> version, status |-> status, revision |-> revision]

(* A decoder's output, or its error, is recorded for the deployment that covers. *)
record_outcome(subject, slot, status, revision) ==
    /\ Len(evm_attempts) < MaxAttempts
    /\ revision # 0
    /\ resolve(evm_deployments, subject, slot) # NoVersion
    /\ evm_attempts' = Append(evm_attempts,
          Attempt(subject, slot, resolve(evm_deployments, subject, slot), status, revision))
    /\ UNCHANGED <<evm_deployments, solana_deployments, solana_attempts, solana_revision>>

record_unknown(subject, slot, revision) ==
    /\ Len(evm_attempts) < MaxAttempts
    /\ revision # 0
    /\ evm_attempts' = Append(evm_attempts, Attempt(subject, slot, NoVersion, "Unknown", revision))
    /\ UNCHANGED <<evm_deployments, solana_deployments, solana_attempts, solana_revision>>

register_solana(d) ==
    /\ accepted(solana_deployments, d)
    /\ solana_deployments' = registered(solana_deployments, d)
    /\ UNCHANGED <<evm_deployments, evm_attempts, solana_attempts, solana_revision>>

(* DecoderRegistry::decode of Solana; answer is what the decoder would say. *)
decode(subject, slot, answer) ==
    LET version == resolve(solana_deployments, subject, slot)
        status == IF version = NoVersion THEN "Unknown" ELSE answer
    IN  /\ Len(solana_attempts) < MaxAttempts
        /\ status # "TooLarge"
        /\ solana_revision' = solana_revision + 1
        /\ solana_attempts' = Append(solana_attempts, Attempt(subject, slot, version, status, solana_revision + 1))
        /\ UNCHANGED <<evm_deployments, evm_attempts, solana_deployments>>

EvmDecoderNext ==
    \/ \E d \in Deployments : register_evm(d)
    \/ \E s \in Subjects, slot \in Slots, revision \in 1 .. MaxAttempts :
          \/ \E status \in {"Decoded", "Failed"} : record_outcome(s, slot, status, revision)
          \/ record_unknown(s, slot, revision)

SolanaDecoderNext ==
    \/ \E d \in Deployments : register_solana(d)
    \/ \E s \in Subjects, slot \in Slots, answer \in {"Decoded", "Failed", "TooLarge"} : decode(s, slot, answer)

-----------------------------------------------------------------------------
(* At every slot at most one decoder is valid, up to the last slot and through
   ranges without an end, so that what a recorded attempt says of its decoder
   stays true: the version valid at its slot is still the one it names. *)
AttemptsStayValid ==
    /\ \A deployments \in {evm_deployments, solana_deployments} : \A s \in Subjects, slot \in Slots :
          Cardinality({i \in DOMAIN deployments : deployments[i].subject = s /\ covers(deployments[i], slot)}) <= 1
    /\ \A i \in DOMAIN evm_attempts : evm_attempts[i].version # NoVersion =>
          evm_attempts[i].version = resolve(evm_deployments, evm_attempts[i].subject, evm_attempts[i].slot)
    /\ \A i \in DOMAIN solana_attempts : solana_attempts[i].version # NoVersion =>
          solana_attempts[i].version = resolve(solana_deployments, solana_attempts[i].subject, solana_attempts[i].slot)
=============================================================================
