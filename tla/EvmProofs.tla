------------------------------ MODULE EvmProofs ------------------------------
(***************************************************************************)
(* Finality of the Ethereum and the BSC tracker, for any tree of blocks    *)
(* and any times: the finalized block stays canonical, the finalized chain *)
(* only grows, and a BSC block reported final keeps that status.           *)
(*                                                                         *)
(* Each action of a tracker is a chain step or an advance of the finalized *)
(* block; ExecutionChainProofs says what those do.                         *)
(***************************************************************************)
EXTENDS EthereumCanonicality, BscCanonicality, ExecutionChainProofs

(* Ethereum *)

LEMMA EthereumSteps ==
  FinalInv /\ [EthereumNext]_ethereumVars => ChainStep \/ Advance \/ UNCHANGED chainVars
<1>. SUFFICES ASSUME FinalInv, [EthereumNext]_ethereumVars
              PROVE  ChainStep \/ Advance \/ UNCHANGED chainVars
  OBVIOUS
<1>1. ASSUME NEW s \in Segments, commit_segment(s) PROVE ChainStep
  BY <1>1 DEF commit_segment, ChainStep
<1>2. ASSUME NEW old \in Segments, NEW new \in Segments, reorg(old, new) PROVE ChainStep
  BY <1>2 DEF reorg, ChainStep
<1>3. ASSUME NEW s \in Blocks, NEW f \in Blocks, observe_checkpoint(s, f) PROVE Advance
  <2>1. finalized # NoBlock => number[finalized] <= number[f]
    <3>1. CASE finalized = f
      BY <3>1, ChainAssumption
    <3>2. CASE finalized # f /\ finalized # NoBlock
      <4>1. number[finalized] < number[f] /\ finalized \in Blocks
        BY <3>2, <1>3 DEF observe_checkpoint, advances, FinalInv, ChainInv, ChainTypeOK
      <4>. QED
        BY <4>1, ChainAssumption
    <3>. QED
      BY <3>1, <3>2
  <2>2. status' \in [Blocks -> {"none", "canonical_head", "safe", "finalized",
                                "fast_finalized", "reorged"}]
    BY <1>3 DEF observe_checkpoint, FinalInv, ChainInv, ChainTypeOK
  <2>. QED
    BY <1>3, <2>1, <2>2 DEF observe_checkpoint, Advance
<1>4. CASE UNCHANGED ethereumVars
  BY <1>4 DEF ethereumVars
<1>. QED
  BY <1>1, <1>2, <1>3, <1>4 DEF EthereumNext

LEMMA StepInv == FinalInv /\ (ChainStep \/ Advance \/ UNCHANGED chainVars) => FinalInv'
<1>1. ASSUME FinalInv, UNCHANGED chainVars PROVE FinalInv'
  BY <1>1 DEF chainVars, FinalInv, ChainInv, ChainTypeOK, CanonicalChain, FinalizedCanonical
<1>. QED
  BY <1>1, ChainStepInv, AdvanceInv

LEMMA EthereumInv == EthereumSpec => []FinalInv
<1>1. EthereumInit => FinalInv
  BY ChainInitInv DEF EthereumInit
<1>2. FinalInv /\ [EthereumNext]_ethereumVars => FinalInv'
  BY EthereumSteps, StepInv
<1>. QED
  BY <1>1, <1>2, PTL DEF EthereumSpec

(* For every tree of blocks, every sequence of commits, reorgs and
   checkpoints: the canonical blocks are one linked chain up to the head. *)
THEOREM EthereumChain == EthereumSpec => []CanonicalChain
<1>1. FinalInv => CanonicalChain
  BY DEF FinalInv, ChainInv
<1>. QED
  BY <1>1, EthereumInv, PTL

(* A finalized execution payload is never reversed. *)
THEOREM EthereumFinality == EthereumSpec => []FinalizedCanonical
<1>1. FinalInv => FinalizedCanonical
  BY DEF FinalInv
<1>. QED
  BY <1>1, EthereumInv, PTL

(* The tracker implements the finalized ledger: no step removes, replaces or
   inserts a block at or below the finalized one, steps only extend it. *)
THEOREM EthereumImplementsLedger == EthereumSpec => FinalityIsAppendOnly
<1>1. EthereumInit => Ledger!LedgerInit
  BY DEF EthereumInit, ChainInit, Ledger!LedgerInit, Final
<1>2. FinalInv /\ FinalInv' /\ [EthereumNext]_ethereumVars => [Ledger!Finalize]_Final
  BY EthereumSteps, StepsAppend
<1>. QED
  BY <1>1, <1>2, EthereumInv, PTL DEF EthereumSpec, FinalityIsAppendOnly, Ledger!LedgerSpec

-----------------------------------------------------------------------------
(* BSC *)

(* Every block with a final status lies in the finalized chain. *)
StatusInv ==
    \A b \in Blocks : status[b] = "fast_finalized" =>
        finalized # NoBlock /\ b \in canonical /\ number[b] <= number[finalized]

BscInv == FinalInv /\ StatusInv

LEMMA BscSteps ==
  FinalInv /\ [BscNext]_bscVars => ChainStep \/ Advance \/ UNCHANGED chainVars
<1>. SUFFICES ASSUME FinalInv, [BscNext]_bscVars
              PROVE  ChainStep \/ Advance \/ UNCHANGED chainVars
  OBVIOUS
<1>1. ASSUME NEW s \in Segments, bsc_commit_segment(s) PROVE ChainStep
  BY <1>1 DEF bsc_commit_segment, ChainStep
<1>2. ASSUME NEW old \in Segments, NEW new \in Segments, bsc_reorg(old, new) PROVE ChainStep
  BY <1>2 DEF bsc_reorg, ChainStep
<1>3. ASSUME NEW o \in Blocks, NEW t \in 1 .. MaxTime, observe_finalized(o, t) PROVE Advance
  <2>1. finalized # NoBlock => number[finalized] <= number[o]
    <3>1. CASE finalized = o
      BY <3>1, ChainAssumption
    <3>2. CASE finalized # o /\ finalized # NoBlock
      <4>1. number[o] > number[finalized] /\ finalized \in Blocks
        BY <3>2, <1>3 DEF observe_finalized, FinalInv, ChainInv, ChainTypeOK
      <4>. QED
        BY <4>1, ChainAssumption
    <3>. QED
      BY <3>1, <3>2
  <2>2. status' \in [Blocks -> {"none", "canonical_head", "safe", "finalized",
                                "fast_finalized", "reorged"}]
    BY <1>3 DEF observe_finalized, FinalInv, ChainInv, ChainTypeOK
  <2>. QED
    BY <1>3, <2>1, <2>2 DEF observe_finalized, Advance
<1>4. CASE UNCHANGED bscVars
  BY <1>4 DEF bscVars
<1>. QED
  BY <1>1, <1>2, <1>3, <1>4 DEF BscNext

(* A commit or a reorg gives no block with a final status another one, and
   none a final status: all it touches lies above the finalized block. *)
LEMMA ChainStepKeepsStatus ==
  ASSUME BscInv, ChainStep
  PROVE  \A b \in Blocks : status'[b] = "fast_finalized" <=> status[b] = "fast_finalized"
<1>. SUFFICES ASSUME NEW b \in Blocks
              PROVE  status'[b] = "fast_finalized" <=> status[b] = "fast_finalized"
  OBVIOUS
<1>0. ChainInv /\ \A c \in canonical : number[c] \in Nat
  BY ChainAssumption DEF BscInv, FinalInv, ChainInv, ChainTypeOK
<1>1. ASSUME NEW s \in Segments, commit(s)
      PROVE  status'[b] = "fast_finalized" <=> status[b] = "fast_finalized"
  <2>1. status' = revise(s, "canonical_head")
    BY <1>1 DEF commit
  <2>2. status[b] = "fast_finalized" => b \notin Elements(s)
    <3>1. \A d \in canonical, c \in Elements(s) : number[d] < number[c]
      BY <1>0, <1>1, CommitAbove
    <3>. QED
      BY <3>1, <1>0 DEF BscInv, StatusInv
  <2>. QED
    BY <2>1, <2>2 DEF revise
<1>2. ASSUME NEW old \in Segments, NEW new \in Segments,
             reorg_applies(old, new), replace(old, new)
      PROVE  status'[b] = "fast_finalized" <=> status[b] = "fast_finalized"
  <2>1. status[b] = "fast_finalized" => b \notin Elements(old) \union Elements(new)
    <3>1. \A d \in canonical \ Elements(old), c \in Elements(old) \union Elements(new) :
             number[d] < number[c]
      BY <1>0, <1>2, ReorgBelow
    <3>2. \A c \in Elements(old) \union Elements(new) : number[c] \in Nat
      BY SegmentType, ChainAssumption
    <3>3. finalized # NoBlock => finalized \in canonical \ Elements(old)
      BY <1>2 DEF BscInv, FinalInv, FinalizedCanonical, reorg_applies
    <3>. QED
      BY <3>1, <3>2, <3>3, <1>0 DEF BscInv, StatusInv
  <2>. QED
    BY <2>1, <1>2 DEF replace
<1>. QED
  BY <1>1, <1>2 DEF ChainStep

LEMMA ChainStepKeepsStatusInv ==
  ASSUME BscInv, ChainStep
  PROVE  StatusInv'
<1>. SUFFICES ASSUME NEW b \in Blocks, status'[b] = "fast_finalized"
              PROVE  finalized' # NoBlock /\ b \in canonical' /\ number[b] <= number[finalized']
  BY DEF StatusInv
<1>1. finalized # NoBlock /\ b \in canonical /\ number[b] <= number[finalized]
  BY ChainStepKeepsStatus DEF BscInv, StatusInv
<1>2. ChainInv /\ finalized \in canonical
  BY <1>1 DEF BscInv, FinalInv, FinalizedCanonical
<1>. QED
  BY <1>1, <1>2, ChainStepKeepsFinal

LEMMA ReportKeepsStatusInv ==
  ASSUME BscInv, NEW o \in Blocks, NEW t \in 1 .. MaxTime, observe_finalized(o, t)
  PROVE  StatusInv'
<1>0. finalized \in Blocks \union {NoBlock}
  BY DEF BscInv, FinalInv, ChainInv, ChainTypeOK
<1>1. finalized # NoBlock => number[finalized] \in Nat /\ number[finalized] <= number[o]
  BY <1>0, ChainAssumption DEF observe_finalized
<1>2. o \in canonical /\ o # NoBlock /\ number[o] \in Nat
  BY ChainAssumption DEF observe_finalized
<1>3. status' = [status EXCEPT ![o] = "fast_finalized"] /\ canonical' = canonical /\ finalized' = o
  BY DEF observe_finalized
<1>4. \A b \in canonical : number[b] \in Nat
  BY ChainAssumption DEF BscInv, FinalInv, ChainInv, ChainTypeOK
<1>. QED
  BY <1>1, <1>2, <1>3, <1>4 DEF BscInv, FinalInv, StatusInv, ChainInv, ChainTypeOK

LEMMA BscNextInv == BscInv /\ [BscNext]_bscVars => BscInv'
<1>. SUFFICES ASSUME BscInv, [BscNext]_bscVars PROVE BscInv'
  OBVIOUS
<1>1. FinalInv'
  BY BscSteps, StepInv DEF BscInv
<1>2. ASSUME NEW s \in Segments, bsc_commit_segment(s) PROVE StatusInv'
  BY <1>2, ChainStepKeepsStatusInv DEF bsc_commit_segment, ChainStep
<1>3. ASSUME NEW old \in Segments, NEW new \in Segments, bsc_reorg(old, new) PROVE StatusInv'
  BY <1>3, ChainStepKeepsStatusInv DEF bsc_reorg, ChainStep
<1>4. ASSUME NEW o \in Blocks, NEW t \in 1 .. MaxTime, observe_finalized(o, t) PROVE StatusInv'
  BY <1>4, ReportKeepsStatusInv
<1>5. CASE UNCHANGED bscVars
  BY <1>1, <1>5 DEF bscVars, chainVars, BscInv, StatusInv
<1>. QED
  BY <1>1, <1>2, <1>3, <1>4, <1>5 DEF BscNext, BscInv

LEMMA BscInvariant == BscSpec => []BscInv
<1>1. BscInit => BscInv
  BY ChainInitInv DEF BscInit, ChainInit, BscInv, StatusInv
<1>. QED
  BY <1>1, BscNextInv, PTL DEF BscSpec

(* A block reported final by the node is never reversed. *)
THEOREM BscFinality == BscSpec => []FinalizedCanonical
<1>1. BscInv => FinalizedCanonical
  BY DEF BscInv, FinalInv
<1>. QED
  BY <1>1, BscInvariant, PTL

(* The highest revision of a block that was ever reported final says so. *)
THEOREM BscFinalStatusStays == BscSpec => FinalRevisionsStay
<1>1. BscInv /\ [BscNext]_bscVars =>
        [\A b \in Blocks : status[b] = "fast_finalized" => status'[b] = "fast_finalized"]_bscVars
  <2>. SUFFICES ASSUME BscInv, [BscNext]_bscVars, NEW b \in Blocks, status[b] = "fast_finalized"
                PROVE  status'[b] = "fast_finalized"
    OBVIOUS
  <2>1. ASSUME NEW s \in Segments, bsc_commit_segment(s) PROVE status'[b] = "fast_finalized"
    BY <2>1, ChainStepKeepsStatus DEF bsc_commit_segment, ChainStep
  <2>2. ASSUME NEW old \in Segments, NEW new \in Segments, bsc_reorg(old, new)
        PROVE  status'[b] = "fast_finalized"
    BY <2>2, ChainStepKeepsStatus DEF bsc_reorg, ChainStep
  <2>3. ASSUME NEW o \in Blocks, NEW t \in 1 .. MaxTime, observe_finalized(o, t)
        PROVE  status'[b] = "fast_finalized"
    BY <2>3 DEF observe_finalized, BscInv, FinalInv, ChainInv, ChainTypeOK
  <2>4. CASE UNCHANGED bscVars
    BY <2>4 DEF bscVars, chainVars
  <2>. QED
    BY <2>1, <2>2, <2>3, <2>4 DEF BscNext
<1>. QED
  BY <1>1, BscInvariant, PTL DEF BscSpec, FinalRevisionsStay

(* The tracker implements the finalized ledger: no step removes, replaces or
   inserts a block at or below the finalized one, steps only extend it. *)
THEOREM BscImplementsLedger == BscSpec => FinalityIsAppendOnly
<1>1. BscInit => Ledger!LedgerInit
  BY DEF BscInit, ChainInit, Ledger!LedgerInit, Final
<1>2. BscInv => FinalInv
  BY DEF BscInv
<1>3. FinalInv /\ FinalInv' /\ [BscNext]_bscVars => [Ledger!Finalize]_Final
  BY BscSteps, StepsAppend
<1>. QED
  BY <1>1, <1>2, <1>3, BscInvariant, PTL DEF BscSpec, FinalityIsAppendOnly, Ledger!LedgerSpec
=============================================================================
