------------------------ MODULE ExecutionChainProofs ------------------------
(***************************************************************************)
(* What a commit and a reorg do to the canonical chain, for any tree of    *)
(* blocks and segments of any length.  The Ethereum and the BSC proofs     *)
(* rest on these lemmas.                                                   *)
(***************************************************************************)
EXTENDS ExecutionChain, WellFoundedInduction, TLAPS

ChainInv == ChainTypeOK /\ CanonicalChain

(* A segment is a non-empty sequence of blocks. *)
LEMMA SegmentType ==
  ASSUME NEW s \in Segments
  PROVE  /\ Len(s) \in Nat \ {0}
         /\ DOMAIN s = 1 .. Len(s)
         /\ \A i \in 1 .. Len(s) : s[i] \in Blocks
         /\ Elements(s) \subseteq Blocks
         /\ s[1] \in Elements(s) /\ s[Len(s)] \in Elements(s)
<1>1. PICK n \in 1 .. MaxSegment : s \in [1 .. n -> Blocks]
  BY DEF Segments
<1>2. n \in Nat \ {0}
  BY ChainAssumption
<1>3. Len(s) = n
  BY <1>1, <1>2
<1>. QED
  BY <1>1, <1>2, <1>3 DEF Elements

(* The numbers of a segment ascend by one from its first block's. *)
LEMMA SegmentNumbers ==
  ASSUME NEW s \in Segments, NEW k \in 1 .. Len(s)
  PROVE  number[s[k]] = number[s[1]] + k - 1
<1>. DEFINE U == {i \in 1 .. Len(s) : number[s[i]] # number[s[1]] + i - 1}
<1>0. /\ Len(s) \in Nat \ {0}
      /\ \A i \in 1 .. Len(s) : s[i] \in Blocks
  BY SegmentType
<1>1. \A i \in 1 .. Len(s) : number[s[i]] \in Nat
  BY <1>0, ChainAssumption
<1>2. SUFFICES ASSUME k \in U PROVE FALSE
  OBVIOUS
<1>3. U \subseteq Nat
  BY <1>0
<1>4. PICK x \in U : \A y \in U : ~(<<y, x>> \in OpToRel(<, Nat))
  BY <1>2, <1>3, WFMin, NatLessThanWellFounded
<1>5. \A y \in U : ~(y < x)
  BY <1>3, <1>4 DEF OpToRel
<1>6. x # 1
  BY <1>0, <1>1
<1>7. x - 1 \in 1 .. Len(s) - 1 /\ x - 1 \in 1 .. Len(s) /\ x \in 1 .. Len(s)
  BY <1>0, <1>6
<1>8. x - 1 \notin U
  BY <1>5, <1>7
<1>9. number[s[x - 1]] = number[s[1]] + (x - 1) - 1
  BY <1>7, <1>8
<1>10. number[s[(x - 1) + 1]] = number[s[x - 1]] + 1
  BY <1>7 DEF Segments, validate_segment
<1>11. (x - 1) + 1 = x /\ x \in Int
  BY <1>0, <1>7
<1>12. number[s[x]] = number[s[x - 1]] + 1
  BY <1>10, <1>11
<1>13. number[s[x]] = number[s[1]] + x - 1
  <2>1. number[s[1]] \in Nat
    BY <1>0, <1>1
  <2>. QED
    BY <2>1, <1>9, <1>11, <1>12
<1>14. number[s[x]] # number[s[1]] + x - 1
  OBVIOUS
<1>. QED
  BY <1>13, <1>14

(* Every block of a segment but the first has its parent in the segment,
   numbers within a segment are distinct and bounded by its ends'. *)
LEMMA SegmentShape ==
  ASSUME NEW s \in Segments
  PROVE  /\ \A b \in Elements(s) : b = s[1] \/ parent[b] \in Elements(s)
         /\ \A b, c \in Elements(s) : number[b] = number[c] => b = c
         /\ \A b \in Elements(s) : number[s[1]] <= number[b] /\ number[b] <= number[s[Len(s)]]
         /\ \A n \in Nat : number[s[1]] <= n /\ n <= number[s[Len(s)]] =>
               \E b \in Elements(s) : number[b] = n
<1>0. /\ Len(s) \in Nat \ {0}
      /\ DOMAIN s = 1 .. Len(s)
      /\ \A i \in 1 .. Len(s) : s[i] \in Blocks
  BY SegmentType
<1>1. \A i \in 1 .. Len(s) : number[s[i]] = number[s[1]] + i - 1
  BY SegmentNumbers
<1>2. number[s[1]] \in Nat
  BY <1>0, ChainAssumption
<1>3. ASSUME NEW b \in Elements(s), b # s[1] PROVE parent[b] \in Elements(s)
  <2>1. PICK i \in 1 .. Len(s) : b = s[i]
    BY <1>0 DEF Elements
  <2>2. i - 1 \in 1 .. Len(s) - 1 /\ i - 1 \in 1 .. Len(s)
    BY <2>1, <1>0, <1>3
  <2>3. parent[s[(i - 1) + 1]] = s[i - 1]
    BY <2>2 DEF Segments, validate_segment
  <2>. QED
    BY <2>1, <2>2, <2>3, <1>0 DEF Elements
<1>4. ASSUME NEW b \in Elements(s), NEW c \in Elements(s), number[b] = number[c]
      PROVE  b = c
  <2>1. PICK i \in 1 .. Len(s) : b = s[i]
    BY <1>0 DEF Elements
  <2>2. PICK j \in 1 .. Len(s) : c = s[j]
    BY <1>0 DEF Elements
  <2>. QED
    BY <2>1, <2>2, <1>0, <1>1, <1>2, <1>4
<1>5. ASSUME NEW b \in Elements(s)
      PROVE  number[s[1]] <= number[b] /\ number[b] <= number[s[Len(s)]]
  <2>1. PICK i \in 1 .. Len(s) : b = s[i]
    BY <1>0 DEF Elements
  <2>2. Len(s) \in 1 .. Len(s)
    BY <1>0
  <2>3. number[s[i]] = number[s[1]] + i - 1 /\ number[s[Len(s)]] = number[s[1]] + Len(s) - 1
    BY <1>1, <2>2
  <2>. QED
    BY <2>1, <2>3, <1>0, <1>2
<1>6. ASSUME NEW n \in Nat, number[s[1]] <= n, n <= number[s[Len(s)]]
      PROVE  \E b \in Elements(s) : number[b] = n
  <2>0. Len(s) \in 1 .. Len(s)
    BY <1>0
  <2>1. number[s[Len(s)]] = number[s[1]] + Len(s) - 1
    BY <1>1, <2>0
  <2>2. n - number[s[1]] + 1 \in 1 .. Len(s)
    BY <2>1, <1>0, <1>2, <1>6
  <2>3. number[s[n - number[s[1]] + 1]] = n
    BY <2>2, <1>1, <1>2, <1>6
  <2>. QED
    BY <2>2, <2>3, <1>0 DEF Elements
<1>. QED
  BY <1>3, <1>4, <1>5, <1>6

-----------------------------------------------------------------------------
(* A committed segment lies above every canonical block. *)
LEMMA CommitAbove ==
  ASSUME ChainInv, NEW s \in Segments, commit(s)
  PROVE  /\ \A b \in canonical, c \in Elements(s) : number[b] < number[c]
         /\ canonical' = canonical \union Elements(s)
<1>1. \A c \in Elements(s) : c \in Blocks /\ number[c] \in Nat
  BY SegmentType, ChainAssumption
<1>2. \A b \in canonical : b \in Blocks /\ number[b] \in Nat
  BY ChainAssumption DEF ChainInv, ChainTypeOK
<1>3. ASSUME NEW b \in canonical, NEW c \in Elements(s) PROVE number[b] < number[c]
  <2>1. head # NoBlock /\ head \in canonical /\ number[b] <= number[head]
    BY DEF ChainInv, CanonicalChain
  <2>2. number[s[1]] = number[head] + 1
    BY <2>1 DEF commit
  <2>3. number[s[1]] <= number[c]
    BY SegmentShape
  <2>. QED
    BY <2>1, <2>2, <2>3, <1>1, <1>2
<1>4. canonical' = canonical \union Elements(s)
  <2>1. \A b \in canonical, c \in Elements(s) : number[b] # number[c]
    BY <1>1, <1>2, <1>3
  <2>. QED
    BY <2>1 DEF commit, insert
<1>. QED
  BY <1>3, <1>4

LEMMA CommitKeepsChain ==
  ASSUME ChainInv, NEW s \in Segments, commit(s)
  PROVE  ChainInv'
<1>1. /\ \A b \in canonical, c \in Elements(s) : number[b] < number[c]
      /\ canonical' = canonical \union Elements(s)
  BY CommitAbove
<1>2. \A b \in canonical' : b \in Blocks /\ number[b] \in Nat
  BY <1>1, SegmentType, ChainAssumption DEF ChainInv, ChainTypeOK
<1>3. /\ Elements(s) \subseteq Blocks
      /\ s[1] \in Elements(s) /\ s[Len(s)] \in Elements(s)
  BY SegmentType
<1>4. head' = s[Len(s)] /\ head' \in canonical' /\ head' # NoBlock
  BY <1>1, <1>3, ChainAssumption DEF commit
<1>5. ChainTypeOK'
  BY <1>1, <1>3, <1>4 DEF ChainInv, ChainTypeOK, commit, revise
<1>6. ASSUME NEW b \in canonical', NEW c \in canonical', number[b] = number[c] PROVE b = c
  <2>1. CASE b \in canonical /\ c \in canonical
    BY <2>1, <1>6 DEF ChainInv, CanonicalChain
  <2>2. CASE b \in Elements(s) /\ c \in Elements(s)
    BY <2>2, <1>6, SegmentShape
  <2>3. CASE b \in canonical /\ c \in Elements(s)
    BY <2>3, <1>1, <1>2, <1>6
  <2>4. CASE b \in Elements(s) /\ c \in canonical
    BY <2>4, <1>1, <1>2, <1>6
  <2>. QED
    BY <2>1, <2>2, <2>3, <2>4, <1>1
<1>7. ASSUME NEW b \in canonical' PROVE number[b] <= number[head']
  <2>1. CASE b \in canonical
    BY <2>1, <1>1, <1>2, <1>3, <1>4
  <2>2. CASE b \in Elements(s)
    BY <2>2, <1>4, SegmentShape
  <2>. QED
    BY <2>1, <2>2, <1>1
<1>8. ASSUME NEW b \in canonical', NEW c \in canonical', number[c] < number[b]
      PROVE  parent[b] \in canonical'
  <2>1. CASE b \in canonical
    <3>1. c \in canonical
      BY <2>1, <1>1, <1>2, <1>8
    <3>. QED
      BY <2>1, <3>1, <1>1, <1>8 DEF ChainInv, CanonicalChain
  <2>2. CASE b \in Elements(s) /\ b # s[1]
    BY <2>2, <1>1, SegmentShape
  <2>3. CASE b = s[1]
    <3>1. c \in canonical
      <4>1. SUFFICES ASSUME c \in Elements(s) PROVE FALSE
        BY <1>1
      <4>2. number[s[1]] <= number[c]
        BY <4>1, SegmentShape
      <4>. QED
        BY <4>2, <2>3, <1>2, <1>8
    <3>2. head # NoBlock /\ head \in canonical
      BY <3>1 DEF ChainInv, CanonicalChain
    <3>. QED
      BY <3>2, <2>3, <1>1 DEF commit
  <2>. QED
    BY <2>1, <2>2, <2>3, <1>1
<1>. QED
  BY <1>4, <1>5, <1>6, <1>7, <1>8 DEF ChainInv, CanonicalChain

-----------------------------------------------------------------------------
(* A reorg removes exactly the canonical blocks from the fork upwards: what
   stays lies below the whole new segment. *)
LEMMA ReorgBelow ==
  ASSUME ChainInv, NEW old \in Segments, NEW new \in Segments,
         reorg_applies(old, new), replace(old, new)
  PROVE  /\ \A b \in canonical \ Elements(old), c \in Elements(old) \union Elements(new) :
               number[b] < number[c]
         /\ canonical' = (canonical \ Elements(old)) \union Elements(new)
<1>1. \A c \in Elements(old) \union Elements(new) : c \in Blocks /\ number[c] \in Nat
  BY SegmentType, ChainAssumption
<1>2. \A b \in canonical : b \in Blocks /\ number[b] \in Nat
  BY ChainAssumption DEF ChainInv, ChainTypeOK
<1>3. old[1] \in Elements(old) /\ old[Len(old)] = head /\ number[old[1]] = number[new[1]]
  BY SegmentType DEF reorg_applies
<1>4. ASSUME NEW b \in canonical \ Elements(old) PROVE number[b] < number[old[1]]
  <2>1. SUFFICES ASSUME number[old[1]] <= number[b] PROVE FALSE
    BY <1>1, <1>2, <1>3
  <2>2. number[b] <= number[old[Len(old)]]
    BY <1>3 DEF ChainInv, CanonicalChain
  <2>3. PICK c \in Elements(old) : number[c] = number[b]
    BY <2>1, <2>2, <1>2, SegmentShape
  <2>4. c \in canonical
    BY <2>3 DEF reorg_applies
  <2>. QED
    BY <2>3, <2>4 DEF ChainInv, CanonicalChain
<1>5. \A c \in Elements(old) \union Elements(new) : number[old[1]] <= number[c]
  BY <1>3, SegmentShape
<1>6. \A b \in canonical \ Elements(old), c \in Elements(old) \union Elements(new) :
         number[b] < number[c]
  BY <1>1, <1>2, <1>3, <1>4, <1>5
<1>7. canonical' = (canonical \ Elements(old)) \union Elements(new)
  <2>1. \A b \in canonical \ Elements(old), c \in Elements(new) : number[b] # number[c]
    BY <1>1, <1>2, <1>6
  <2>. QED
    BY <2>1 DEF replace, insert
<1>. QED
  BY <1>6, <1>7

LEMMA ReorgKeepsChain ==
  ASSUME ChainInv, NEW old \in Segments, NEW new \in Segments,
         reorg_applies(old, new), replace(old, new)
  PROVE  ChainInv'
<1>. DEFINE Rest == canonical \ Elements(old)
<1>1. /\ \A b \in Rest, c \in Elements(old) \union Elements(new) : number[b] < number[c]
      /\ canonical' = Rest \union Elements(new)
  BY ReorgBelow
<1>2. \A b \in canonical' : b \in Blocks /\ number[b] \in Nat
  BY <1>1, SegmentType, ChainAssumption DEF ChainInv, ChainTypeOK
<1>3. /\ Elements(new) \subseteq Blocks
      /\ new[1] \in Elements(new) /\ new[Len(new)] \in Elements(new)
      /\ old[1] \in Elements(old) /\ old[1] \in Blocks
  BY SegmentType
<1>4. head' = new[Len(new)] /\ head' \in canonical' /\ head' # NoBlock
  BY <1>1, <1>3, ChainAssumption DEF replace
<1>5. ChainTypeOK'
  BY <1>1, <1>3, <1>4 DEF ChainInv, ChainTypeOK, replace
<1>. HIDE DEF Rest
<1>6. ASSUME NEW b \in canonical', NEW c \in canonical', number[b] = number[c] PROVE b = c
  <2>1. CASE b \in Rest /\ c \in Rest
    BY <2>1, <1>6 DEF ChainInv, CanonicalChain, Rest
  <2>2. CASE b \in Elements(new) /\ c \in Elements(new)
    BY <2>2, <1>6, SegmentShape
  <2>3. CASE b \in Rest /\ c \in Elements(new)
    BY <2>3, <1>1, <1>2, <1>6
  <2>4. CASE b \in Elements(new) /\ c \in Rest
    BY <2>4, <1>1, <1>2, <1>6
  <2>. QED
    BY <2>1, <2>2, <2>3, <2>4, <1>1
<1>7. ASSUME NEW b \in canonical' PROVE number[b] <= number[head']
  <2>1. CASE b \in Rest
    BY <2>1, <1>1, <1>2, <1>3, <1>4
  <2>2. CASE b \in Elements(new)
    BY <2>2, <1>4, SegmentShape
  <2>. QED
    BY <2>1, <2>2, <1>1
<1>8. ASSUME NEW b \in canonical, NEW c \in Rest, number[c] < number[b],
             b \in Rest \/ b = old[1]
      PROVE  parent[b] \in Rest
  <2>1. b \in Blocks /\ parent[b] \in canonical /\ parent[b] \in Blocks
    BY <1>8 DEF ChainInv, ChainTypeOK, CanonicalChain, Rest
  <2>2. number[b] = number[parent[b]] + 1 /\ number[b] \in Nat /\ number[parent[b]] \in Nat
    BY <2>1, ChainAssumption
  <2>3. parent[b] \notin Elements(old)
    <3>1. SUFFICES ASSUME parent[b] \in Elements(old) PROVE FALSE
      OBVIOUS
    <3>2. CASE b \in Rest
      BY <3>1, <3>2, <2>2, <1>1
    <3>3. CASE b = old[1]
      <4>1. number[old[1]] <= number[parent[b]]
        BY <3>1, SegmentShape
      <4>. QED
        BY <4>1, <3>3, <2>2
    <3>. QED
      BY <3>2, <3>3, <1>8
  <2>. QED
    BY <2>1, <2>3 DEF Rest
<1>9. ASSUME NEW b \in canonical', NEW c \in canonical', number[c] < number[b]
      PROVE  parent[b] \in canonical'
  <2>1. CASE b \in Rest
    <3>1. c \in Rest
      BY <2>1, <1>1, <1>2, <1>9
    <3>2. b \in canonical
      BY <2>1 DEF Rest
    <3>. QED
      BY <2>1, <3>1, <3>2, <1>1, <1>8, <1>9
  <2>2. CASE b \in Elements(new) /\ b # new[1]
    BY <2>2, <1>1, SegmentShape
  <2>3. CASE b = new[1]
    <3>1. c \in Rest
      <4>1. SUFFICES ASSUME c \in Elements(new) PROVE FALSE
        BY <1>1
      <4>2. number[new[1]] <= number[c]
        BY <4>1, SegmentShape
      <4>. QED
        BY <4>2, <2>3, <1>2, <1>9
    <3>2. old[1] \in canonical /\ parent[old[1]] = parent[b] /\ number[c] < number[old[1]]
      BY <2>3, <1>3, <1>9 DEF reorg_applies
    <3>. QED
      BY <3>1, <3>2, <1>1, <1>8
  <2>. QED
    BY <2>1, <2>2, <2>3, <1>1
<1>. QED
  BY <1>4, <1>5, <1>6, <1>7, <1>9 DEF ChainInv, CanonicalChain

ChainStep ==
  \/ \E s \in Segments : commit(s)
  \/ \E old, new \in Segments : reorg_applies(old, new) /\ replace(old, new)

(* A commit or a reorg leaves the finalized block, and everything at or below
   it, as they are.  That the place of the finalized block in the chain is
   spared with it needs the shape of the whole chain. *)
LEMMA ChainStepKeepsFinal ==
  ASSUME ChainInv, finalized \in canonical, ChainStep
  PROVE  /\ finalized' = finalized
         /\ finalized \in canonical'
         /\ {c \in canonical' : number[c] <= number[finalized]}
              = {c \in canonical : number[c] <= number[finalized]}
<1>0. \A c \in canonical : c \in Blocks /\ number[c] \in Nat
  BY ChainAssumption DEF ChainInv, ChainTypeOK
<1>1. ASSUME NEW s \in Segments, commit(s)
      PROVE  /\ finalized' = finalized
             /\ finalized \in canonical'
             /\ {c \in canonical' : number[c] <= number[finalized]}
                  = {c \in canonical : number[c] <= number[finalized]}
  <2>1. \A c \in Elements(s) : number[c] \in Nat
    BY SegmentType, ChainAssumption
  <2>2. finalized' = finalized
    BY <1>1 DEF commit
  <2>. QED
    BY <2>1, <2>2, <1>0, <1>1, CommitAbove
<1>2. ASSUME NEW old \in Segments, NEW new \in Segments,
             reorg_applies(old, new), replace(old, new)
      PROVE  /\ finalized' = finalized
             /\ finalized \in canonical'
             /\ {c \in canonical' : number[c] <= number[finalized]}
                  = {c \in canonical : number[c] <= number[finalized]}
  <2>1. \A c \in Elements(new) \union Elements(old) : number[c] \in Nat
    BY SegmentType, ChainAssumption
  <2>2. finalized \notin Elements(old) /\ finalized' = finalized
    BY <1>2 DEF reorg_applies, replace
  <2>3. /\ \A d \in canonical \ Elements(old), c \in Elements(old) \union Elements(new) :
              number[d] < number[c]
        /\ canonical' = (canonical \ Elements(old)) \union Elements(new)
    BY <1>2, ReorgBelow
  <2>4. \A c \in Elements(new) \union Elements(old) : ~ number[c] <= number[finalized]
    BY <2>1, <2>2, <2>3, <1>0
  <2>. QED
    BY <2>2, <2>3, <2>4
<1>. QED
  BY <1>1, <1>2 DEF ChainStep

-----------------------------------------------------------------------------
(* What the trackers' proofs share: FinalizedCanonical needs CanonicalChain to
   be inductive. *)
FinalInv == ChainInv /\ FinalizedCanonical

LEMMA ChainInitInv == ChainInit => FinalInv
BY DEF ChainInit, FinalInv, ChainInv, ChainTypeOK, CanonicalChain, FinalizedCanonical

LEMMA ChainStepInv ==
  ASSUME FinalInv, ChainStep
  PROVE  FinalInv'
<1>1. ChainInv'
  BY CommitKeepsChain, ReorgKeepsChain DEF FinalInv, ChainStep
<1>2. FinalizedCanonical'
  <2>1. finalized' = finalized
    BY DEF ChainStep, commit, replace
  <2>. QED
    BY <2>1, ChainStepKeepsFinal DEF FinalInv, FinalizedCanonical
<1>. QED
  BY <1>1, <1>2 DEF FinalInv

(* A checkpoint or a finality report: the chain stays, the finalized block
   moves to a canonical one that is not lower. *)
Advance ==
  /\ UNCHANGED <<blocks, canonical, head>>
  /\ status' \in [Blocks -> {"none", "canonical_head", "safe", "finalized",
                             "fast_finalized", "reorged"}]
  /\ finalized' \in canonical
  /\ finalized # NoBlock => number[finalized] <= number[finalized']

LEMMA AdvanceInv ==
  ASSUME FinalInv, Advance
  PROVE  FinalInv'
BY DEF Advance, FinalInv, ChainInv, ChainTypeOK, CanonicalChain, FinalizedCanonical

(* The chain at and below a canonical block is linked. *)
LEMMA FinalLinked == FinalInv => Final \subseteq Blocks /\ Ledger!Linked(Final)
<1>. SUFFICES ASSUME FinalInv PROVE Final \subseteq Blocks /\ Ledger!Linked(Final)
  OBVIOUS
<1>1. Final \subseteq canonical /\ canonical \subseteq Blocks
  BY DEF Final, FinalInv, ChainInv, ChainTypeOK
<1>2. \A b, c \in Final : number[b] = number[c] => b = c
  BY <1>1 DEF FinalInv, ChainInv, CanonicalChain
<1>3. ASSUME NEW b \in Final, NEW c \in Final, number[b] = number[c] + 1
      PROVE  parent[b] = c
  <2>1. number[c] < number[b] /\ number[c] \in Nat
    BY <1>1, <1>3, ChainAssumption
  <2>2. parent[b] \in canonical
    BY <2>1, <1>1 DEF FinalInv, ChainInv, CanonicalChain
  <2>3. number[b] = number[parent[b]] + 1 /\ number[parent[b]] \in Nat
    BY <2>2, <1>1, ChainAssumption
  <2>4. number[parent[b]] = number[c]
    BY <2>1, <2>3, <1>3
  <2>. QED
    BY <2>2, <2>4, <1>1 DEF FinalInv, ChainInv, CanonicalChain
<1>. QED
  BY <1>1, <1>2, <1>3 DEF Ledger!Linked

(* Both kinds of step are steps of the finalized ledger, or stutter. *)
LEMMA StepsAppend ==
  FinalInv /\ FinalInv' /\ (ChainStep \/ Advance \/ UNCHANGED chainVars)
    => [Ledger!Finalize]_Final
<1>1. (FinalInv => Final \subseteq Blocks /\ Ledger!Linked(Final))'
  BY FinalLinked, PTL
<1>2. ASSUME FinalInv, FinalInv', ChainStep PROVE UNCHANGED Final
  <2>1. CASE finalized = NoBlock
    BY <1>2, <2>1 DEF Final, ChainStep, commit, replace
  <2>2. CASE finalized # NoBlock
    <3>1. finalized \in canonical
      BY <1>2, <2>2 DEF FinalInv, FinalizedCanonical
    <3>. QED
      BY <1>2, <2>2, <3>1, ChainStepKeepsFinal DEF Final, FinalInv
  <2>. QED
    BY <2>1, <2>2
<1>3. ASSUME FinalInv, FinalInv', Advance PROVE Ledger!Finalize
  <2>1. Final' \subseteq Blocks /\ Ledger!Linked(Final)'
    BY <1>1, <1>3
  <2>2. /\ canonical' = canonical /\ finalized' \in canonical
        /\ finalized' # NoBlock
        /\ finalized # NoBlock => number[finalized] <= number[finalized']
    BY <1>3, ChainAssumption DEF Advance, FinalInv, ChainInv, ChainTypeOK
  <2>3. \A b \in canonical : number[b] \in Nat
    BY <1>3, ChainAssumption DEF FinalInv, ChainInv, ChainTypeOK
  <2>4. finalized # NoBlock => finalized \in canonical
    BY <1>3 DEF FinalInv, FinalizedCanonical
  <2>5. Final \subseteq Final'
    BY <2>2, <2>3, <2>4 DEF Final
  <2>6. \A b \in Final, c \in Final' \ Final : number[b] < number[c]
    BY <2>2, <2>3, <2>4 DEF Final
  <2>. QED
    BY <2>1, <2>5, <2>6 DEF Ledger!Finalize, Ledger!Linked
<1>4. ASSUME UNCHANGED chainVars PROVE UNCHANGED Final
  BY <1>4 DEF chainVars, Final
<1>. QED
  BY <1>2, <1>3, <1>4
=============================================================================
