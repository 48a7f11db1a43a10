----------------------------- MODULE WalProofs -----------------------------
(***************************************************************************)
(* Proofs about Wal: an acknowledged observation is never destroyed.       *)
(***************************************************************************)
EXTENDS Wal, SequenceTheorems, WellFoundedInduction, TLAPS

IsSeq(f) == f \in Seq({f[i] : i \in DOMAIN f})

\* A sequence over any set is a sequence over its own elements.
LEMMA SeqIsSeq ==
  ASSUME NEW S, NEW f \in Seq(S)
  PROVE  /\ IsSeq(f)
         /\ Len(f) \in Nat
         /\ DOMAIN f = 1..Len(f)
<1>1. /\ f \in [1..Len(f) -> S] /\ Len(f) \in Nat /\ DOMAIN f = 1..Len(f)
  BY LenProperties
<1>2. f \in [1..Len(f) -> {f[i] : i \in DOMAIN f}]
  BY <1>1
<1>. QED
  BY <1>1, <1>2, SeqDef DEF IsSeq

\* Append, as the steps that write a frame use it.
LEMMA AppendSeq ==
  ASSUME NEW f, IsSeq(f), NEW e
  PROVE  /\ IsSeq(Append(f, e))
         /\ Len(Append(f, e)) = Len(f) + 1
         /\ \A i \in 1..Len(f) : Append(f, e)[i] = f[i]
         /\ Append(f, e)[Len(f) + 1] = e
<1> DEFINE S == {f[i] : i \in DOMAIN f} \union {e}
<1>1. f \in Seq(S)
  BY SeqMonotonic DEF IsSeq
<1>2. e \in S
  OBVIOUS
<1> HIDE DEF S
<1>3. /\ Append(f, e) \in Seq(S)
      /\ Len(Append(f, e)) = Len(f) + 1
      /\ \A i \in 1..Len(f) : Append(f, e)[i] = f[i]
      /\ Append(f, e)[Len(f) + 1] = e
  BY <1>1, <1>2, AppendProperties
<1>4. IsSeq(Append(f, e))
  BY <1>3, SeqIsSeq
<1>. QED
  BY <1>3, <1>4

\* A cut keeps the frames before it.
LEMMA CutSeq ==
  ASSUME NEW f, IsSeq(f), NEW n \in 0..Len(f)
  PROVE  /\ IsSeq(SubSeq(f, 1, n))
         /\ Len(SubSeq(f, 1, n)) = n
         /\ \A i \in 1..n : SubSeq(f, 1, n)[i] = f[i]
<1> DEFINE S == {f[i] : i \in DOMAIN f}
<1>1. f \in Seq(S) /\ Len(f) \in Nat /\ DOMAIN f = 1..Len(f)
  BY SeqIsSeq DEF IsSeq
<1>2. \A i \in 1..n : f[i] \in S
  BY <1>1
<1> HIDE DEF S
<1>3. /\ SubSeq(f, 1, n) \in Seq(S)
      /\ Len(SubSeq(f, 1, n)) = IF 1 <= n THEN n - 1 + 1 ELSE 0
      /\ \A i \in 1..(n - 1 + 1) : SubSeq(f, 1, n)[i] = f[1 + i - 1]
  BY <1>1, <1>2, SubSeqProperties
<1>4. IsSeq(SubSeq(f, 1, n))
  BY <1>3, SeqIsSeq
<1>. QED
  BY <1>1, <1>3, <1>4

\* Concatenation keeps the first sequence in place.
LEMMA ConcatSeq ==
  ASSUME NEW f, IsSeq(f), NEW t, IsSeq(t)
  PROVE  /\ IsSeq(f \o t)
         /\ Len(f \o t) = Len(f) + Len(t)
         /\ \A i \in 1..Len(f) : (f \o t)[i] = f[i]
<1> DEFINE S == {f[i] : i \in DOMAIN f} \union {t[i] : i \in DOMAIN t}
<1>1. f \in Seq(S) /\ t \in Seq(S)
  BY SeqMonotonic DEF IsSeq
<1> HIDE DEF S
<1>2. Len(f) \in Nat /\ Len(t) \in Nat
  BY <1>1, LenProperties
<1>3. /\ f \o t \in Seq(S)
      /\ Len(f \o t) = Len(f) + Len(t)
      /\ \A i \in 1..(Len(f) + Len(t)) :
           (f \o t)[i] = IF i <= Len(f) THEN f[i] ELSE t[i - Len(f)]
  BY <1>1, ConcatProperties
<1>4. IsSeq(f \o t)
  BY <1>3, SeqIsSeq
<1>. QED
  BY <1>2, <1>3, <1>4

\* A non-empty bounded set of naturals has a maximum.
LEMMA MaxExists ==
  ASSUME NEW n \in Nat, NEW T, T \subseteq 0..n, T # {}
  PROVE  Max(T) \in T /\ \A i \in T : i <= Max(T)
<1> DEFINE U == {m \in Nat : \A i \in T : i <= m}
<1>1. U \subseteq Nat /\ n \in U
  OBVIOUS
<1>2. PICK x \in U : \A y \in U : ~(<<y, x>> \in OpToRel(<, Nat))
  BY <1>1, WFMin, NatLessThanWellFounded
<1>3. \A y \in U : ~(y < x)
  BY <1>1, <1>2 DEF OpToRel
<1>4. x \in T
  <2>1. SUFFICES ASSUME x \notin T PROVE FALSE
    OBVIOUS
  <2>2. PICK i \in T : TRUE
    OBVIOUS
  <2>3. \A j \in T : j < x
    BY <2>1, <1>1
  <2>4. x - 1 \in U
    BY <2>2, <2>3, <1>1
  <2>. QED
    BY <2>4, <1>1, <1>3
<1>5. \E z \in T : \A y \in T : z >= y
  BY <1>4, <1>1
<1>. QED
  BY <1>5 DEF Max

-----------------------------------------------------------------------------
\* Observation a sits behind a commit record among the first n frames.
Intact(f, n, a) ==
  \E i, c \in 1..n :
    /\ i < c /\ f[c].kind = "commit"
    /\ f[i].kind = "obs" /\ f[i].image = "good" /\ f[i].body = a

\* The segment as its writer and a later recovery see it.
SegmentInv ==
  /\ IsSeq(file) /\ IsSeq(tail)
  /\ synced \in 0..Len(file)
  /\ \A i \in 1..Len(file) :
       i <= synced \/ step # "closed" => file[i].image # "short"
  /\ \A j \in pending :
       j \in 1..Len(file) /\ file[j].kind = "obs" /\ file[j].image = "good"
  /\ step = "closed" => pending = {}
  /\ step = "commit_sync" => Len(file) > 0 /\ file[Len(file)].kind = "commit"
  /\ step \in Steps

\* Where the acknowledged observations of each segment are.
AckInv ==
  /\ IsSeq(quarantined) /\ IsSeq(acked) /\ Len(acked) = Len(quarantined) + 1
  /\ \A a \in acked[Len(acked)] : Intact(file, synced, a)
  /\ \A g \in 1..Len(quarantined) :
       acked[g] \subseteq GoodObservations(quarantined[g])

WalInv == SegmentInv /\ AckInv

\* The inductive invariant gives the property.
LEMMA InvImpliesRetained == WalInv => AckedRetained
<1> SUFFICES ASSUME WalInv, NEW g \in DOMAIN acked
             PROVE  acked[g] \subseteq GoodObservations(Segment(g))
  BY DEF AckedRetained
<1>1. /\ Len(acked) \in Nat /\ DOMAIN acked = 1..Len(acked)
      /\ Len(file) \in Nat /\ DOMAIN file = 1..Len(file)
      /\ Len(quarantined) \in Nat
  BY SeqIsSeq DEF WalInv, SegmentInv, AckInv, IsSeq
<1>2. CASE g <= Len(quarantined)
  BY <1>1, <1>2 DEF WalInv, AckInv, Segment
<1>3. CASE ~(g <= Len(quarantined))
  <2>1. g = Len(acked) /\ Segment(g) = file
    BY <1>1, <1>3 DEF WalInv, AckInv, Segment
  <2>2. ASSUME NEW a \in acked[g] PROVE a \in GoodObservations(file)
    <3>1. Intact(file, synced, a)
      BY <2>1 DEF WalInv, AckInv
    <3>. QED
      BY <1>1, <3>1 DEF Intact, GoodObservations, WalInv, SegmentInv
  <2>. QED
    BY <2>1, <2>2
<1>. QED
  BY <1>2, <1>3

\* The empty segment satisfies the invariant.
LEMMA InitInv == Init => WalInv
<1> SUFFICES ASSUME Init PROVE WalInv
  OBVIOUS
<1>1. IsSeq(<<>>) /\ Len(<<>>) = 0
  BY EmptySeq, SeqIsSeq
<1>2. <<{}>> \in Seq({{}}) /\ Len(<<{}>>) = 1 /\ <<{}>>[1] = {}
  OBVIOUS
<1>3. IsSeq(<<{}>>)
  BY <1>2, SeqIsSeq
<1>. QED
  BY <1>1, <1>2, <1>3 DEF Init, WalInv, SegmentInv, AckInv, Steps

\* Frames that stay in place keep what they witness.
LEMMA IntactMonotone ==
  ASSUME NEW f, NEW g, NEW n \in Nat, NEW m \in Nat, n <= m, NEW a,
         \A i \in 1..n : g[i] = f[i], Intact(f, n, a)
  PROVE  Intact(g, m, a)
BY DEF Intact

\* A step that leaves the synced frames in place and acknowledges nothing.
LEMMA AckUnchanged ==
  ASSUME WalInv, UNCHANGED <<quarantined, acked>>,
         synced' \in Nat, synced <= synced',
         \A i \in 1..synced : file'[i] = file[i]
  PROVE  AckInv'
<1>1. synced \in Nat
  BY SeqIsSeq DEF WalInv, SegmentInv, IsSeq
<1>2. \A a \in acked[Len(acked)] : Intact(file', synced', a)
  BY <1>1, IntactMonotone DEF WalInv, AckInv
<1>. QED
  BY <1>2 DEF WalInv, AckInv

\* The tail a failed or a shorter write leaves is a sequence.
LEMMA TailIsSeq ==
  ASSUME WalInv, NEW kind, NEW body,
         tail' = tail \/ tail' \in TornHead(kind, body) \/ tail' \in Residue(kind)
  PROVE  IsSeq(tail')
<1>1. \A x : <<x>> \in Seq({x})
  OBVIOUS
<1>2. \A x : IsSeq(<<x>>)
  BY <1>1, SeqIsSeq
<1>3. IsSeq(<<>>)
  BY EmptySeq, SeqIsSeq
<1>4. IsSeq(tail)
  BY DEF WalInv, SegmentInv
<1>. QED
  BY <1>2, <1>3, <1>4 DEF TornHead, Residue

\* A frame written to the page cache is last, good, and disturbs no other.
LEMMA WriteKeeps ==
  ASSUME WalInv, NEW kind, NEW body, WriteFrame(kind, body)
  PROVE  /\ IsSeq(file') /\ IsSeq(tail')
         /\ Len(file) \in Nat /\ Len(file') = Len(file) + 1
         /\ \A i \in 1..Len(file) : file'[i] = file[i]
         /\ file'[Len(file) + 1] = Frame(kind, body)
         /\ Frame(kind, body).kind = kind /\ Frame(kind, body).image = "good"
<1>1. IsSeq(file) /\ Len(file) \in Nat
  BY SeqIsSeq DEF WalInv, SegmentInv, IsSeq
<1>2. file' = Append(file, Frame(kind, body))
  BY DEF WriteFrame
<1>3. Frame(kind, body).kind = kind /\ Frame(kind, body).image = "good"
  BY DEF Frame
<1>4. IsSeq(tail')
  BY TailIsSeq DEF WriteFrame
<1>. QED
  BY <1>1, <1>2, <1>3, <1>4, AppendSeq

\* The cut that open makes is at or behind every commit record it scanned.
LEMMA FinishReportBounds ==
  ASSUME NEW f, IsSeq(f)
  PROVE  /\ finish_report(f) \in 0..Len(f)
         /\ \A c \in CommitPositions(f) : c <= finish_report(f)
         /\ \A i \in 1..finish_report(f) : f[i].image # "short"
<1>1. Len(f) \in Nat /\ DOMAIN f = 1..Len(f)
  BY SeqIsSeq DEF IsSeq
<1> DEFINE T == {0} \union CommitPositions(f)
<1>2. T \subseteq 0..Len(f) /\ T # {}
  BY <1>1 DEF CommitPositions, Scanned
<1>3. Max(T) \in T /\ \A i \in T : i <= Max(T)
  BY <1>1, <1>2, MaxExists
<1>4. last_commit_end(f) = Max(T)
  BY DEF last_commit_end
<1> HIDE DEF T
<1>5. \A c \in CommitPositions(f) : c \in T /\ c \in 1..Len(f) /\ c \in Scanned(f)
  BY <1>1 DEF T, CommitPositions, Scanned
<1>6. CASE finish_report(f) = last_commit_end(f)
  <2>1. last_commit_end(f) = 0 \/ last_commit_end(f) \in CommitPositions(f)
    BY <1>3, <1>4 DEF T
  <2>2. \A i \in 1..last_commit_end(f) : f[i].image # "short"
    BY <1>1, <2>1, <1>5 DEF Scanned
  <2>. QED
    BY <1>1, <1>2, <1>3, <1>4, <1>5, <1>6, <2>2
<1>7. CASE finish_report(f) = Len(f) /\ Scanned(f) = DOMAIN f
  BY <1>1, <1>5, <1>7 DEF Scanned
<1>. QED
  BY <1>6, <1>7 DEF finish_report

\* Opening a segment that recovers.
LEMMA OpenPreserves == WalInv /\ Open => WalInv'
<1> SUFFICES ASSUME WalInv, Open PROVE WalInv'
  OBVIOUS
<1> DEFINE n == finish_report(file)
<1>1. /\ IsSeq(file) /\ Len(file) \in Nat /\ DOMAIN file = 1..Len(file)
      /\ synced \in 0..Len(file)
  BY SeqIsSeq DEF WalInv, SegmentInv, IsSeq
<1>2. /\ n \in 0..Len(file)
      /\ \A c \in CommitPositions(file) : c <= n
      /\ \A i \in 1..n : file[i].image # "short"
  BY <1>1, FinishReportBounds
<1>3. file' = SubSeq(file, 1, n) /\ synced' = n
  BY DEF Open
<1> HIDE DEF n
<1>4. IsSeq(file') /\ Len(file') = n /\ \A i \in 1..n : file'[i] = file[i]
  BY <1>1, <1>2, <1>3, CutSeq
<1>5. SegmentInv'
  <2>1. tail' = tail /\ pending' = {} /\ step' = "idle"
    BY DEF Open
  <2>. QED
    BY <1>2, <1>3, <1>4, <2>1 DEF WalInv, SegmentInv, Steps
<1>6. ASSUME NEW a, Intact(file, synced, a) PROVE Intact(file', synced', a)
  <2>1. PICK i \in 1..synced, c \in 1..synced :
          /\ i < c /\ file[c].kind = "commit"
          /\ file[i].kind = "obs" /\ file[i].image = "good" /\ file[i].body = a
    BY <1>6 DEF Intact
  <2>2. c \in CommitPositions(file)
    BY <1>1, <2>1 DEF CommitPositions, Scanned, WalInv, SegmentInv
  <2>3. i \in 1..n /\ c \in 1..n
    BY <1>1, <1>2, <2>1, <2>2
  <2>. QED
    BY <1>3, <1>4, <2>1, <2>3 DEF Intact
<1>7. AckInv'
  BY <1>6 DEF Open, WalInv, AckInv
<1>. QED
  BY <1>5, <1>7 DEF WalInv

\* Moving a corrupt segment aside keeps its bytes.
LEMMA QuarantinePreserves == WalInv /\ OpenQuarantines => WalInv'
<1> SUFFICES ASSUME WalInv, OpenQuarantines PROVE WalInv'
  OBVIOUS
<1>1. IsSeq(<<>>) /\ Len(<<>>) = 0
  BY EmptySeq, SeqIsSeq
<1>2. /\ file' = <<>> /\ synced' = 0 /\ tail' = tail /\ step' = "closed"
      /\ pending' = pending /\ step = "closed"
      /\ quarantined' = Append(quarantined, file) /\ acked' = Append(acked, {})
  BY DEF OpenQuarantines, writer
<1>3. /\ IsSeq(quarantined) /\ IsSeq(acked) /\ Len(acked) = Len(quarantined) + 1
      /\ Len(quarantined) \in Nat
  BY SeqIsSeq DEF WalInv, AckInv, IsSeq
<1>4. /\ IsSeq(quarantined') /\ Len(quarantined') = Len(quarantined) + 1
      /\ \A g \in 1..Len(quarantined) : quarantined'[g] = quarantined[g]
      /\ quarantined'[Len(quarantined) + 1] = file
  BY <1>2, <1>3, AppendSeq
<1>5. /\ IsSeq(acked') /\ Len(acked') = Len(acked) + 1
      /\ \A g \in 1..Len(acked) : acked'[g] = acked[g]
      /\ acked'[Len(acked) + 1] = {}
  BY <1>2, <1>3, AppendSeq
<1>6. acked[Len(acked)] \subseteq GoodObservations(file)
  <2>1. AckedRetained
    BY InvImpliesRetained
  <2>2. Len(acked) \in DOMAIN acked /\ Segment(Len(acked)) = file
    BY <1>3, SeqIsSeq DEF IsSeq, Segment
  <2>. QED
    BY <2>1, <2>2 DEF AckedRetained
<1>7. \A g \in 1..Len(quarantined') : acked'[g] \subseteq GoodObservations(quarantined'[g])
  BY <1>3, <1>4, <1>5, <1>6 DEF WalInv, AckInv
<1>8. AckInv'
  BY <1>3, <1>4, <1>5, <1>7 DEF AckInv
<1>9. SegmentInv'
  BY <1>1, <1>2 DEF WalInv, SegmentInv
<1>. QED
  BY <1>8, <1>9 DEF WalInv

\* Power loss keeps what is behind the last barrier.
LEMMA PowerLossPreserves == WalInv /\ PowerLoss => WalInv'
<1> SUFFICES ASSUME WalInv, PowerLoss PROVE WalInv'
  OBVIOUS
<1> DEFINE f == file \o tail
<1>1. /\ IsSeq(f) /\ Len(file) \in Nat /\ Len(f) \in Nat /\ synced \in 0..Len(file)
      /\ \A i \in 1..Len(file) : f[i] = file[i]
  <2>1. IsSeq(file) /\ IsSeq(tail) /\ synced \in 0..Len(file)
    BY DEF WalInv, SegmentInv
  <2>2. Len(file) \in Nat /\ Len(tail) \in Nat
    BY <2>1, SeqIsSeq DEF IsSeq
  <2>. QED
    BY <2>1, <2>2, ConcatSeq
<1>2. PICK n \in synced..Len(f) : \E image :
        file' = [i \in 1..n |->
                   IF i <= synced THEN f[i] ELSE [f[i] EXCEPT !.image = image[i]]]
  BY DEF PowerLoss
<1> HIDE DEF f
<1>3. n \in Nat /\ synced <= n
  BY <1>1, <1>2
<1>4. file' \in [1..n -> {file'[i] : i \in 1..n}] /\ DOMAIN file' = 1..n
  BY <1>2
<1>5. IsSeq(file') /\ Len(file') = n
  <2>1. file' \in Seq({file'[i] : i \in 1..n})
    BY <1>3, <1>4, SeqDef
  <2>2. IsSeq(file') /\ Len(file') \in Nat /\ DOMAIN file' = 1..Len(file')
    BY <2>1, SeqIsSeq
  <2>. QED
    BY <1>3, <1>4, <2>2
<1>6. \A i \in 1..synced : file'[i] = file[i]
  BY <1>1, <1>2, <1>3
<1>7. /\ synced' = synced /\ quarantined' = quarantined /\ acked' = acked
      /\ tail' = <<>> /\ step' = "closed" /\ pending' = {}
  BY DEF PowerLoss, WriterDropped
<1>8. AckInv'
  BY <1>1, <1>6, <1>7, AckUnchanged
<1>9. SegmentInv'
  <2>1. IsSeq(<<>>)
    BY EmptySeq, SeqIsSeq
  <2>2. \A i \in 1..Len(file') : i <= synced => file'[i].image # "short"
    BY <1>1, <1>3, <1>5, <1>6 DEF WalInv, SegmentInv
  <2>. QED
    BY <1>1, <1>3, <1>5, <1>7, <2>1, <2>2 DEF SegmentInv, Steps
<1>. QED
  BY <1>8, <1>9 DEF WalInv

\* A kill leaves the page cache, and with it the file, as it is.
LEMMA StopPreserves == WalInv /\ ProcessStops => WalInv'
<1> SUFFICES ASSUME WalInv, ProcessStops PROVE WalInv'
  OBVIOUS
<1>1. /\ IsSeq(file) /\ IsSeq(tail) /\ synced \in 0..Len(file)
      /\ Len(file) \in Nat /\ Len(tail) \in Nat
  BY SeqIsSeq DEF WalInv, SegmentInv, IsSeq
<1>2. /\ file' = file \o tail /\ synced' = synced /\ quarantined' = quarantined
      /\ acked' = acked /\ tail' = <<>> /\ step' = "closed" /\ pending' = {}
  BY DEF ProcessStops, WriterDropped
<1>3. /\ IsSeq(file') /\ Len(file') = Len(file) + Len(tail)
      /\ \A i \in 1..Len(file) : file'[i] = file[i]
  BY <1>1, <1>2, ConcatSeq
<1>4. AckInv'
  BY <1>1, <1>2, <1>3, AckUnchanged
<1>5. SegmentInv'
  <2>1. IsSeq(<<>>)
    BY EmptySeq, SeqIsSeq
  <2>. QED
    BY <1>1, <1>2, <1>3, <2>1 DEF WalInv, SegmentInv, Steps
<1>. QED
  BY <1>4, <1>5 DEF WalInv

\* Steps that write one frame and sync nothing.
LEMMA WritePreserves ==
  WalInv /\ (CommitWrites \/ SealWrites \/ \E p \in Payloads : append(p)) => WalInv'
<1> SUFFICES ASSUME WalInv,
                    CommitWrites \/ SealWrites \/ \E p \in Payloads : append(p)
             PROVE  WalInv'
  OBVIOUS
<1>1. synced' = synced /\ quarantined' = quarantined /\ acked' = acked
  BY DEF CommitWrites, SealWrites, append
<1>2. synced \in 0..Len(file)
  BY DEF WalInv, SegmentInv
<1>3. ASSUME NEW kind, NEW body, WriteFrame(kind, body)
      PROVE  AckInv'
  <2>1. Len(file) \in Nat /\ \A i \in 1..Len(file) : file'[i] = file[i]
    BY <1>3, WriteKeeps
  <2>. QED
    BY <1>1, <1>2, <2>1, AckUnchanged
<1>4. CASE CommitWrites
  <2>1. WriteFrame("commit", Contents(file, pending)) /\ step' = "commit_sync" /\ pending' = pending
        /\ step = "commit"
    BY <1>4 DEF CommitWrites, writer
  <2>2. SegmentInv'
    BY <1>1, <1>2, <2>1, WriteKeeps DEF WalInv, SegmentInv, Steps
  <2>. QED
    BY <1>3, <2>1, <2>2 DEF WalInv
<1>5. CASE SealWrites
  <2>1. WriteFrame("seal", file) /\ step' = "seal_sync" /\ pending' = pending
        /\ step = "idle"
    BY <1>5 DEF SealWrites, writer
  <2>2. SegmentInv'
    BY <1>1, <1>2, <2>1, WriteKeeps DEF WalInv, SegmentInv, Steps
  <2>. QED
    BY <1>3, <2>1, <2>2 DEF WalInv
<1>6. ASSUME NEW p \in Payloads, append(p) PROVE WalInv'
  <2> DEFINE body == [seq |-> next_sequence, payload |-> p]
  <2>1. /\ WriteFrame("obs", body) /\ step' = step /\ step = "idle"
        /\ pending' = pending \union {Len(file) + 1}
    BY <1>6 DEF append, AppendAccepts
  <2> HIDE DEF body
  <2>2. SegmentInv'
    BY <1>1, <1>2, <2>1, WriteKeeps DEF WalInv, SegmentInv, Steps
  <2>. QED
    BY <1>3, <2>1, <2>2 DEF WalInv
<1>. QED
  BY <1>4, <1>5, <1>6

\* Steps that leave every frame alone and acknowledge nothing: failed writes,
\* failed syncs, an exhausted segment, and the two barriers without an answer.
LEMMA NoFramePreserves ==
  ASSUME WalInv, file' = file, IsSeq(tail'), pending' = pending,
         synced' \in {synced, Len(file)}, UNCHANGED <<quarantined, acked>>,
         step # "closed", step' \in Steps \ {"closed", "commit_sync"}
  PROVE  WalInv'
<1>1. Len(file) \in Nat /\ synced \in 0..Len(file) /\ IsSeq(file)
  BY SeqIsSeq DEF WalInv, SegmentInv, IsSeq
<1>2. AckInv'
  BY <1>1, AckUnchanged
<1>3. SegmentInv'
  BY <1>1 DEF WalInv, SegmentInv
<1>. QED
  BY <1>2, <1>3 DEF WalInv

\* group_commit answers Ok: what it acknowledges is behind the barrier.
LEMMA CommitAcksPreserves == WalInv /\ CommitAcks => WalInv'
<1> SUFFICES ASSUME WalInv, CommitAcks PROVE WalInv'
  OBVIOUS
<1>1. /\ Len(file) \in Nat /\ synced \in 0..Len(file) /\ IsSeq(file)
      /\ IsSeq(acked) /\ Len(acked) \in Nat /\ DOMAIN acked = 1..Len(acked)
      /\ Len(acked) = Len(quarantined) + 1 /\ Len(quarantined) \in Nat
      /\ IsSeq(quarantined)
  BY SeqIsSeq DEF WalInv, SegmentInv, AckInv, IsSeq
<1> DEFINE new == acked[Len(acked)] \union {file[j].body : j \in pending}
<1>2. /\ file' = file /\ tail' = tail /\ synced' = Len(file) /\ pending' = {}
      /\ step' = "idle" /\ quarantined' = quarantined
      /\ acked' = [acked EXCEPT ![Len(acked)] = new] /\ step = "commit_sync"
  BY DEF CommitAcks
<1>3. /\ IsSeq(acked') /\ Len(acked') = Len(acked) /\ acked'[Len(acked)] = new
      /\ \A g \in 1..Len(quarantined) : acked'[g] = acked[g]
  <2>1. DOMAIN acked' = 1..Len(acked)
    BY <1>1, <1>2
  <2>2. acked' \in [1..Len(acked) -> {acked'[g] : g \in 1..Len(acked)}]
    BY <1>1, <1>2
  <2>3. acked' \in Seq({acked'[g] : g \in 1..Len(acked)})
    BY <1>1, <2>2, SeqDef
  <2>4. IsSeq(acked') /\ Len(acked') \in Nat /\ DOMAIN acked' = 1..Len(acked')
    BY <2>3, SeqIsSeq
  <2>. QED
    BY <1>1, <1>2, <2>1, <2>4
<1> HIDE DEF new
<1>4. ASSUME NEW a \in new PROVE Intact(file, Len(file), a)
  <2>1. CASE a \in acked[Len(acked)]
    BY <1>1, <2>1, IntactMonotone DEF WalInv, AckInv
  <2>2. ASSUME NEW j \in pending, a = file[j].body PROVE Intact(file, Len(file), a)
    BY <1>1, <1>2, <2>2 DEF WalInv, SegmentInv, Intact
  <2>. QED
    BY <1>4, <2>1, <2>2 DEF new
<1>5. AckInv'
  BY <1>1, <1>2, <1>3, <1>4 DEF WalInv, AckInv
<1>6. SegmentInv'
  BY <1>1, <1>2 DEF WalInv, SegmentInv, Steps
<1>. QED
  BY <1>5, <1>6 DEF WalInv

\* Every step of the log preserves the invariant.
LEMMA NextInv == WalInv /\ [Next]_vars => WalInv'
<1> SUFFICES ASSUME WalInv, [Next]_vars PROVE WalInv'
  OBVIOUS
<1>0. IsSeq(tail) /\ step \in Steps /\ (step = "closed" \/ step # "closed")
  BY DEF WalInv, SegmentInv
<1>1. CASE Open
  BY <1>1, OpenPreserves
<1>2. CASE OpenQuarantines
  BY <1>2, QuarantinePreserves
<1>3. CASE CommitWrites \/ SealWrites \/ \E p \in Payloads : append(p)
  BY <1>3, WritePreserves
<1>4. ASSUME NEW p \in Payloads, AppendFails(p) PROVE WalInv'
  <2>1. IsSeq(tail')
    BY <1>4, TailIsSeq DEF AppendFails, WriteFrameFails
  <2>. QED
    BY <1>0, <1>4, <2>1, NoFramePreserves
    DEF AppendFails, WriteFrameFails, AppendAccepts, writer, Steps
<1>5. CASE CommitSyncsPending
  BY <1>0, <1>5, NoFramePreserves DEF CommitSyncsPending, writer, Steps
<1>6. CASE CommitAcks
  BY <1>6, CommitAcksPreserves
<1>7. CASE CommitExhausted
  BY <1>0, <1>7, NoFramePreserves DEF CommitExhausted, writer, Steps
<1>8. CASE CommitWriteFails
  <2>1. IsSeq(tail')
    BY <1>8, TailIsSeq DEF CommitWriteFails, WriteFrameFails
  <2>. QED
    BY <1>0, <1>8, <2>1, NoFramePreserves
    DEF CommitWriteFails, WriteFrameFails, writer, Steps
<1>9. CASE SealWriteFails
  <2>1. IsSeq(tail')
    BY <1>9, TailIsSeq DEF SealWriteFails, WriteFrameFails
  <2>. QED
    BY <1>0, <1>9, <2>1, NoFramePreserves
    DEF SealWriteFails, WriteFrameFails, writer, Steps
<1>10. CASE SealAcks
  BY <1>0, <1>10, NoFramePreserves DEF SealAcks, Steps
<1>11. CASE SyncFails
  BY <1>0, <1>11, NoFramePreserves DEF SyncFails, writer, Steps
<1>12. CASE ProcessStops
  BY <1>12, StopPreserves
<1>13. CASE PowerLoss
  BY <1>13, PowerLossPreserves
<1>14. CASE UNCHANGED vars
  <2>1. SegmentInv'
    BY <1>14 DEF vars, WalInv, SegmentInv
  <2>2. AckInv'
    BY <1>14 DEF vars, WalInv, AckInv
  <2>. QED
    BY <2>1, <2>2 DEF WalInv
<1>. QED
  BY <1>1, <1>2, <1>3, <1>4, <1>5, <1>6, <1>7, <1>8, <1>9, <1>10, <1>11, <1>12,
     <1>13, <1>14 DEF Next

\* Whatever the payloads, the sizes, the number of I/O errors, kills and power
\* losses: an observation group_commit returned Ok for stays intact on disk.
THEOREM AckedNeverDestroyed == Spec => []AckedRetained
<1>1. Init => WalInv
  BY InitInv
<1>2. WalInv /\ [Next]_vars => WalInv'
  BY NextInv
<1>3. WalInv => AckedRetained
  BY InvImpliesRetained
<1>. QED
  BY <1>1, <1>2, <1>3, PTL DEF Spec
=============================================================================
