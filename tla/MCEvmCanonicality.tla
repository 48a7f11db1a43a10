------------------------- MODULE MCEvmCanonicality -------------------------
(***************************************************************************)
(* Both trackers over one tree of eight blocks: two roots with the same    *)
(* unknown parent, two branches that fork from the first, and a second     *)
(* fork on the longer one.  A process serves one chain, so the tracker is  *)
(* chosen at the start and the other one's variables stay as they are.     *)
(***************************************************************************)
EXTENDS EthereumCanonicality, BscCanonicality, TLC

CONSTANTS g, h, a1, a2, a3, b1, b2, c2

VARIABLE tracker

bscOwn == <<last_observed_at, last_finality_change_at>>

Init ==
    /\ tracker \in {"ethereum", "bsc"}
    /\ EthereumInit
    /\ BscInit

Ethereum(action) == tracker = "ethereum" /\ action /\ UNCHANGED <<bscOwn, tracker>>

Bsc(action) == tracker = "bsc" /\ action /\ UNCHANGED <<safe, tracker>>

(* The disjuncts of EthereumNext and BscNext. *)
Next ==
    \/ \E s \in Segments : Ethereum(commit_segment(s))
    \/ \E old, new \in Segments : Ethereum(reorg(old, new))
    \/ \E s, f \in Blocks : Ethereum(observe_checkpoint(s, f))
    \/ \E s \in Segments : Bsc(bsc_commit_segment(s))
    \/ \E old, new \in Segments : Bsc(bsc_reorg(old, new))
    \/ \E b \in Blocks, at \in 1 .. MaxTime : Bsc(observe_finalized(b, at))

Spec == Init /\ [][Next]_<<ethereumVars, bscOwn, tracker>>

MCnumber == g :> 5 @@ h :> 5 @@ a1 :> 6 @@ a2 :> 7 @@ a3 :> 8 @@ b1 :> 6 @@ b2 :> 7 @@ c2 :> 7

MCparent == g :> NoBlock @@ h :> NoBlock @@ a1 :> g @@ a2 :> a1 @@ a3 :> a2 @@ b1 :> g @@ b2 :> b1 @@ c2 :> a1
=============================================================================
