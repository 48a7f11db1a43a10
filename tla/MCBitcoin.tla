------------------------------ MODULE MCBitcoin ------------------------------
(***************************************************************************)
(* BitcoinState and Backfill over one tree of sixteen blocks.  They are two *)
(* programs; which one runs is chosen at the start.                        *)
(***************************************************************************)
EXTENDS BitcoinState, Backfill, TLC

CONSTANTS g, a1, a2, a3, b1, b2, b3, b4, c2, c3, d2, d3, e3, e4, x1, y4

VARIABLE program

vars == <<stateVars, backfillVars, program>>

Init ==
    /\ StateInit /\ BackfillInit
    /\ program \in {"state", "backfill"}
    /\ program = "state" => node_tip = a2

Next ==
    \/ program = "state" /\ StateNext /\ UNCHANGED <<backfillVars, program>>
    \/ program = "backfill" /\ BackfillNext /\ UNCHANGED <<stateVars, program>>

Spec == Init /\ [][Next]_vars /\ (program = "backfill" => BackfillFairness)

(* BackfillFinishes, for the program it is about. *)
Finishes == program = "backfill" => BackfillFinishes

MCprev ==
    g :> NoBlock @@ a1 :> g @@ a2 :> a1 @@ a3 :> a2 @@ b1 :> g @@ b2 :> b1 @@ b3 :> b2 @@ b4 :> b3
      @@ c2 :> b1 @@ c3 :> c2 @@ d2 :> a1 @@ d3 :> d2 @@ e3 :> a2 @@ e4 :> e3 @@ x1 :> g @@ y4 :> e3

(* The first interval is slow on branch a and fast on branch b, the second fast
   on a and slow on b.  y4 claims the target that e4 would need if its interval
   had begun with b2; the hash of x1 does not meet its target. *)
MCtimestamp ==
    [b \in Blocks |-> CASE b = g -> 0 [] b \in {a1, b2, c2, d2} -> 4 [] b \in {b1, x1} -> 2
                        [] b = a2 -> 6 [] b \in {a3, b3, c3, d3, e3} -> 8 [] OTHER -> 10]

MCtarget == [b \in Blocks |-> IF b \in {g, a1, a2, a3, b1, d2, d3, e3, x1, y4} THEN 7 ELSE 3]

Coinbase(id, values) == [txid |-> id, coinbase |-> TRUE, inputs |-> <<>>, outputs |-> values]

Pay(id, spends, values) == [txid |-> id, coinbase |-> FALSE, inputs |-> spends, outputs |-> values]

t1 == Pay("t1", <<<<"g", 0>>>>, <<1, 1>>)

(* The branches a and b share t1 and spend its outputs differently.  c2 fails
   at its second transaction (it spends what only a1 creates), after its first
   has been applied; d2 repeats a coinbase of its own ancestor; c3 and d3 are
   fine but for their parents; the outputs of a3 overflow, and so do the inputs
   of x1, at one that x1 creates itself; y4 pays out more than it takes in. *)
MCtransactions ==
    g :> <<Coinbase("g", <<3>>)>> @@
    a1 :> <<Coinbase("a", <<1>>), t1, Pay("t2", <<<<"t1", 0>>>>, <<1>>)>> @@
    a2 :> <<Coinbase("a2", <<1>>), Pay("t3", <<<<"t1", 1>>, <<"a", 0>>>>, <<2>>)>> @@
    a3 :> <<Coinbase("a3", <<1>>), Pay("t6", <<<<"t3", 0>>>>, <<2, 2>>)>> @@
    b1 :> <<Coinbase("b", <<1>>), t1>> @@
    b2 :> <<Coinbase("b2", <<1>>), Pay("t4", <<<<"t1", 0>>>>, <<1>>)>> @@
    b3 :> <<Coinbase("b3", <<1>>)>> @@
    b4 :> <<Coinbase("b4", <<1>>)>> @@
    e3 :> <<Coinbase("e3", <<1>>)>> @@
    e4 :> <<Coinbase("e4", <<1>>)>> @@
    y4 :> <<Coinbase("y4", <<1>>), Pay("t7", <<<<"e3", 0>>>>, <<2>>)>> @@
    c2 :> <<Coinbase("c2", <<1>>), Pay("t4", <<<<"t1", 0>>>>, <<1>>), Pay("t5", <<<<"t2", 0>>>>, <<1>>)>> @@
    c3 :> <<Coinbase("c3", <<1>>)>> @@
    d2 :> <<Coinbase("a", <<1>>)>> @@
    d3 :> <<Coinbase("d3", <<1>>)>> @@
    x1 :> <<Coinbase("x", <<1>>), Pay("t8", <<<<"g", 0>>, <<"x", 0>>>>, <<3>>)>>
=============================================================================
