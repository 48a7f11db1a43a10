------------------------------ MODULE MCSolana ------------------------------
(***************************************************************************)
(* The Solana components.  SolanaCanonicality and the two bookkeepers of   *)
(* Yellowstone share no state; which one runs is chosen at the start.      *)
(***************************************************************************)
EXTENDS SolanaCanonicality, Yellowstone, TLC

CONSTANTS r, a, b, c, p, q

VARIABLE program

vars == <<solanaVars, yellowstoneVars, program>>

Init == SolanaInit /\ YellowstoneInit /\ program \in {"canonicality", "cursor", "provider"}

Next ==
    \/ program = "canonicality" /\ SolanaNext /\ UNCHANGED <<yellowstoneVars, program>>
    \/ program = "cursor" /\ CursorNext /\ UNCHANGED <<solanaVars, program>>
    \/ program = "provider" /\ ProviderNext /\ UNCHANGED <<solanaVars, program>>

Spec == Init /\ [][Next]_vars

MCslot == r :> 1 @@ a :> 2 @@ b :> 3 @@ c :> 4

(* c is reported below a by one source and below b by another. *)
MCClaims == {<<r, NoFork>>, <<a, r>>, <<b, r>>, <<c, a>>, <<c, b>>}

(* A report that is older than what is known arrives late. *)
MCReports ==
    {<<r, "Finalized">>, <<a, "Processed">>, <<a, "Confirmed">>, <<b, "Confirmed">>, <<c, "Received">>, <<c, "Finalized">>}

Write(f, k, v) == [fork_id |-> f, pubkey |-> k, write_version |-> v]

MCWrites == {Write(r, p, 1), Write(a, p, 1), Write(a, p, 2), Write(b, q, 2), Write(c, p, 1)}

MCExecutions == {[fork_id |-> c, signature |-> 1]}
=============================================================================
