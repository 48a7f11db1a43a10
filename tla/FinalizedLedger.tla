--------------------------- MODULE FinalizedLedger ---------------------------
(***************************************************************************)
(* What a canonicality tracker promises about finality: the finalized      *)
(* blocks of a chain form one linked chain that only ever grows at its     *)
(* upper end.  Ethereum's checkpoints and BSC's finalized tag both         *)
(* implement it.                                                           *)
(***************************************************************************)
EXTENDS Integers

CONSTANTS Blocks, number, parent

VARIABLE final    \* the blocks at or below the finalized one

Linked(chain) ==
    /\ \A b, c \in chain : number[b] = number[c] => b = c
    /\ \A b, c \in chain : number[b] = number[c] + 1 => parent[b] = c

LedgerInit == final = {}

(* Blocks join above all that are there; none leaves. *)
Finalize ==
    /\ final' \subseteq Blocks
    /\ final \subseteq final'
    /\ Linked(final')
    /\ \A b \in final, c \in final' \ final : number[b] < number[c]

LedgerSpec == LedgerInit /\ [][Finalize]_final
=============================================================================
