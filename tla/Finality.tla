------------------------------ MODULE Finality ------------------------------
(***************************************************************************)
(* What the chain promises its users: heights become final in order, one   *)
(* block each, and a final block is never replaced (README.md "Finality",  *)
(* docs/CONCEPTS.md "single-slot finality").                               *)
(***************************************************************************)
EXTENDS Integers

CONSTANTS Heights,      \* an initial segment of the natural numbers
          Blocks,       \* what may be finalized
          NoBlock       \* not yet final

VARIABLE final          \* the final block of each height

FinalInit == final = [h \in Heights |-> NoBlock]

\* Height h becomes final, all the heights below it being final.
Finalize(h) ==
    /\ final[h] = NoBlock /\ final'[h] # NoBlock
    /\ \A k \in Heights : k < h => final[k] # NoBlock
    /\ \E b \in Blocks : final' = [final EXCEPT ![h] = b]

FinalNext == \E h \in Heights : Finalize(h)

FinalSpec == FinalInit /\ [][FinalNext]_final
=============================================================================
