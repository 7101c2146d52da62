------------------------------ MODULE MCRounds ------------------------------
(* Four validators of equal power; the last one may lie or lose its memory.  *)
EXTENDS Rounds, TLC

CONSTANTS v1, v2, v3, v4, b0, b1

MCIds == <<v1, v4, v2, v3>>
MCPower == [v \in Validators |-> 1]
\* v1 leads round 0 and v4 round 1.
MCTicket == (v1 :> 4) @@ (v2 :> 0) @@ (v3 :> 0) @@ (v4 :> 1)
\* The other two lead no round, are the source of none and have the same ticket.
Followers == Permutations({v2, v3})
MCRestartPoints == {<<0, "Prevote">>}
MCBuilt == [r \in 0..MaxRound |-> IF r = 0 THEN {b0} ELSE {b1}]
\* v4 proposes the block of round 0 again, or another one.
MCShown == [r \in 0..MaxRound |-> IF r = 0 THEN {} ELSE {b0, b1}]
MCBase == [s \in {"Propose", "Prevote", "Precommit"} |-> 1]
=============================================================================
