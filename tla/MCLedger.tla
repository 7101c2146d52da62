------------------------------ MODULE MCLedger ------------------------------
(* Instances of Ledger for TLC. *)
EXTENDS Ledger

\* Account 1 can bond and pay, account 2 has little.
MCAlloc == [a \in Accounts |-> IF a = 1 THEN 8 ELSE 2]
=============================================================================
