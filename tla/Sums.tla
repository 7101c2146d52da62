-------------------------------- MODULE Sums --------------------------------
(***************************************************************************)
(* Sums over finite sets, the iter().sum() of the crates.                  *)
(***************************************************************************)
EXTENDS Integers, FiniteSets, FiniteSetsExt

\* The sum of f[x] over the elements x of S.
SumOf(f, S) == MapThenSumSet(LAMBDA x : f[x], S)
=============================================================================
