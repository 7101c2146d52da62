-------------------------------- MODULE Maps --------------------------------
(***************************************************************************)
(* Functions with a finite domain as the BTreeMaps of the crates.          *)
(***************************************************************************)

\* BTreeMap::insert
Put(f, k, v) == [x \in DOMAIN f \cup {k} |-> IF x = k THEN v ELSE f[x]]

\* An insert of every entry of g.
PutAll(f, g) == [x \in DOMAIN f \cup DOMAIN g |-> IF x \in DOMAIN g THEN g[x] ELSE f[x]]

\* BTreeMap::remove
Without(f, k) == [x \in DOMAIN f \ {k} |-> f[x]]

\* What get gives for a map of numbers, 0 for a key that is not there.
CountOf(f, k) == IF k \in DOMAIN f THEN f[k] ELSE 0
=============================================================================
