---------------------------- MODULE MCChainStore ----------------------------
(* Instances of ChainStore for TLC. *)
EXTENDS ChainStore

CONSTANTS
    bad,        \* an app hash no execution gives
    other       \* a block that was not decided

\* The decided block with a wrong app hash, and another block with the right one.
MCStray ==
    [h \in Heights |->
        CASE h = 1 -> {[block |-> 1, app |-> bad], [block |-> other, app |-> <<0, other>>]}
          [] OTHER -> {}]
=============================================================================
