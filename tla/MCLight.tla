------------------------------ MODULE MCLight ------------------------------
(* Three accounts with a common prefix, one of them funded at genesis, three
   slots one of which is a prefix of another, two heights.                 *)
EXTENDS Light

MCAddresses == {<<<<0, 0>>, <<0, 0>>>>, <<<<0, 0>>, <<0, 1>>>>, <<<<0, 1>>, <<1, 0>>>>}
MCGenesis == [a \in MCAddresses |-> IF a = <<<<0, 0>>, <<0, 0>>>> THEN Some(1) ELSE Absent]
MCSlots == {<<<<0, 1>>>>, <<<<0, 1>>, <<0, 0>>>>, <<<<0, 1>>, <<0, 1>>>>}
MCPackets == {<<1>>, <<1, 2, 1>>}
MCRent == [b \in Balances |-> 2]
MCPower == [v \in Validators |-> 1]

\* All validators with their power; the minority's one key three times over and the
\* key of no validator, each with the power it has and with that of a quorum.
MCClaims ==
    {[signers |-> <<1, 2, 3, 4>>, power |-> 4],
     [signers |-> <<4, 4, 4>>, power |-> 1], [signers |-> <<4, 4, 4>>, power |-> 3],
     [signers |-> <<0>>, power |-> 0], [signers |-> <<0>>, power |-> 4]}
=============================================================================
