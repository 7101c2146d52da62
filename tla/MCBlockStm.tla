----------------------------- MODULE MCBlockStm -----------------------------
(* Two users, a counter contract c1, and a contract that u1 may deploy.       *)
EXTENDS BlockStm, TLC

CONSTANTS u1, u2, c1

MCInstalled == c1 :> "counter"
MCGenesis == (u1 :> 3) @@ (u2 :> 1)

Send(u, n, v, x) == [kind |-> "transfer", from |-> u, nonce |-> n, to |-> v, amount |-> x]
Stake(k, u, n) == [kind |-> k, from |-> u, nonce |-> n, amount |-> 1]
Deploy(u, n, c) == [kind |-> "deploy", from |-> u, nonce |-> n, code |-> c]
Invoke(u, n, c) == [kind |-> "call", from |-> u, nonce |-> n, to |-> c]

MCTxs ==
    { Send(u1, 0, u2, 1), Send(u1, 1, u2, 2), Send(u2, 0, u2, 1), Send(u2, 0, u1, 2),
      Stake("bond", u2, 0), Stake("unbond", u2, 1),
      Deploy(u1, 0, "counter"), Deploy(u1, 0, "reenter"), Deploy(u2, 0, "invalid"),
      Invoke(u1, 0, c1), Invoke(u1, 1, <<u1, 0>>), Invoke(u2, 0, c1), Invoke(u2, 1, <<u1, 0>>) }
=============================================================================
