----------------------------- MODULE MCServices -----------------------------
(* The edges of a node beside gossip: its peer table, its files, its clients.   *)
(* They share no state, so a behaviour takes the steps of one of them and the   *)
(* instance is the sum of theirs.                                               *)
EXTENDS Peers, Config, Services

VARIABLE edge

all_vars == <<edge, peer_vars, config_vars, service_vars>>

MCInit ==
    /\ edge \in {"peers", "files", "clients"}
    /\ PeersInit /\ ConfigInit /\ ServicesInit
    /\ edge # "clients" => clients = {"sdk", "subscriber"}

MCNext ==
    /\ UNCHANGED edge
    /\ \/ edge = "peers" /\ PeersNext /\ UNCHANGED <<config_vars, service_vars>>
       \/ edge = "files" /\ ConfigNext /\ UNCHANGED <<peer_vars, service_vars>>
       \/ edge = "clients" /\ ServicesNext /\ UNCHANGED <<peer_vars, config_vars>>

MCSpec == MCInit /\ [][MCNext]_all_vars

\* Two addresses of a /24, one more of their /16, and an IPv6 address.
MCAddresses == {<<10, 1, 1, 1>>, <<10, 1, 1, 2>>, <<10, 1, 18, 1>>, <<32, 1, 13, 184, 0, 1>>}
MCStats == {[valid_msgs |-> v, invalid_msgs |-> 1, latency_ms |-> 60] : v \in {0, 5}}

\* The default registry has no staking parameters.
MCGenesis ==
    [chain_id |-> 1, alloc |-> <<<<8, 100, 0, 0>>>>, validators |-> <<<<1, 1>>, <<2, 1>>>>,
     registry |-> [i \in 1 .. 10 |-> <<ParamId[i], i>>], timeouts |-> <<3, 2, 2, 1>>]
MCBootLists == {<<<<<<21>>, <<1, 9>>>>, <<<<22>>, <<2, 9>>>>>>, <<<<<<21>>, <<3, 9>>>>>>}
MCVrfKeys == <<<<1, 31>>, <<2, 32>>>>
MCSecretKeys == <<41, 42, 43>>

MCClients == {{"gated_faucet"}, {"http_faucet", "sdk"}, {"sdk", "subscriber"}}
=============================================================================
