------------------------------- MODULE Config -------------------------------
(***************************************************************************)
(* The files a node starts from and goes on reading (node::config): an     *)
(* operator writes them, is killed and starts over, and rewrites the       *)
(* bootstrap list while the node runs, which reads it every 250 ms.  A     *)
(* write empties the file and then fills it from the front, so a reader    *)
(* finds any prefix.                                                       *)
(***************************************************************************)
EXTENDS Codec, FiniteSets, FiniteSetsExt

CONSTANTS
    Genesis,        \* chain id; alloc, validators, registry as lists in key order; timeouts
    BootLists,      \* the bootstrap lists of the operator: lists of peer and address
    VrfKeys,        \* list of validator and VRF key
    SecretKeys,     \* the three secret keys
    MaxRewrites,    \* bound: runs of the operator
    NoNode

\* "keys" stands for ed25519, bls_sk and vrf_sk; vrf_secrets.bin is like vrf_pks.bin.
FileNames == {"genesis.bin", "keys", "bootstrap.bin", "vrf_pks.bin"}

VARIABLES
    files,          \* contents by name; a file that does not exist has none
    writing,        \* the files the operator still has to write, with their bytes
    lists,          \* history: the bootstrap lists the operator has begun to write
    running,        \* NoNode, or the configuration the node started with
    dialled,        \* pairs of peer and address the node has dialled
    rewrites

config_vars == <<files, writing, lists, running, dialled, rewrites>>

----------------------------------------------------------------------------
(* genesis.bin.                                                            *)

ParamId ==
    <<"MaxBlockBytes", "MaxTxBytes", "MaxGas", "EpochLength", "UnbondingPeriod",
      "TimeoutProposeMs", "TimeoutPrevoteMs", "TimeoutPrecommitMs", "TimeoutDeltaMs",
      "MaxTimestampDriftMs", "MinSelfBond", "DelegationCap", "SlashPercent">>

param_id_byte(id) == CHOOSE b \in 0 .. 12 : ParamId[b + 1] = id

\* None for a byte of no parameter.
param_from_byte(b) == IF b \in 0 .. 12 THEN Ok(ParamId[b + 1]) ELSE Err

\* A count, then the entries one after the other.
Counted(entries) == <<Len(entries)>> \o FlattenSeq(entries)

genesis_preimage(g) ==
    <<g.chain_id>> \o Counted(g.alloc) \o Counted(g.validators)
      \o Counted([i \in DOMAIN g.registry |->
                     <<param_id_byte(g.registry[i][1]), g.registry[i][2]>>])
      \o g.timeouts

encode_genesis(g) == encode(genesis_preimage(g))

\* The count at i and that many entries of width symbols.
TakeCounted(p, i, width) ==
    IF i > Len(p) \/ i + p[i] * width > Len(p) THEN Err
    ELSE Ok([items |-> [j \in 1 .. p[i] |-> SubSeq(p, i + (j - 1) * width + 1, i + j * width)],
             next |-> i + p[i] * width + 1])

decode_genesis(buf) ==
    Then(decode(buf), LAMBDA p :
      Then(TakeCounted(p, 2, 4), LAMBDA alloc :
        Then(TakeCounted(p, alloc.next, 2), LAMBDA validators :
          Then(TakeCounted(p, validators.next, 2), LAMBDA registry :
            IF registry.next + 3 # Len(p) THEN Err
            ELSE Then(DecodeEach(registry.items, LAMBDA e :
                        Then(param_from_byte(e[1]), LAMBDA id : Ok(<<id, e[2]>>))), LAMBDA params :
              Ok([chain_id |-> p[1], alloc |-> alloc.items, validators |-> validators.items,
                  registry |-> params, timeouts |-> SubSeq(p, registry.next, Len(p))]))))))

----------------------------------------------------------------------------
(* bootstrap.bin and vrf_pks.bin, which have no length in front.           *)

boot_bytes(list) ==
    <<Len(list)>> \o FlattenSeq([i \in DOMAIN list |-> prefixed(list[i][1]) \o prefixed(list[i][2])])

\* The entry at position i, if the file has all of it.
boot_entry(b, i) ==
    Then(take(b, i), LAMBDA peer :
      Then(take(b, peer.next), LAMBDA addr :
        Ok([pair |-> <<peer.item, addr.item>>, next |-> addr.next])))

\* Up to n entries from position 2; the list ends where the file does.
boot_entries(b, n) ==
    LET upto[k \in 0 .. n] ==
          IF k = 0 THEN [pairs |-> {}, next |-> Ok(2)]
          ELSE LET got == upto[k - 1]
                   entry == Then(got.next, LAMBDA i : boot_entry(b, i))
               IN  [pairs |-> got.pairs \cup {e.pair : e \in entry},
                    next |-> {e.next : e \in entry}]
    IN  upto[n].pairs

\* Mutant: an entry that is cut off is taken for what there is of it.
load_bootstrap_short(b) ==
    IF b = <<>> THEN {}
    ELSE boot_entries(b, b[1]) \cup
         UNION {{<<peer.item, SubSeq(b, peer.next + 1, Len(b))>> : peer \in take(b, i)} : i \in 2 .. Len(b) - 3}

load_bootstrap(b) == IF b = <<>> THEN {} ELSE boot_entries(b, b[1])

vrf_bytes(keys) == FlattenSeq(keys)

\* main: pairs as long as there is a whole one.
read_vrf(b) == {<<b[2 * j - 1], b[2 * j]>> : j \in 1 .. Len(b) \div 2}

\* load_dir: nothing without a whole genesis and whole keys; the bootstrap list is
\* as long as it is.
load_dir(fs) ==
    Then(decode_genesis(fs["genesis.bin"]), LAMBDA genesis :
      IF Len(fs["keys"]) # 3 THEN Err
      ELSE Ok([genesis |-> genesis, bootstrap |-> load_bootstrap(fs["bootstrap.bin"]),
               vrf_pks |-> read_vrf(fs["vrf_pks.bin"])]))

\* Lists of fixed width and pairs of strings, as the types of the fields have it.
Entries(list, width) ==
    IsSeq(list) /\ \A i \in 1 .. Len(list) : IsSeq(list[i]) /\ Len(list[i]) = width

ASSUME ConfigAssumption ==
    /\ Genesis = [chain_id |-> Genesis.chain_id, alloc |-> Genesis.alloc,
                  validators |-> Genesis.validators, registry |-> Genesis.registry,
                  timeouts |-> Genesis.timeouts]
    /\ Entries(Genesis.alloc, 4) /\ Entries(Genesis.validators, 2) /\ IsSeq(Genesis.registry)
    /\ \A i \in 1 .. Len(Genesis.registry) :
          \E id \in Range(ParamId) : Genesis.registry[i] = <<id, Genesis.registry[i][2]>>
    /\ IsSeq(Genesis.timeouts) /\ Len(Genesis.timeouts) = 4
    /\ Entries(VrfKeys, 2) /\ IsSeq(SecretKeys)
    /\ \A list \in BootLists :
          /\ Entries(list, 2)
          /\ \A i \in 1 .. Len(list) : IsSeq(list[i][1]) /\ IsSeq(list[i][2])

----------------------------------------------------------------------------
(* The operator and the node.                                              *)

\* A file to write, not opened yet.
Job(name, bytes) == [name |-> name, bytes |-> bytes, at |-> -1]

\* write_dir, then write_vrf_pks, as one run of the operator; a run that was killed is
\* followed by another.
WriteDir(list) ==
    /\ rewrites < MaxRewrites
    /\ rewrites' = rewrites + 1
    /\ writing' = <<Job("genesis.bin", encode_genesis(Genesis)),
                    Job("keys", SecretKeys),
                    Job("bootstrap.bin", boot_bytes(list)),
                    Job("vrf_pks.bin", vrf_bytes(VrfKeys))>>
    /\ lists' = lists \cup {list}
    /\ UNCHANGED <<files, running, dialled>>

write_bootstrap(list) ==
    /\ writing = <<>> /\ running # NoNode /\ rewrites < MaxRewrites
    /\ rewrites' = rewrites + 1
    /\ writing' = <<Job("bootstrap.bin", boot_bytes(list))>>
    /\ lists' = lists \cup {list}
    /\ UNCHANGED <<files, running, dialled>>

\* fs::write: opening empties the file, then it grows.
WriteSome ==
    /\ writing # <<>>
    /\ LET job == Head(writing)
       IN  \E n \in job.at + 1 .. Len(job.bytes) :
              /\ files' = [files EXCEPT ![job.name] = SubSeq(job.bytes, 1, n)]
              /\ writing' = IF n = Len(job.bytes) THEN Tail(writing)
                            ELSE [writing EXCEPT ![1].at = n]
    /\ UNCHANGED <<lists, running, dialled, rewrites>>

\* main: load_dir or panic, then dial the list.
Boot ==
    /\ running = NoNode
    /\ running' \in load_dir(files)
    /\ dialled' = running'.bootstrap
    /\ UNCHANGED <<files, writing, lists, rewrites>>

\* The event loop reads the list again and dials all of it.
Redial ==
    /\ running # NoNode
    /\ dialled' = dialled \cup load_bootstrap(files["bootstrap.bin"])
    /\ UNCHANGED <<files, writing, lists, running, rewrites>>

ConfigInit ==
    /\ files = [f \in FileNames |-> <<>>]
    /\ writing = <<>> /\ lists = {} /\ running = NoNode /\ dialled = {} /\ rewrites = 0

ConfigNext ==
    \/ \E list \in BootLists : WriteDir(list) \/ write_bootstrap(list)
    \/ WriteSome
    \/ Boot
    \/ Redial

ConfigSpec == ConfigInit /\ [][ConfigNext]_config_vars

----------------------------------------------------------------------------
\* A file that is cut off puts nothing wrong in place of what it held: a node only
\* ever starts with the operator's genesis, symbol for symbol (decode_genesis), dials
\* no peer at an address that no list has for it (load_bootstrap), and believes no
\* VRF key that is not one.  It may well end up with fewer peers or keys.
TornFilesHarmless ==
    /\ running # NoNode =>
          /\ genesis_preimage(running.genesis) = genesis_preimage(Genesis)
          /\ running.vrf_pks \subseteq Range(VrfKeys)
    /\ dialled \subseteq UNION {Range(list) : list \in lists}
=============================================================================
