------------------------------- MODULE MCWire -------------------------------
(* The instance of Wire: one-byte ids and signatures, two-byte fixed        *)
(* integers, three-byte varints; valid values of every type, values just    *)
(* past the checks (lists, pages and manifests one item too long, a         *)
(* manifest that miscounts its pages), and every short byte string around   *)
(* the varint rules and the two u16 fields.                                 *)
EXTENDS Wire

Net == <<116>>
NameA == <<97, 46, 98>>     \* a.b
NameB == <<99, 46, 98>>     \* c.b
TldB == <<98>>
K1 == <<1>>
K2 == <<2>>
S == <<9>>
Msg(m) == [kind |-> "message", val |-> m]
TxMsg(tx) == Msg([msg |-> "Transaction", body |-> tx])

Data(e, h) ==
    [epoch_le |-> e, height_le |-> h, recovery_le |-> 0, block_hash |-> <<h % 251>>,
     prev_checkpoint_hash |-> <<7>>, state_root |-> <<8>>]
SlashOf(a, b, k) ==
    slash_on(Net, K1, a, sign(K1, signing_hash(a)), b, sign(k, signing_hash(b)), K2, S)

Ints == {0, 1, 127, 128, 16383, 16384, U64_MAX}

Txs ==
    {register_domain_on(Net, NameA, t, p, K1, S) : t \in Ints, p \in {<<>>, <<5, 6>>, <<5, 6, 7>>}}
    \cup {register_tld_on(Net, n, 1, <<5>>, K2, S) : n \in {TldB, <<98, 49>>}}
    \cup {update_domain_on(n, <<1>>, q, <<2>>, K1, S) : n \in {Net, <<45, 116>>}, q \in {0, 1, 300}}
    \cup {transfer_tld_on(Net, <<3>>, <<4>>, K1, S), transfer_domain_on(Net, <<3>>, <<4>>, K1, S),
          revoke_tld_on(Net, <<3>>, K1, S), assign_domain_on(Net, NameB, <<4>>, K1, S),
          renew_domain_on(Net, <<1>>, 129, K1, S)}
    \cup {set_tld_open_on(Net, <<3>>, o, K1, S) : o \in BOOLEAN}
    \cup {[assign_domain_on(Net, NameB, <<4>>, K1, S) EXCEPT !.domain_id = <<0>>],
          [renew_domain_on(Net, <<1>>, 0, K1, S) EXCEPT !.owner = <<0>>]}
    \cup {SlashOf(Data(1, 2), Data(1, 3), K1), SlashOf(Data(1, 2), Data(1, 3), K2),
          SlashOf(Data(1, 2), Data(1, 2), K1), SlashOf(Data(1, 2), Data(2, 2), K1)}

TxOk == renew_domain_on(Net, <<1>>, 129, K1, S)
Header(v) ==
    [version |-> v, height |-> 128, prev_hash |-> <<1>>, tx_root |-> <<2>>, timestamp |-> 3,
     consensus |-> <<4>>]
Blocks ==
    {[header |-> Header(v), transactions |-> txs] :
        v \in {0, 1, 2}, txs \in {<<>>, <<TxOk>>, <<TxOk, TxOk, TxOk>>}}

RR(code, unknown, rest) == [code |-> code, unknown |-> unknown] @@ rest
Address == RR(1, FALSE, [address |-> <<4>>])
Address6 == RR(28, FALSE, [address |-> <<4>>])
Alias == RR(5, FALSE, [name |-> NameA])
Mail == RR(15, FALSE, [preference |-> 10, name |-> NameA])
Text == RR(16, FALSE, [text |-> <<72, 105>>])
Server == RR(2, FALSE, [name |-> NameA])
Other == RR(257, TRUE, [data |-> <<200>>])
Masked == RR(16, TRUE, [data |-> <<200>>])
RecordSets ==
    {<<>>, <<Address>>, <<Address6, Address>>, <<Alias, Server>>, <<Mail, Text>>, <<Other>>,
     <<Masked>>, <<Text, Text>>, <<Address, Alias, Text>>}
Records ==
    {[record |-> [domain_id |-> <<1>>, sequence |-> q, expiration |-> 0, records |-> rs],
      owner |-> <<2>>, record_signature |-> <<3>>] : q \in {0, 1}, rs \in RecordSets}

Signer(k) == [public_key |-> k, signature |-> S]
Checkpoints ==
    {[data |-> Data(1, 258), signatures |-> s] :
        s \in {<<>>, <<Signer(K1)>>, <<Signer(K1), Signer(K2)>>, <<Signer(K2), Signer(K1)>>,
               <<Signer(K1), Signer(K1)>>}}

Plain ==
    {[msg |-> "Hello", version |-> v] : v \in 0..2}
    \cup {[msg |-> m] : m \in {"Ping", "Pong", "GetCheckpoints"}}
    \cup {[msg |-> "GetBlock", hash |-> <<1>>], [msg |-> "GetRecord", domain_id |-> <<1>>]}
    \cup {[msg |-> "GetBlocks", start_height |-> h, max_blocks |-> n] : h \in {0, 200}, n \in {1, 128, 129}}

DState(hash) ==
    [owner |-> <<1>>, sequence_be |-> 258, registered_at_be |-> 3, valid_until_be |-> 4,
     hash |-> hash]
DBytes(hash) == Padded(DomainState_encode(DState(hash)).bytes, DOMAIN_STATE_LEN_SOME)
TState(open) == [owner |-> <<1>>, open |-> open]
TEntry(id) == [entry |-> "tld", id |-> id, state |-> TldState_encode(TState(TRUE)).bytes]
Pages ==
    {[index_be |-> 0, height_be |-> 1, state_root |-> <<8>>, entries |-> e] :
        e \in {<<>>, <<[entry |-> "domain", id |-> <<1>>, state |-> DBytes(<<>>)]>>,
               <<[entry |-> "domain", id |-> <<1>>, state |-> DBytes(<<9>>)],
                 TEntry(<<2>>)>>,
               <<TEntry(<<1>>), TEntry(<<2>>), TEntry(<<3>>)>>}}
Manifests ==
    {[height_be |-> 1, tip_hash |-> <<2>>, state_root |-> <<8>>, page_count_be |-> n,
      domain_count_be |-> 1, tld_count_be |-> 1, page_hashes |-> h] :
        n \in 0..3, h \in {<<>>, <<(<<5>>)>>, <<(<<5>>), (<<6>>)>>, <<(<<5>>), (<<6>>), (<<7>>)>>}}

MCPages == {[kind |-> "page", val |-> g] : g \in Pages}
MCSamples ==
    {TxMsg(tx) : tx \in Txs}
    \cup {Msg([msg |-> "Block", body |-> k]) : k \in Blocks}
    \cup {Msg([msg |-> "Record", body |-> r]) : r \in Records}
    \cup {Msg([msg |-> "Checkpoint", body |-> c]) : c \in Checkpoints}
    \cup {Msg(m) : m \in Plain}
    \cup {[kind |-> "u64", val |-> v] : v \in Ints}
    \cup {[kind |-> "unsigned", val |-> Unsigned_from(TxOk)]}
    \cup {[kind |-> "domain_state", val |-> DState(h)] : h \in {<<>>, <<9>>}}
    \cup {[kind |-> "tld_state", val |-> TState(o)] : o \in BOOLEAN}
    \cup {[kind |-> "manifest", val |-> m] : m \in Manifests}
    \cup MCPages
    \cup {[kind |-> "marker", val |-> [height_be |-> 1, tip_hash |-> <<2>>, manifest_hash |-> <<3>>]]}

VarintBytes == {0, 1, 2, 127, 128, 129, 255}
\* A message with one resource record, whose u16 fields may exceed their range.
RawRecord(rr) == <<msg_type.Record, 1, 1, 0, 1>> \o rr \o <<2, 1, 3>>
RawRecords ==
    UNION {{RawRecord(<<dns_type.MX>> \o put_u64(v) \o <<3>> \o NameA),
            RawRecord(put_u64(v) \o <<1, 200>>)} : v \in {U16_MAX, U16_MAX + 1}}
MCRawInputs ==
    {[kind |-> "u64", wire |-> b] : b \in UNION {[1..n -> VarintBytes] : n \in 0..4}}
    \cup {[kind |-> "message", wire |-> b] : b \in RawRecords}
MCNoise == {0, 1, 2, 45, 46, 97, 128, 129, 255}
\* A page whose one entry, a state without hash, declares the longer length.
MCRawPages ==
    {[kind |-> "page",
      wire |-> PAGE_TAG \o put_be(0) \o put_be(1) \o <<8>> \o put_be(1) \o <<1, 1>>
                  \o put_be(DOMAIN_STATE_LEN_SOME)
                  \o DomainState_encode(DState(<<>>)).bytes \o <<b>>] : b \in {0, 77}}
=============================================================================
