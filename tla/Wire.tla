-------------------------------- MODULE Wire --------------------------------
(***************************************************************************)
(* What travels between peers and what lies in the store: DNS records      *)
(* (record.rs), checkpoints (checkpoint.rs), blocks (block.rs) and         *)
(* messages (message.rs) of scone-protocol; registry entries               *)
(* (state_bytes.rs), snapshot manifest, pages and marker                   *)
(* (verified_snapshot.rs) of scone-storage.                                *)
(*                                                                         *)
(* The machine sends one value, lets the channel damage the bytes once     *)
(* (replace a byte, insert one, cut the end), and decodes what arrives.    *)
(***************************************************************************)
EXTENDS TxCodec

CONSTANTS
    PROTOCOL_VERSION,       \* 1 in the code
    MAX_LIST,               \* records, transactions, signers, pages, entries of one list
    MAX_BLOCKS_PER_REQUEST, \* 128 in the code
    Samples,                \* what is sent: records [kind, val]
    RawInputs,              \* what arrives without being sent: records [kind, wire]
    Noise                   \* the bytes the channel may put on the wire

VARIABLES
    kind,   \* the decoder the receiver will use
    sent,   \* what the sender encoded: [ok, val], [ok |-> FALSE] for a raw input
    wire,   \* the bytes under way: [ok, bytes], [ok |-> FALSE] when the encoder refused
    intact, \* the channel has not touched them
    got     \* what the receiver decoded, or the word Pending

vars == <<kind, sent, wire, intact, got>>
Pending == [pending |-> TRUE]

-----------------------------------------------------------------------------
\* Lists

\* Lexicographic order of byte strings, as Vec<u8> and arrays compare.
Less(a, b) ==
    \/ \E i \in DOMAIN a \cap DOMAIN b : SubSeq(a, 1, i - 1) = SubSeq(b, 1, i - 1) /\ a[i] < b[i]
    \/ Len(a) < Len(b) /\ SubSeq(b, 1, Len(a)) = a

Ascending(s) == \A i \in 1..(Len(s) - 1) : Less(s[i], s[i + 1])

\* count varint, then that many items; a bad item refuses the list.
TakeItems(count, Take(_), b) ==
    FoldLeft(LAMBDA r, i : Then(r, LAMBDA s, rest : Then(Take(rest),
                 LAMBDA v, rest2 : Decoded(Append(s, v), rest2))),
             Decoded(<<>>, b), [i \in 1..count |-> i])

take_list(Take(_), b) ==
    Then(take_u64(b),
         LAMBDA count, rest : IF count > MAX_LIST THEN Refused ELSE TakeItems(count, Take, rest))

\* The encodings of the items of a list, refused when one of them is.
EncodeAll(encodings) ==
    IF \A i \in DOMAIN encodings : encodings[i].ok
    THEN Encoded([i \in DOMAIN encodings |-> encodings[i].bytes])
    ELSE Refused

PutList(e) ==
    IF e.ok /\ Len(e.bytes) <= MAX_LIST
    THEN Encoded(put_u64(Len(e.bytes)) \o FlattenSeq(e.bytes))
    ELSE Refused

Joined(e1, e2) == IF e1.ok /\ e2.ok THEN Encoded(e1.bytes \o e2.bytes) ELSE Refused

-----------------------------------------------------------------------------
\* record.rs

dns_type == [A |-> 1, NS |-> 2, CNAME |-> 5, MX |-> 15, TXT |-> 16, AAAA |-> 28]
is_known(code) == \E t \in DOMAIN dns_type : dns_type[t] = code

\* One resource record: the fields behind its type code.
RecordFields(code) ==
    CASE code \in {1, 28} -> <<"address">>
      [] code \in {2, 5} -> <<"name">>
      [] code = 15 -> <<"preference", "name">>
      [] code = 16 -> <<"text">>
      [] OTHER -> <<"data">>

\* `unknown` marks the variant Unknown, which must not carry a known code.
RecordData_encode(r) ==
    IF r.unknown /\ is_known(r.code) THEN Refused
    ELSE Prefixed(put_u64(r.code),
                  put_fields(IF r.unknown THEN <<"data">> ELSE RecordFields(r.code), r))

RecordData_decode(b) ==
    Then(take_int(U16_MAX, b), LAMBDA code, rest :
        take_fields(RecordFields(code), rest, [code |-> code, unknown |-> ~is_known(code)]))

DnsRecord_validate(d) == d.sequence # 0 /\ d.records # <<>>

SortedRecords(e) == Encoded(SortSeq(e.bytes, Less))

\* Mutant: the encoder keeps the caller's order.
DnsRecord_encode_mut(d) ==
    LET e == EncodeAll([i \in DOMAIN d.records |-> RecordData_encode(d.records[i])])
    IN IF ~DnsRecord_validate(d) \/ ~e.ok THEN Refused
       ELSE Joined(put_fields(<<"domain_id", "sequence", "expiration">>, d), PutList(e))

\* The encoder sorts the encoded records and refuses duplicates.
DnsRecord_encode(d) ==
    LET e == EncodeAll([i \in DOMAIN d.records |-> RecordData_encode(d.records[i])])
    IN IF ~DnsRecord_validate(d) \/ ~e.ok THEN Refused
       ELSE IF ~Ascending(SortedRecords(e).bytes) THEN Refused
       ELSE Joined(put_fields(<<"domain_id", "sequence", "expiration">>, d),
                   PutList(SortedRecords(e)))

\* The decoder demands the strictly ascending order it will not restore.
DnsRecord_decode(b) ==
    Checked(
        Then(take_fields(<<"domain_id", "sequence", "expiration">>, b, <<>>),
             LAMBDA d, b1 : Then(take_list(RecordData_decode, b1),
             LAMBDA rs, b2 : Decoded(d @@ [records |-> rs], b2))),
        LAMBDA d : /\ Ascending([i \in DOMAIN d.records |-> RecordData_encode(d.records[i]).bytes])
                   /\ DnsRecord_validate(d))

SignedDnsRecord_encode(s) ==
    Joined(DnsRecord_encode(s.record), put_fields(<<"owner", "record_signature">>, s))
SignedDnsRecord_decode(b) ==
    Then(DnsRecord_decode(b), LAMBDA d, rest :
        take_fields(<<"owner", "record_signature">>, rest, [record |-> d]))

-----------------------------------------------------------------------------
\* checkpoint.rs

CHECKPOINT_WIRE_TAG == <<67, 75>>

SignersSorted(sigs) == Ascending([i \in DOMAIN sigs |-> sigs[i].public_key])

Checkpoint_encode(c) ==
    IF ~SignersSorted(c.signatures) THEN Refused
    ELSE Prefixed(CHECKPOINT_WIRE_TAG \o put_checkpoint_data(c.data),
                  PutList(EncodeAll([i \in DOMAIN c.signatures |->
                      put_fields(<<"public_key", "signature">>, c.signatures[i])])))

TakeTag(tag, b) == Checked(take_array(Len(tag), b), LAMBDA t : t = tag)

Checkpoint_decode(b) ==
    Checked(
        Then(TakeTag(CHECKPOINT_WIRE_TAG, b), LAMBDA t, b1 :
        Then(take_checkpoint_data(b1), LAMBDA d, b2 :
        Then(take_list(LAMBDA x : take_fields(<<"public_key", "signature">>, x, <<>>), b2),
             LAMBDA sigs, b3 : Decoded([data |-> d, signatures |-> sigs], b3)))),
        LAMBDA c : SignersSorted(c.signatures))

-----------------------------------------------------------------------------
\* block.rs

BlockHeader_fields ==
    <<"version", "height", "prev_hash", "tx_root", "timestamp", "consensus">>
check_version(h) == h.version = PROTOCOL_VERSION

BlockHeader_encode(h) == IF check_version(h) THEN put_fields(BlockHeader_fields, h) ELSE Refused
BlockHeader_decode(b) == Checked(take_fields(BlockHeader_fields, b, <<>>), check_version)

Block_encode(k) ==
    Joined(BlockHeader_encode(k.header),
           PutList(EncodeAll([i \in DOMAIN k.transactions |->
                                 Transaction_encode(k.transactions[i])])))
Block_decode(b) ==
    Then(BlockHeader_decode(b), LAMBDA h, b1 :
    Then(take_list(Transaction_decode, b1), LAMBDA txs, b2 :
        Decoded([header |-> h, transactions |-> txs], b2)))

-----------------------------------------------------------------------------
\* message.rs

msg_type ==
    [Hello |-> 1, Ping |-> 2, Pong |-> 3, GetBlock |-> 4, GetBlocks |-> 5, Block |-> 6,
     Transaction |-> 7, GetRecord |-> 8, Record |-> 9, Checkpoint |-> 10,
     GetCheckpoints |-> 11]

\* The messages that are a bare field list.
MessageFields ==
    [Hello |-> <<"version">>, Ping |-> <<>>, Pong |-> <<>>, GetBlock |-> <<"hash">>,
     GetBlocks |-> <<"start_height", "max_blocks">>, GetRecord |-> <<"domain_id">>,
     GetCheckpoints |-> <<>>]

\* Checks that Encode and Decode of Message both make.
MessageRule(m) ==
    CASE m.msg = "Hello" -> m.version \in 1..PROTOCOL_VERSION
      [] m.msg = "GetBlocks" -> m.max_blocks <= MAX_BLOCKS_PER_REQUEST
      [] OTHER -> TRUE

Message_body(m) ==
    CASE m.msg = "Block" -> Block_encode(m.body)
      [] m.msg = "Transaction" -> Transaction_encode(m.body)
      [] m.msg = "Record" -> SignedDnsRecord_encode(m.body)
      [] m.msg = "Checkpoint" -> Checkpoint_encode(m.body)
      [] OTHER -> put_fields(MessageFields[m.msg], m)

Message_encode(m) ==
    IF MessageRule(m) THEN Prefixed(<<msg_type[m.msg]>>, Message_body(m)) ELSE Refused

Message_decode(b) ==
    Then(take_u8(b), LAMBDA disc, rest :
        IF \A t \in DOMAIN msg_type : msg_type[t] # disc THEN Refused
        ELSE LET t == CHOOSE t \in DOMAIN msg_type : msg_type[t] = disc
                 Wrap(r) == Then(r, LAMBDA v, rest2 : Decoded([msg |-> t, body |-> v], rest2))
             IN CASE t = "Block" -> Wrap(Block_decode(rest))
                  [] t = "Transaction" -> Wrap(Transaction_decode(rest))
                  [] t = "Record" -> Wrap(SignedDnsRecord_decode(rest))
                  [] t = "Checkpoint" -> Wrap(Checkpoint_decode(rest))
                  [] OTHER -> Checked(take_fields(MessageFields[t], rest, [msg |-> t]),
                                      MessageRule))

-----------------------------------------------------------------------------
\* state_bytes.rs

DomainState_fields == <<"owner", "sequence_be", "registered_at_be", "valid_until_be">>
DOMAIN_STATE_LEN_NONE == 1 + ID_LEN + 3 * INT_LEN
DOMAIN_STATE_LEN_SOME == DOMAIN_STATE_LEN_NONE + ID_LEN
TLD_STATE_LEN == 1 + ID_LEN + 1

\* Tag 0x01 announces a record hash, tag 0x02 its absence (the empty sequence here).
DomainState_encode(s) ==
    Prefixed(<<IF s.hash = <<>> THEN 2 ELSE 1>>,
             Joined(put_fields(DomainState_fields, s), Encoded(s.hash)))

\* Tag and total length must agree.
DomainState_decode(b) ==
    IF \/ Len(b) = DOMAIN_STATE_LEN_SOME /\ b[1] = 1
       \/ Len(b) = DOMAIN_STATE_LEN_NONE /\ b[1] = 2
    THEN Then(take_fields(DomainState_fields, Tail(b), <<>>),
              LAMBDA s, rest : Decoded(s @@ [hash |-> rest], <<>>))
    ELSE Refused

TldState_encode(s) == Prefixed(<<2>>, put_fields(<<"owner", "open">>, s))
TldState_decode(b) ==
    IF Len(b) = TLD_STATE_LEN /\ b[1] = 2
    THEN take_fields(<<"owner", "open">>, Tail(b), <<>>)
    ELSE Refused

-----------------------------------------------------------------------------
\* verified_snapshot.rs: manifest, page, marker

MANIFEST_TAG == <<77, 78>>
PAGE_TAG == <<80, 71>>
Manifest_fields ==
    <<"height_be", "tip_hash", "state_root", "page_count_be", "domain_count_be", "tld_count_be">>

\* Nothing ties the page count to the list here, nor bounds it.
Manifest_encode(m) ==
    Prefixed(MANIFEST_TAG,
             Joined(put_fields(Manifest_fields, m), Encoded(FlattenSeq(m.page_hashes))))

\* The page count bounds the list and fixes the total length.
Manifest_decode(b) ==
    Then(TakeTag(MANIFEST_TAG, b), LAMBDA t, b1 :
    Then(take_fields(Manifest_fields, b1, <<>>), LAMBDA m, b2 :
        IF m.page_count_be > MAX_LIST THEN Refused
        ELSE Then(TakeItems(m.page_count_be, LAMBDA x : take_array(ID_LEN, x), b2),
                  LAMBDA hs, b3 : Decoded(m @@ [page_hashes |-> hs], b3))))

\* An entry keeps its state in a buffer of the longest length, padded with zeros.
Padded(bytes, n) == [i \in 1..n |-> IF i <= Len(bytes) THEN bytes[i] ELSE 0]

\* as_encoded: the tag of a buffered domain state says how much of it counts.
as_encoded(e) ==
    IF e.entry = "domain" /\ e.state[1] # 1 THEN SubSeq(e.state, 1, DOMAIN_STATE_LEN_NONE)
    ELSE e.state

SnapshotEntry_encode(e) ==
    Encoded(<<IF e.entry = "domain" THEN 1 ELSE 2>> \o e.id \o put_be(Len(as_encoded(e)))
                \o as_encoded(e))

\* The declared length must be one of the entry's lengths; its tag is not looked at.
SnapshotEntry_decode(b) ==
    Then(take_u8(b), LAMBDA k, b1 : Then(take_array(ID_LEN, b1), LAMBDA id, b2 :
    Then(take_be(b2), LAMBDA len, b3 : Then(take_array(len, b3), LAMBDA raw, b4 :
        IF k = 1 /\ len \in {DOMAIN_STATE_LEN_NONE, DOMAIN_STATE_LEN_SOME}
        THEN Decoded([entry |-> "domain", id |-> id,
                      state |-> Padded(raw, DOMAIN_STATE_LEN_SOME)], b4)
        ELSE IF k = 2 /\ len = TLD_STATE_LEN
        THEN Decoded([entry |-> "tld", id |-> id, state |-> raw], b4)
        ELSE Refused))))

\* The entries are counted, not bounded.
Page_encode(g) ==
    Prefixed(PAGE_TAG \o put_be(g.index_be) \o put_be(g.height_be) \o g.state_root
                 \o put_be(Len(g.entries)),
             Encoded(FlattenSeq([i \in DOMAIN g.entries |->
                                    SnapshotEntry_encode(g.entries[i]).bytes])))

Page_decode(b) ==
    Then(TakeTag(PAGE_TAG, b), LAMBDA t, b1 :
    Then(take_fields(<<"index_be", "height_be", "state_root">>, b1, <<>>), LAMBDA g, b2 :
    Then(take_be(b2), LAMBDA n, b3 :
        IF n > MAX_LIST THEN Refused
        ELSE Then(TakeItems(n, SnapshotEntry_decode, b3),
                  LAMBDA es, b4 : Decoded(g @@ [entries |-> es], b4)))))

Marker_fields == <<"height_be", "tip_hash", "manifest_hash">>

-----------------------------------------------------------------------------
\* The machine

encode(k, v) ==
    CASE k = "message" -> Message_encode(v)
      [] k = "unsigned" -> Unsigned_encode(v)
      [] k = "u64" -> Encoded(put_u64(v))
      [] k = "domain_state" -> DomainState_encode(v)
      [] k = "tld_state" -> TldState_encode(v)
      [] k = "manifest" -> Manifest_encode(v)
      [] k = "page" -> Page_encode(v)
      [] k = "marker" -> put_fields(Marker_fields, v)

\* decode_complete, and the strict decoders of the store.
decode_complete(k, b) ==
    Complete(CASE k = "message" -> Message_decode(b)
               [] k = "unsigned" -> Unsigned_decode(b)
               [] k = "u64" -> take_u64(b)
               [] k = "domain_state" -> DomainState_decode(b)
               [] k = "tld_state" -> TldState_decode(b)
               [] k = "manifest" -> Manifest_decode(b)
               [] k = "page" -> Page_decode(b)
               [] k = "marker" -> take_fields(Marker_fields, b, <<>>))

Init ==
    /\ kind = "none"
    /\ sent = Refused
    /\ wire = Refused
    /\ intact = TRUE
    /\ got = Pending

Send(s) ==
    /\ kind = "none"
    /\ kind' = s.kind
    /\ sent' = [ok |-> TRUE, val |-> s.val]
    /\ wire' = encode(s.kind, s.val)
    /\ UNCHANGED <<intact, got>>

\* Bytes that no encoder produced.
Inject(r) ==
    /\ kind = "none"
    /\ kind' = r.kind
    /\ wire' = Encoded(r.wire)
    /\ intact' = FALSE
    /\ UNCHANGED <<sent, got>>

Damaged(bytes) ==
    /\ wire.ok /\ intact /\ got = Pending
    /\ wire' = Encoded(bytes)
    /\ intact' = FALSE
    /\ UNCHANGED <<kind, sent, got>>

Replace(i, b) ==
    i \in DOMAIN wire.bytes /\ wire.bytes[i] # b /\ Damaged([wire.bytes EXCEPT ![i] = b])
Insert(i, b) ==
    i \in 0..Len(wire.bytes)
    /\ Damaged(SubSeq(wire.bytes, 1, i) \o <<b>> \o Drop(wire.bytes, i))
Cut(n) == n < Len(wire.bytes) /\ Damaged(SubSeq(wire.bytes, 1, n))

Deliver ==
    /\ wire.ok
    /\ got = Pending
    /\ got' = decode_complete(kind, wire.bytes)
    /\ UNCHANGED <<kind, sent, wire, intact>>

\* The next value: the encoder refused this one, or the receiver is done with it.
Done ==
    /\ kind # "none"
    /\ got # Pending \/ ~wire.ok
    /\ kind' = "none"
    /\ sent' = Refused
    /\ wire' = Refused
    /\ intact' = TRUE
    /\ got' = Pending

MaxWire == 40 \* longest encoding of the instances

Next ==
    \/ \E s \in Samples : Send(s)
    \/ \E r \in RawInputs : Inject(r)
    \/ wire.ok /\ \E i \in 1..MaxWire, b \in Noise : Replace(i, b)
    \/ wire.ok /\ \E i \in 0..MaxWire, b \in Noise : Insert(i, b)
    \/ wire.ok /\ \E n \in 0..MaxWire : Cut(n)
    \/ Deliver
    \/ Done

Spec == Init /\ [][Next]_vars

-----------------------------------------------------------------------------
\* Properties

Delivered == wire.ok /\ "ok" \in DOMAIN got
Accepted == Delivered /\ got.ok

\* A record set travels sorted by encoding; everything else travels as it is.
Canon(k, v) ==
    IF k # "message" \/ v.msg # "Record" THEN v
    ELSE [v EXCEPT !.body.record.records =
             SortSeq(@, LAMBDA x, y : Less(RecordData_encode(x).bytes, RecordData_encode(y).bytes))]

\* The values whose encoder relies on the caller: VerifiedSnapshotManifest::encode and
\* SnapshotPage::encode return bytes for any value, their decoders refuse some.
WithinLimits(k, v) ==
    CASE k = "page" -> Len(v.entries) <= MAX_LIST
      [] k = "manifest" -> v.page_count_be = Len(v.page_hashes) /\ v.page_count_be <= MAX_LIST
      [] OTHER -> TRUE

(* What an encoder accepts, its decoder accepts and gives back: the limits,   *)
(* ranges, bindings and orders that Encode checks are those Decode checks, in *)
(* every type of message.rs, transaction.rs, record.rs, block.rs,             *)
(* checkpoint.rs and state_bytes.rs.  The encoders of verified_snapshot.rs    *)
(* check nothing: a page or a manifest comes back when it keeps the limits    *)
(* and counts its pages right, and is otherwise refused, never misread.       *)
RoundTrip ==
    Delivered /\ intact =>
        IF WithinLimits(kind, sent.val) THEN got.ok /\ got.val = Canon(kind, sent.val)
        ELSE ~got.ok

(* One value, one encoding: bytes a decoder accepts, damaged or never sent,   *)
(* are the bytes its encoder would have produced (varint.rs "a value has      *)
(* exactly one valid byte sequence, which is required for canonical hashing   *)
(* and signing").  A second encoding of a transaction would be a second       *)
(* transaction id for the same signed content.  Snapshot pages are stated     *)
(* apart, in PageNoExcess.                                                    *)
Canonical ==
    Accepted /\ kind # "page" => encode(kind, got.val) = Encoded(wire.bytes)

(* A signature covers all of a transaction but itself: the signing payload of *)
(* an accepted transaction decodes to exactly its unsigned fields, so two     *)
(* transactions with one payload differ in nothing but the signature.  The    *)
(* unsigned view is encoded by its own match (transaction.rs:813), which no   *)
(* type check ties to the signed one.                                         *)
SignatureCovers ==
    Accepted /\ kind = "message" /\ got.val.msg = "Transaction" =>
        LET tx == got.val.body
            p == signing_payload(tx)
        IN /\ p.ok
           /\ Complete(Unsigned_decode(Drop(p.bytes, Len(TX_SIG_PREFIX))))
                  = Decoded(Unsigned_from(tx), <<>>)

(* verified_snapshot.rs:280 "aucun octet en excès": a page that decodes, all  *)
(* of whose states pass the import's check, has no byte its encoding lacks.   *)
PageNoExcess ==
    Accepted /\ kind = "page"
        /\ (\A i \in DOMAIN got.val.entries :
               got.val.entries[i].entry = "domain" =>
                   DomainState_decode(as_encoded(got.val.entries[i])).ok)
    => Len(wire.bytes) <= Len(encode(kind, got.val).bytes)
=============================================================================
