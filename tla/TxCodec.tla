------------------------------ MODULE TxCodec ------------------------------
(***************************************************************************)
(* The ten transactions: constructors and validation of scone-core         *)
(* (transaction.rs), signed and unsigned wire formats of scone-protocol    *)
(* (transaction.rs).                                                       *)
(*                                                                         *)
(* A transaction is a record with a field `type`; the layout of a type is  *)
(* the sequence of its field names in wire order.  The unsigned view, the  *)
(* bytes a signer signs, has its own layouts because the code encodes it   *)
(* with its own match: nothing but agreement ties the two together.  The   *)
(* name of RegisterTld is the field `tld` here, since a field name         *)
(* determines how it is encoded.                                           *)
(***************************************************************************)
EXTENDS Codec

Id == [k |-> "array", n |-> ID_LEN]
Sig == [k |-> "array", n |-> SIG_LEN]
U64 == [k |-> "int", max |-> U64_MAX]
U16 == [k |-> "int", max |-> U16_MAX]
Str(max, rule) == [k |-> "bytes", max |-> max, rule |-> rule]
Kind(k) == [k |-> k]

\* How each field travels, whatever message it belongs to.
FieldType ==
    [network |-> Str(MAX_NETWORK_ID_LEN, "network"), name |-> Str(MAX_NAME_LEN, "domain"),
     tld |-> Str(MAX_LABEL_LEN, "tld"), domain_id |-> Id, tld_id |-> Id, owner |-> Id,
     new_owner |-> Id, assignee |-> Id, record_hash |-> Id, timestamp |-> U64,
     sequence |-> U64, valid_until |-> U64, proof |-> Str(MAX_DATA_LEN, "any"),
     open |-> Kind("bool"), public_key |-> Kind("key"), offender |-> Kind("key"),
     signature |-> Sig, sig_a |-> Sig, sig_b |-> Sig,
     evidence_a |-> Kind("checkpoint_data"), evidence_b |-> Kind("checkpoint_data"),
     \* blocks, messages, records and checkpoints
     version |-> U64, height |-> U64, prev_hash |-> Id, tx_root |-> Id,
     consensus |-> Str(MAX_DATA_LEN, "any"), hash |-> Id, start_height |-> U64,
     max_blocks |-> U64, expiration |-> U64, address |-> Id, preference |-> U16,
     text |-> Str(MAX_DATA_LEN, "utf8"), data |-> Str(MAX_DATA_LEN, "any"),
     record_signature |-> Str(MAX_DATA_LEN, "any"),
     epoch_le |-> Kind("le"), height_le |-> Kind("le"), recovery_le |-> Kind("le"),
     block_hash |-> Id, prev_checkpoint_hash |-> Id, state_root |-> Id,
     \* the store
     sequence_be |-> Kind("be"), registered_at_be |-> Kind("be"),
     valid_until_be |-> Kind("be"), height_be |-> Kind("be"), index_be |-> Kind("be"),
     page_count_be |-> Kind("be"), domain_count_be |-> Kind("be"),
     tld_count_be |-> Kind("be"), tip_hash |-> Id, manifest_hash |-> Id]

StringRule(rule, s) ==
    CASE rule = "network" -> NetworkId_new(s)
      [] rule = "domain" -> DomainName_validate(s)
      [] rule = "tld" -> TldName_validate(s)
      [] rule = "utf8" -> from_utf8(s)
      [] rule = "any" -> TRUE

CheckpointData_fields ==
    <<"epoch_le", "height_le", "recovery_le", "block_hash", "prev_checkpoint_hash", "state_root">>

\* CheckpointData: three little-endian integers and three hashes, always the same length.
put_checkpoint_data(d) ==
    put_le(d.epoch_le) \o put_le(d.height_le) \o put_le(d.recovery_le)
        \o d.block_hash \o d.prev_checkpoint_hash \o d.state_root

take_checkpoint_data(b) ==
    Then(take_le(b), LAMBDA e, b1 : Then(take_le(b1), LAMBDA h, b2 :
    Then(take_le(b2), LAMBDA r, b3 : Then(take_array(ID_LEN, b3), LAMBDA bh, b4 :
    Then(take_array(ID_LEN, b4), LAMBDA ph, b5 : Then(take_array(ID_LEN, b5), LAMBDA sr, b6 :
        Decoded([epoch_le |-> e, height_le |-> h, recovery_le |-> r, block_hash |-> bh,
                 prev_checkpoint_hash |-> ph, state_root |-> sr], b6)))))))

\* The encoder refuses what exceeds its bound; the other checks are in `validate`.
Fits(f, v) == FieldType[f].k = "bytes" => Len(v) <= FieldType[f].max

put_field(f, v) ==
    LET t == FieldType[f]
    IN CASE t.k \in {"array", "key"} -> v
         [] t.k = "int" -> put_u64(v)
         [] t.k = "bytes" -> put_bounded(v)
         [] t.k = "bool" -> put_bool(v)
         [] t.k = "le" -> put_le(v)
         [] t.k = "be" -> put_be(v)
         [] t.k = "checkpoint_data" -> put_checkpoint_data(v)

take_field(f, b) ==
    LET t == FieldType[f]
    IN CASE t.k = "array" -> take_array(t.n, b)
         [] t.k = "key" -> Checked(take_array(ID_LEN, b), decompresses)
         [] t.k = "int" -> take_int(t.max, b)
         [] t.k = "bytes" -> Checked(take_bytes(t.max, b), LAMBDA s : StringRule(t.rule, s))
         [] t.k = "bool" -> take_bool(b)
         [] t.k = "le" -> take_le(b)
         [] t.k = "be" -> take_be(b)
         [] t.k = "checkpoint_data" -> take_checkpoint_data(b)

put_fields(layout, m) ==
    IF \A i \in DOMAIN layout : Fits(layout[i], m[layout[i]])
    THEN Encoded(FlattenSeq([i \in DOMAIN layout |-> put_field(layout[i], m[layout[i]])]))
    ELSE Refused

\* Fields are read in order; the first refusal refuses the message.
take_fields(layout, b, m0) ==
    FoldLeft(LAMBDA r, f : Then(r, LAMBDA m, rest : Then(take_field(f, rest),
                 LAMBDA v, rest2 : Decoded(m @@ (f :> v), rest2))),
             Decoded(m0, b), layout)

-----------------------------------------------------------------------------
\* Signed layouts: transaction.rs of scone-protocol, one Encode/Decode pair each.

RegisterDomain_fields ==
    <<"network", "name", "domain_id", "owner", "timestamp", "proof", "public_key", "signature">>
RegisterTld_fields ==
    <<"network", "tld", "tld_id", "owner", "timestamp", "proof", "public_key", "signature">>
UpdateDomain_fields ==
    <<"network", "domain_id", "owner", "sequence", "record_hash", "public_key", "signature">>
TransferTld_fields ==
    <<"network", "tld_id", "owner", "new_owner", "public_key", "signature">>
TransferDomain_fields ==
    <<"network", "domain_id", "owner", "new_owner", "public_key", "signature">>
RevokeTld_fields ==
    <<"network", "tld_id", "owner", "public_key", "signature">>
SetTldOpen_fields ==
    <<"network", "tld_id", "owner", "open", "public_key", "signature">>
AssignDomain_fields ==
    <<"network", "name", "domain_id", "owner", "assignee", "public_key", "signature">>
RenewDomain_fields ==
    <<"network", "domain_id", "owner", "valid_until", "public_key", "signature">>
Slash_fields ==
    <<"network", "offender", "evidence_a", "sig_a", "evidence_b", "sig_b", "public_key",
      "signature">>

Fields ==
    [RegisterDomain |-> RegisterDomain_fields, RegisterTld |-> RegisterTld_fields,
     UpdateDomain |-> UpdateDomain_fields, TransferTld |-> TransferTld_fields,
     TransferDomain |-> TransferDomain_fields, RevokeTld |-> RevokeTld_fields,
     SetTldOpen |-> SetTldOpen_fields, AssignDomain |-> AssignDomain_fields,
     RenewDomain |-> RenewDomain_fields, Slash |-> Slash_fields]

TxTypes == DOMAIN Fields

\* tx_type: the discriminants.
tx_type ==
    [RegisterDomain |-> 33, UpdateDomain |-> 82, RegisterTld |-> 147, TransferTld |-> 71,
     RevokeTld |-> 107, SetTldOpen |-> 184, AssignDomain |-> 212, RenewDomain |-> 60,
     TransferDomain |-> 226, Slash |-> 21]
TX_FORMAT_VERSION == 1

-----------------------------------------------------------------------------
\* scone-core transaction.rs: constructors and validation.

\* *_on: the constructors derive the ids and the owner, never take them.
with_owner(type, key, sig, m) ==
    m @@ [type |-> type, owner |-> owner_of(key), public_key |-> key, signature |-> sig]

register_domain_on(net, name, ts, proof, key, sig) ==
    with_owner("RegisterDomain", key, sig,
        [network |-> net, name |-> name, domain_id |-> DomainId_from_name(name),
         timestamp |-> ts, proof |-> proof])
register_tld_on(net, tld, ts, proof, key, sig) ==
    with_owner("RegisterTld", key, sig,
        [network |-> net, tld |-> tld, tld_id |-> TldId_from_tld(tld), timestamp |-> ts,
         proof |-> proof])
update_domain_on(net, id, seq, hash, key, sig) ==
    with_owner("UpdateDomain", key, sig,
        [network |-> net, domain_id |-> id, sequence |-> seq, record_hash |-> hash])
transfer_tld_on(net, id, to, key, sig) ==
    with_owner("TransferTld", key, sig, [network |-> net, tld_id |-> id, new_owner |-> to])
transfer_domain_on(net, id, to, key, sig) ==
    with_owner("TransferDomain", key, sig,
        [network |-> net, domain_id |-> id, new_owner |-> to])
revoke_tld_on(net, id, key, sig) ==
    with_owner("RevokeTld", key, sig, [network |-> net, tld_id |-> id])
set_tld_open_on(net, id, open, key, sig) ==
    with_owner("SetTldOpen", key, sig, [network |-> net, tld_id |-> id, open |-> open])
assign_domain_on(net, name, to, key, sig) ==
    with_owner("AssignDomain", key, sig,
        [network |-> net, name |-> name, domain_id |-> DomainId_from_name(name),
         assignee |-> to])
renew_domain_on(net, id, until, key, sig) ==
    with_owner("RenewDomain", key, sig,
        [network |-> net, domain_id |-> id, valid_until |-> until])
slash_on(net, offender, a, sa, b, sb, key, sig) ==
    [type |-> "Slash", network |-> net, offender |-> offender, evidence_a |-> a, sig_a |-> sa,
     evidence_b |-> b, sig_b |-> sb, public_key |-> key, signature |-> sig]

check_owner_binding(tx) == tx.owner = owner_of(tx.public_key)

signing_hash(d) == hash256(<<5>> \o put_checkpoint_data(d))

\* Two contents of one epoch and one predecessor, both signed by the offender.
verify_evidence(tx) ==
    LET a == tx.evidence_a
        b == tx.evidence_b
    IN /\ a.epoch_le = b.epoch_le
       /\ a.prev_checkpoint_hash = b.prev_checkpoint_hash
       /\ signing_hash(a) # signing_hash(b)
       /\ tx.sig_a = sign(tx.offender, signing_hash(a))
       /\ tx.sig_b = sign(tx.offender, signing_hash(b))

RegisterDomain_validate(tx) ==
    check_owner_binding(tx) /\ tx.domain_id = DomainId_from_name(tx.name)
RegisterTld_validate(tx) ==
    check_owner_binding(tx) /\ tx.tld_id = TldId_from_tld(tx.tld)
AssignDomain_validate(tx) ==
    check_owner_binding(tx) /\ tx.domain_id = DomainId_from_name(tx.name)
UpdateDomain_validate(tx) == tx.sequence # 0 /\ check_owner_binding(tx)

Transaction_validate(tx) ==
    CASE tx.type = "RegisterDomain" -> RegisterDomain_validate(tx)
      [] tx.type = "AssignDomain" -> AssignDomain_validate(tx)
      [] tx.type = "RegisterTld" -> RegisterTld_validate(tx)
      [] tx.type = "UpdateDomain" -> UpdateDomain_validate(tx)
      [] tx.type = "Slash" -> verify_evidence(tx)
      [] OTHER -> check_owner_binding(tx)

-----------------------------------------------------------------------------
\* Transaction and UnsignedTransaction on the wire.

Prefixed(prefix, e) == IF e.ok THEN Encoded(prefix \o e.bytes) ELSE Refused

Transaction_encode(tx) ==
    IF Transaction_validate(tx)
    THEN Prefixed(<<tx_type[tx.type], TX_FORMAT_VERSION>>, put_fields(Fields[tx.type], tx))
    ELSE Refused

\* The discriminant selects the layout; the version byte must be exactly 0x01.
TakeTyped(layouts, b) ==
    Then(take_u8(b), LAMBDA disc, b1 :
    Then(take_u8(b1), LAMBDA version, b2 :
        IF version # TX_FORMAT_VERSION \/ \A t \in TxTypes : tx_type[t] # disc THEN Refused
        ELSE LET t == CHOOSE t \in TxTypes : tx_type[t] = disc
             IN take_fields(layouts[t], b2, [type |-> t])))

Transaction_decode(b) == Checked(TakeTyped(Fields, b), Transaction_validate)

\* Mutant: one arm of the unsigned match forgets to encode the network.
UnsignedFields_mut ==
    [RegisterDomain |->
        <<"network", "name", "domain_id", "owner", "timestamp", "proof", "public_key">>,
     RegisterTld |->
        <<"network", "tld", "tld_id", "owner", "timestamp", "proof", "public_key">>,
     UpdateDomain |->
        <<"network", "domain_id", "owner", "sequence", "record_hash", "public_key">>,
     TransferTld |-> <<"network", "tld_id", "owner", "new_owner", "public_key">>,
     RevokeTld |-> <<"network", "tld_id", "owner", "public_key">>,
     SetTldOpen |-> <<"network", "tld_id", "owner", "open", "public_key">>,
     AssignDomain |->
        <<"network", "name", "domain_id", "owner", "assignee", "public_key">>,
     RenewDomain |-> <<"domain_id", "owner", "valid_until", "public_key">>,
     TransferDomain |-> <<"network", "domain_id", "owner", "new_owner", "public_key">>,
     Slash |->
        <<"network", "offender", "evidence_a", "sig_a", "evidence_b", "sig_b", "public_key">>]

\* enum UnsignedTransaction and its encoder: the fields a signature covers.
UnsignedFields ==
    [RegisterDomain |->
        <<"network", "name", "domain_id", "owner", "timestamp", "proof", "public_key">>,
     RegisterTld |->
        <<"network", "tld", "tld_id", "owner", "timestamp", "proof", "public_key">>,
     UpdateDomain |->
        <<"network", "domain_id", "owner", "sequence", "record_hash", "public_key">>,
     TransferTld |-> <<"network", "tld_id", "owner", "new_owner", "public_key">>,
     RevokeTld |-> <<"network", "tld_id", "owner", "public_key">>,
     SetTldOpen |-> <<"network", "tld_id", "owner", "open", "public_key">>,
     AssignDomain |->
        <<"network", "name", "domain_id", "owner", "assignee", "public_key">>,
     RenewDomain |-> <<"network", "domain_id", "owner", "valid_until", "public_key">>,
     TransferDomain |-> <<"network", "domain_id", "owner", "new_owner", "public_key">>,
     Slash |->
        <<"network", "offender", "evidence_a", "sig_a", "evidence_b", "sig_b", "public_key">>]

\* The unsigned view: `From<&Transaction>` drops the signature.
Unsigned_from(tx) == [f \in DOMAIN tx \ {"signature"} |-> tx[f]]

\* No validation here, on either side (the documentation of signing_payload announces one).
Unsigned_encode(u) ==
    Prefixed(<<tx_type[u.type], TX_FORMAT_VERSION>>, put_fields(UnsignedFields[u.type], u))
Unsigned_decode(b) == TakeTyped(UnsignedFields, b)

TX_SIG_PREFIX == <<83, 67>>
signing_payload(tx) == Prefixed(TX_SIG_PREFIX, Unsigned_encode(Unsigned_from(tx)))
=============================================================================
