------------------------------- MODULE Wallet -------------------------------
(***************************************************************************)
(* What a user's machine computes: the keyfiles of crates/scone-keystore,  *)
(* the record files of `scone domain update`, and the transactions that    *)
(* crates/scone/src/tx.rs builds, rebinds and signs.  Client runs these as *)
(* concurrent commands.                                                    *)
(*                                                                         *)
(* A key is a model value, and so is the public key and the owner id it    *)
(* determines.  A file is None (absent) or [bytes, mode]; its bytes are    *)
(* None (empty) or the fields of a keyfile.  A signature is the key with   *)
(* what it signs.                                                          *)
(***************************************************************************)
EXTENDS Integers, Sequences, SequencesExt, FiniteSets

CONSTANTS
  None,
  VERSION, DEFAULT_M_COST_MIB, DEFAULT_T_COST, MAX_T_COST,
  MAX_RECORDS_PER_SET,
  TESTNET,          \* the network of every transaction the CLI makes
  BuildKey          \* the fixed key of `scone tx build`

ASSUME WalletConstants ==
  /\ {VERSION, DEFAULT_M_COST_MIB, DEFAULT_T_COST, MAX_T_COST, MAX_RECORDS_PER_SET} \subseteq Nat \ {0}
  /\ DEFAULT_T_COST <= MAX_T_COST

-----------------------------------------------------------------------------
(* Keyfiles.                                                                *)

CreateMode == [create                         |-> "NoClobber",
               create_overwriting             |-> "Overwrite",
               create_with_phrase             |-> "NoClobber",
               create_with_phrase_overwriting |-> "Overwrite",
               restore_from_phrase            |-> "Overwrite"]

(* write_keyfile and write_derived_keyfile produce the same bytes; only the *)
(* former creates the directory.                                            *)
Keyfile(seed, pass) ==
  [magic |-> TRUE, version |-> VERSION, m_cost |-> DEFAULT_M_COST_MIB,
   t_cost |-> DEFAULT_T_COST, sealed |-> pass, seed |-> seed]
MakesDirectory(op) == op \in {"create", "create_overwriting"}

parse_keyfile(b) ==
  /\ b # None /\ b.magic
  /\ b.version = VERSION
  /\ b.m_cost <= DEFAULT_M_COST_MIB
  /\ b.t_cost \in 1..MAX_T_COST

(* open: None for every error; the passphrase and the ciphertext fail alike. *)
open(f, pass) ==
  IF f # None /\ parse_keyfile(f.bytes) /\ f.bytes.sealed = pass
    THEN f.bytes.seed ELSE None

-----------------------------------------------------------------------------
(* Record files: a line is [type, fields, spacing].                         *)

FixedTypes == {"A", "AAAA", "CNAME", "NS", "MX"}
Arity(type) == IF type = "MX" THEN 2 ELSE 1

(* parse_record_line: strict, and the text of TXT without its spacing.      *)
parse_record_line(l) ==
  IF \/ l.type \in FixedTypes /\ Len(l.fields) = Arity(l.type)
     \/ l.type = "TXT" /\ l.fields # <<>>
    THEN [type |-> l.type, value |-> l.fields] ELSE None

read_record_file(lines) ==
  LET rest    == SelectSeq(lines, LAMBDA l : l.type \notin {"blank", "comment"})
      records == [i \in DOMAIN rest |-> parse_record_line(rest[i])]
  IN IF None \in ToSet(records) \/ Len(records) \notin 1..MAX_RECORDS_PER_SET
          \/ ~IsInjective(records)
       THEN None ELSE records

-----------------------------------------------------------------------------
(* Transactions: [network, owner, key, body, sig]; a registration carries   *)
(* its proof of work.                                                       *)

Unsigned == "placeholder signature"
mine(network, domain) == <<network, domain>>

Transaction(network, key, body) ==
  [network |-> network, owner |-> key, key |-> key, body |-> body, sig |-> Unsigned]

(* The bytes that are signed: everything but the signature.                 *)
signing_payload(tx) == [tx EXCEPT !.sig = None]
attach_signature(tx, sig) == [tx EXCEPT !.sig = sig]
sign_tx_with(tx, sk) == attach_signature(tx, <<sk, signing_payload(tx)>>)

build_unsigned(body) == Transaction(TESTNET, BuildKey, body)

RegisterBody(d, stamp, network) ==
  [kind |-> "register", domain |-> d, stamp |-> stamp, proof |-> mine(network, d)]
UpdateBody(d, sequence, hash) ==
  [kind |-> "update", domain |-> d, sequence |-> sequence, hash |-> hash]

signed_register_domain_tx(sk, d, stamp) ==
  sign_tx_with(Transaction(TESTNET, sk, RegisterBody(d, stamp, TESTNET)), sk)
signed_update_domain_tx(sk, d, sequence, hash) ==
  sign_tx_with(Transaction(TESTNET, sk, UpdateBody(d, sequence, hash)), sk)

(* `tx sign` takes a transaction or the payload that `tx build` printed;    *)
(* the owner of a payload is not read.                                      *)
unsigned_into_transaction(u) == [u EXCEPT !.owner = u.key, !.sig = Unsigned]
decode_tx_or_payload(input) ==
  CASE input.form = "transaction" -> input.tx
    [] input.form = "payload"     -> unsigned_into_transaction(input.tx)
    [] OTHER                      -> None

(* rebind: the signer's key and owner; and, but for Slash, the test network. *)
rebind(tx, sk) ==
  Transaction(IF tx.body.kind = "slash" THEN tx.network ELSE TESTNET, sk, tx.body)
SignCommand(input, sk) == sign_tx_with(rebind(decode_tx_or_payload(input), sk), sk)

(* `tx verify`, and the first check of a relay.                             *)
validate_transaction(tx) ==
  tx.owner = tx.key /\ tx.sig = <<tx.key, signing_payload(tx)>>
=============================================================================
