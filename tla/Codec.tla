------------------------------- MODULE Codec -------------------------------
(***************************************************************************)
(* Byte-level primitives of scone-protocol (varint.rs, codec.rs, ids.rs)   *)
(* and the validated strings of scone-core (name.rs, network.rs).          *)
(*                                                                         *)
(* A byte is a number 0..255 and an encoding a sequence of bytes.  The     *)
(* wire formats are field lists: a message is a record, a layout the       *)
(* sequence of its field names in wire order, and one pair of operators,   *)
(* put_fields and take_fields, walks any layout.  An encoder yields        *)
(* [ok, bytes]; a decoder [ok, val, rest], rest being the unread input.    *)
(*                                                                         *)
(* Widths are parameters: 32-byte ids have ID_LEN bytes, 64-byte           *)
(* signatures SIG_LEN, u64 varints at most MAX_VARINT_LEN bytes (10 in the *)
(* code), so u64 is 0..U64_MAX.  No operator depends on the values chosen. *)
(***************************************************************************)
EXTENDS Integers, Sequences, SequencesExt, FiniteSetsExt, TLC

CONSTANTS
    ID_LEN,             \* 32 in the code
    SIG_LEN,            \* 64 in the code
    INT_LEN,            \* width of a fixed-size integer (8, 4 and 2 in the code)
    MAX_VARINT_LEN,     \* 10 in the code
    U16_MAX,            \* 65535 in the code, far below the largest u64
    MAX_NETWORK_ID_LEN, \* 16 in the code
    MAX_LABEL_LEN,      \* 63 in the code, for a label and for a TLD
    MAX_NAME_LEN,       \* 253 in the code
    MAX_DATA_LEN        \* proof, TXT, consensus payload, record signature, unknown data

ASSUME CodecAssumption ==
    /\ {ID_LEN, SIG_LEN, INT_LEN, MAX_VARINT_LEN} \subseteq Nat \ {0}
    /\ U16_MAX \in Nat
    /\ {MAX_NETWORK_ID_LEN, MAX_LABEL_LEN, MAX_NAME_LEN, MAX_DATA_LEN} \subseteq Nat

\* The top varint byte carries the last bit of the integer: 9 groups of 7 bits and one.
U64_MAX == 2 * 128 ^ (MAX_VARINT_LEN - 1) - 1

-----------------------------------------------------------------------------
\* results

Refused == [ok |-> FALSE]
Encoded(bytes) == [ok |-> TRUE, bytes |-> bytes]
Decoded(val, rest) == [ok |-> TRUE, val |-> val, rest |-> rest]
Then(r, Rest(_, _)) == IF r.ok THEN Rest(r.val, r.rest) ELSE Refused
Checked(r, Rule(_)) == IF r.ok /\ Rule(r.val) THEN r ELSE Refused
Drop(b, n) == SubSeq(b, n + 1, Len(b))

-----------------------------------------------------------------------------
\* varint.rs

\* Least significant 7-bit group first, high bit on every byte but the last.
put_u64(v) ==
    LET n == CHOOSE k \in 1..MAX_VARINT_LEN :
                 v < 128 ^ k /\ (k = 1 \/ v >= 128 ^ (k - 1))
    IN [i \in 1..n |-> ((v \div 128 ^ (i - 1)) % 128) + (IF i < n THEN 128 ELSE 0)]

\* Mutant: the overlong form is accepted.
take_u64_mut(b) ==
    LET stops == {i \in DOMAIN b : i <= MAX_VARINT_LEN /\ b[i] < 128}
    IN IF stops = {} THEN Refused
       ELSE LET n == Min(stops)
            IN IF n = MAX_VARINT_LEN /\ b[n] > 1 THEN Refused
               ELSE Decoded(MapThenSumSet(LAMBDA i : (b[i] % 128) * 128 ^ (i - 1), 1..n),
                            Drop(b, n))

\* A terminator within MAX_VARINT_LEN bytes, no overflow, no zero top group.
take_u64(b) ==
    LET stops == {i \in DOMAIN b : i <= MAX_VARINT_LEN /\ b[i] < 128}
    IN IF stops = {} THEN Refused
       ELSE LET n == Min(stops)
            IN IF (n = MAX_VARINT_LEN /\ b[n] > 1) \/ (n > 1 /\ b[n] = 0) THEN Refused
               ELSE Decoded(MapThenSumSet(LAMBDA i : (b[i] % 128) * 128 ^ (i - 1), 1..n),
                            Drop(b, n))

-----------------------------------------------------------------------------
\* codec.rs

take_u8(b) == IF b = <<>> THEN Refused ELSE Decoded(Head(b), Tail(b))

take_array(n, b) ==
    IF Len(b) < n THEN Refused ELSE Decoded(SubSeq(b, 1, n), Drop(b, n))

put_bounded(bytes) == put_u64(Len(bytes)) \o bytes

take_bytes(max, b) ==
    Then(take_u64(b),
         LAMBDA len, rest : IF len > max THEN Refused ELSE take_array(len, rest))

\* u32 and u16 are varints with a range check.
take_int(max, b) == Checked(take_u64(b), LAMBDA v : v <= max)

\* Fixed-width integers of the checkpoint (little-endian) and of the store (big-endian).
put_le(v) == [i \in 1..INT_LEN |-> (v \div 256 ^ (i - 1)) % 256]
take_le(b) ==
    Then(take_array(INT_LEN, b),
         LAMBDA a, rest :
            Decoded(MapThenSumSet(LAMBDA i : a[i] * 256 ^ (i - 1), DOMAIN a), rest))
put_be(v) == Reverse(put_le(v))
take_be(b) ==
    Then(take_array(INT_LEN, b),
         LAMBDA a, rest :
            Decoded(MapThenSumSet(LAMBDA i : a[i] * 256 ^ (INT_LEN - i), DOMAIN a), rest))

put_bool(v) == <<IF v THEN 1 ELSE 0>>
take_bool(b) ==
    Then(Checked(take_u8(b), LAMBDA v : v \in {0, 1}),
         LAMBDA v, rest : Decoded(v = 1, rest))

\* The decoder of a complete input refuses what follows the value.
Complete(r) == IF r.ok /\ r.rest = <<>> THEN r ELSE Refused

-----------------------------------------------------------------------------
\* name.rs, network.rs

Lower == 97..122
Digit == 48..57
Hyphen == 45
Dot == 46

is_ldh(s) ==
    /\ s # <<>> => s[1] # Hyphen /\ s[Len(s)] # Hyphen
    /\ Range(s) \subseteq Lower \cup Digit \cup {Hyphen}

TldName_validate(s) == Len(s) \in 1..MAX_LABEL_LEN /\ is_ldh(s)

\* The dot-separated labels; two at least, the last one a TLD.
labels(s) ==
    LET cuts == {0, Len(s) + 1} \cup {i \in DOMAIN s : s[i] = Dot}
    IN {SubSeq(s, p + 1, Min({q \in cuts : q > p}) - 1) : p \in cuts \ {Len(s) + 1}}

DomainName_validate(s) ==
    /\ Len(s) \in 1..MAX_NAME_LEN
    /\ Dot \in Range(s)
    /\ \A l \in labels(s) : Len(l) \in 1..MAX_LABEL_LEN /\ is_ldh(l)

NetworkId_new(s) ==
    /\ Len(s) \in 1..MAX_NETWORK_ID_LEN
    /\ Range(s) \subseteq Lower \cup Digit \cup {Hyphen}

\* std::str::from_utf8, on the byte strings of the instances: ASCII.
from_utf8(s) == Range(s) \subseteq 0..127

-----------------------------------------------------------------------------
\* hashes and keys

\* hash256 and Ed25519 are outside the repository's logic: a digest is a checksum of
\* its input in the width of an id.  Nothing stated here relies on collision freedom.
hash256(bytes) ==
    [i \in 1..ID_LEN |-> MapThenSumSet(LAMBDA j : bytes[j] * (j + i), DOMAIN bytes) % 251]

\* Not every 32 bytes decompress to a curve point.
decompresses(key) == key[1] # 255

\* The signature of message by key.
sign(key, message) ==
    [i \in 1..SIG_LEN |-> (hash256(message)[1] + key[1] * (i + 1)) % 251]

\* from_name, from_tld and owner_of differ in their domain-separation prefix.
DomainId_from_name(name) == hash256(<<1>> \o name)
TldId_from_tld(tld) == hash256(<<2>> \o tld)
owner_of(key) == hash256(<<3>> \o hash256(<<4>> \o key))
=============================================================================
