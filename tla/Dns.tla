-------------------------------- MODULE Dns --------------------------------
(***************************************************************************)
(* The DNS surface of a relay (crates/scone-network/src/dns.rs) as         *)
(* operators: which packets are queries, how an answer set is chosen and   *)
(* cut to the budget of its transport, what is taken over from an          *)
(* upstream, and the answer cache.  Resolve runs them as concurrent tasks. *)
(*                                                                         *)
(* A packet is a record of what the parser looks at; a name is its         *)
(* sequence of labels; an answer is [type, ttl, size], its size that of    *)
(* the encoded record, with owner name and fixed fields.                   *)
(***************************************************************************)
EXTENDS Integers, Sequences, SequencesExt, FiniteSets, FiniteSetsExt

CONSTANTS
  None,
  IcannTlds,          \* the labels reserved for the legacy DNS
  ANSWER_TTL, MAX_FALLBACK_TTL,
  MAX_LABELS,
  HEADER,             \* size of a response without answers
  UDP_PAYLOAD_LIMIT, MAX_TCP_RESPONSE,
  CACHE_CAPACITY

ASSUME DnsConstants ==
  /\ {ANSWER_TTL, MAX_FALLBACK_TTL, MAX_LABELS, HEADER, CACHE_CAPACITY} \subseteq Nat \ {0}
  /\ {UDP_PAYLOAD_LIMIT, MAX_TCP_RESPONSE} \subseteq Nat
  /\ HEADER <= UDP_PAYLOAD_LIMIT /\ UDP_PAYLOAD_LIMIT <= MAX_TCP_RESPONSE

NOERROR == "NOERROR"
NXDOMAIN == "NXDOMAIN"
SERVFAIL == "SERVFAIL"
REFUSED == "REFUSED"

-----------------------------------------------------------------------------
(* Reading.                                                                 *)

(* parse_query: None is silence.  The class must be IN: any other is not    *)
(* refused, it is not answered at all.                                      *)
parse_query(b) ==
  IF /\ ~b.short /\ ~b.response /\ b.questions = 1
     /\ ~b.pointer /\ b.charset
     /\ Len(b.labels) \in 2..MAX_LABELS
     /\ b.class = "IN"
  THEN [name |-> b.labels, type |-> b.type] ELSE None

(* scone_candidate: by its shape, a name the registry could hold.           *)
scone_candidate(name) == Len(name) >= 2 /\ Last(name) \notin IcannTlds

(* The last labels of a name: a possible apex.                              *)
Suffix(name, keep) == SubSeq(name, Len(name) - keep + 1, Len(name))

-----------------------------------------------------------------------------
(* Choosing and writing.                                                    *)

(* encode_rdata of one record of a set, with the TTL of every answer.       *)
encode_rdata(r) == [type |-> r.type, ttl |-> ANSWER_TTL, size |-> r.size]

(* select_answers: all records of the apex answer for every name below it.  *)
AnswersTo(type, r) == \/ type = "ANY" \/ r.type = type
                      \/ type \in {"A", "AAAA"} /\ r.type = "CNAME"

select_answers(type, rdata) ==
  LET kept == {i \in DOMAIN rdata : AnswersTo(type, rdata[i])}
      Nth(j) == CHOOSE i \in kept : Cardinality({k \in kept : k <= i}) = j
  IN [j \in 1..Cardinality(kept) |-> rdata[Nth(j)]]

SizeOf(answers) == FoldLeft(LAMBDA n, a : n + a.size, HEADER, answers)

(* Mutant: the cut is not signalled.                                        *)
build_response_bounded_mut(answers, rcode, aa, budget) ==
  LET fit == {k \in 0..Len(answers) : SizeOf(SubSeq(answers, 1, k)) <= budget}
  IN [rcode |-> rcode, aa |-> aa, tc |-> FALSE, answers |-> SubSeq(answers, 1, Max(fit))]

(* build_response_bounded: cut before the first answer that does not fit.   *)
build_response_bounded(answers, rcode, aa, budget) ==
  LET fit  == {k \in 0..Len(answers) : SizeOf(SubSeq(answers, 1, k)) <= budget}
      kept == Max(fit)
  IN [rcode |-> rcode, aa |-> aa, tc |-> kept < Len(answers), answers |-> SubSeq(answers, 1, kept)]

-----------------------------------------------------------------------------
(* Upstreams.                                                               *)

(* reply_matches: the transaction id, the QR bit and the echoed question.   *)
reply_matches(r) == r.echoes

(* forward: the first upstream that sends anything decides.                 *)
forward(outcomes) ==
  LET spoke == {i \in DOMAIN outcomes : outcomes[i] # None}
  IN IF spoke = {} THEN None
     ELSE LET r == outcomes[Min(spoke)]
          IN IF reply_matches(r) THEN r ELSE None

Clamp(ttl) == IF ttl < MAX_FALLBACK_TTL THEN ttl ELSE MAX_FALLBACK_TTL

(* extract_answers: the walk takes names to be uncompressed, so what it     *)
(* reads (r.read) need not be the answers: a pointer is skipped like a      *)
(* label of 192 bytes and leads past the end (None) or to some other bytes. *)
(* The set gets the largest TTL of its members; the TC bit is not read.     *)
extract_answers(r) ==
  IF r.read = None THEN None
  ELSE LET ans == [i \in DOMAIN r.read |-> [r.read[i] EXCEPT !.ttl = Clamp(@)]]
       IN [answers |-> ans, ttl |-> Max({0} \cup {ans[i].ttl : i \in DOMAIN ans})]

(* What an upstream's reply leaves to cache: errors are not cached.         *)
Extracted(r) == IF r.rcode \in {NOERROR, NXDOMAIN} THEN extract_answers(r) ELSE None

(* The reply as it is when it fits, its AA and TC bits included, or         *)
(* re-encoded.                                                              *)
Relayed(r, budget) ==
  LET x == Extracted(r)
  IN IF SizeOf(r.answers) <= budget
       THEN [rcode |-> r.rcode, aa |-> r.aa, tc |-> r.tc, answers |-> r.answers]
     ELSE IF x = None THEN build_response_bounded(<<>>, SERVFAIL, FALSE, budget)
     ELSE build_response_bounded(x.answers, r.rcode, FALSE, budget)

-----------------------------------------------------------------------------
(* The cache: entries by (name, type), evicted first in, first out.         *)

NoEntries == [entries |-> << >>, order |-> <<>>]

(* Mutant: entries never expire.                                            *)
get_mut(c, key, now) == IF key \notin DOMAIN c.entries THEN None ELSE c.entries[key]

(* get: the entry, unless it is older than its TTL (at least one second).   *)
get(c, key, now) ==
  IF key \notin DOMAIN c.entries THEN None
  ELSE LET e == c.entries[key]
       IN IF now - e.at >= Max({Clamp(e.ttl), 1}) THEN None ELSE e

(* put: a refreshed key keeps its place in the order.                       *)
put(c, key, e) ==
  LET known   == key \in DOMAIN c.entries
      order   == IF known THEN c.order ELSE Append(c.order, key)
      keys    == DOMAIN c.entries \cup {key}
      over    == Cardinality(keys) > CACHE_CAPACITY
      entries == [k \in IF over THEN keys \ {Head(order)} ELSE keys |->
                    IF k = key THEN e ELSE c.entries[k]]
  IN [entries |-> entries, order |-> IF over THEN Tail(order) ELSE order]
=============================================================================
