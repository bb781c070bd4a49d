----------------------------- MODULE MCResolve -----------------------------
(* Two domains, one below the other.  The upper one publishes a record, then *)
(* a longer one, then lapses in the block that registers the lower one.      *)
EXTENDS Resolve

CONSTANTS o1, o2, c1, c2, c3, c4, c5

A == <<"a", "t">>
X == <<"x", "a", "t">>
W == <<"w", "com">>

Small == <<[type |-> "A", size |-> 2]>>
Large == <<[type |-> "A", size |-> 2], [type |-> "TXT", size |-> 3]>>
Rec(d, o, n, data) == [domain |-> d, owner |-> o, sequence |-> n, data |-> data]
Commits(r) == [owner |-> r.owner, sequence |-> r.sequence, hash |-> record_hash(r)]

A1 == Rec(A, o1, 1, Small)
A2 == Rec(A, o1, 2, Large)

MCDomains == {A, X}
Only(d, x) == [e \in MCDomains |-> IF e = d THEN x ELSE None]
MCHistory == <<Only(A, Commits(A1)), Only(A, Commits(A2)),
               Only(X, [owner |-> o2, sequence |-> 0, hash |-> None])>>

Get == [kind |-> "GetRecord", name |-> A]
Publish == [kind |-> "PutRecord", record |-> A2]
Inspect == [kind |-> "DomainInfo", name |-> A]
Garbled == [kind |-> "malformed"]
MCRequestOf == (c1 :> Get) @@ (c2 :> Publish) @@ (c3 :> Inspect) @@ (c4 :> Garbled) @@ (c5 :> Get)
MCInitDht == {<<A, A1>>}

Packet(name, type) ==
  [short |-> FALSE, response |-> FALSE, questions |-> 1, pointer |-> FALSE,
   charset |-> TRUE, labels |-> name, class |-> "IN", type |-> type]
Strange == [Packet(X, "A") EXCEPT !.class = "CH"]

q1 == "x over udp"
q2 == "x over tcp"
q3 == "w over udp"
q4 == "w over tcp"
q5 == "strange"
MCQueries ==
  (q1 :> Packet(X, "ANY")) @@ (q2 :> Packet(X, "ANY")) @@
  (q3 :> Packet(W, "A")) @@ (q4 :> Packet(W, "A")) @@ (q5 :> Strange)
MCTransportOf == (q1 :> "udp") @@ (q2 :> "tcp") @@ (q3 :> "udp") @@ (q4 :> "tcp") @@ (q5 :> "tcp")

(* Lookups among publications; lookups at the caps; queries after a          *)
(* publication; queries for slots with clients; upstreams; no upstream.      *)
MCLoads ==
  {[who |-> {c1, c2, c3}, upstreams |-> 1], [who |-> {c1, c4, c5}, upstreams |-> 1],
   [who |-> {c2, q1, q2}, upstreams |-> 1], [who |-> {c4, c5, q1}, upstreams |-> 1],
   [who |-> {q3, q4, q5}, upstreams |-> 2], [who |-> {q1, q2, q4}, upstreams |-> 0]}

Addresses(n) == [i \in 1..n |-> [type |-> "A", ttl |-> 1, size |-> 2]]
Reply(n, tc) ==
  [echoes |-> TRUE, rcode |-> NOERROR, aa |-> TRUE, tc |-> tc, full |-> 2,
   answers |-> Addresses(n), read |-> Addresses(n)]
(* Both domains registered, and the record of one under the key of the other.*)
X1 == Rec(X, o2, 1, Large)
BothHistory == <<[e \in MCDomains |-> IF e = A THEN Commits(A1) ELSE Commits(X1)]>>
MisfiledDht == {<<A, X1>>}

(* An upstream that cuts its own replies.                                    *)
CutReplies == {Reply(1, TRUE)}

MCPeerRecords == {A2}
Compressed == [Reply(2, FALSE) EXCEPT !.read = None]
MCReplies == {None, Reply(2, FALSE), Compressed}
=============================================================================
