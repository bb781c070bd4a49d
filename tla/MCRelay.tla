------------------------------ MODULE MCRelay ------------------------------
(* Three relays in a line, 1 - 2 - 3.  Relay 1 holds the only staked key     *)
(* among them; relay 3 starts without a block, and clients there claim a TLD *)
(* of their own and the one already registered, before or after it synced:   *)
(* it may produce blocks that compete with the first, and lose a tie-break.  *)
EXTENDS Relay, TLC

CONSTANTS a, b, devnet, t1, t2, d1

MCKeyOf == [n \in Nodes |-> IF n = 1 THEN a ELSE devnet]
MCTldOf == [d \in Domains |-> t1]

Tx(op, o) == [op |-> op, owner |-> o, sound |-> TRUE, pow |-> TRUE]
Claim == Tx("RegisterTld", a) @@ [tld |-> t1]
Open  == Tx("SetTldOpen", a) @@ [tld |-> t1, open |-> TRUE]
Mine  == Tx("RegisterDomain", a) @@ [domain |-> d1]
Rival == Tx("RegisterTld", b) @@ [tld |-> t2]

MCTxOf == <<Claim, Open, Rival, Mine>>

MCInitChain ==
  [n \in Nodes |-> IF n = 3 THEN <<>>
                   ELSE <<[producer |-> a, txs |-> <<1>>],
                          [producer |-> a, txs |-> <<2>>]>>]
MCLinks == {{1, 2}, {2, 3}}
MCInitLinks == {{1, 2}}
MCSubmissions == {<<3, 3>>, <<3, 1>>}
\* No chain of its own: what relay 3 admits behind the tip and relay 2 refuses, and a
\* block that travels meanwhile.
MCStaleSubmissions == {<<3, 2>>, <<1, 4>>}
MCLower(x, y) == Last(x).producer = a /\ Last(y).producer # a
=============================================================================
