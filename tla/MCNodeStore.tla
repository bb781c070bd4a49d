----------------------------- MODULE MCNodeStore -----------------------------
(* One branch on which a TLD is revoked and a domain lapses, is registered   *)
(* again by its owner in the very block that expires it or one block later,  *)
(* and a sister block that wins a tie.                                       *)
EXTENDS NodeStore

CONSTANTS a, other, n1, n2

MCDomains == {1, 2}
MCTlds    == {11, 12}
MCTldOf   == [d \in Domains |-> 11]

Tx(id, op, o) == [id |-> id, op |-> op, owner |-> o]
Claim(id, o, t) == Tx(id, "RegisterTld", o) @@ [tld |-> t]
Open(id, o, t)  == Tx(id, "SetTldOpen", o) @@ [tld |-> t, open |-> TRUE]
Drop(id, o, t)  == Tx(id, "RevokeTld", o) @@ [tld |-> t]
Reg(id, o, d)   == Tx(id, "RegisterDomain", o) @@ [domain |-> d]
Upd(id, o, d)   == Tx(id, "UpdateDomain", o) @@ [domain |-> d, seq |-> 1, record |-> "r"]

B(prev, height, ts, txs) ==
  [prev |-> prev, height |-> height, ts |-> ts, producer |-> a, txs |-> txs, sound |-> TRUE]

MCHashes == {10, 15, 20, 25, 30, 40, 41, 50}
MCBlockOf ==
  [h \in MCHashes \cup {0} |->
    CASE h = 0  -> B(0, 0, 0, <<>>)
      [] h = 10 -> B(0, 1, 1, <<Claim(1, a, 11), Open(2, a, 11)>>)
      [] h = 20 -> B(10, 2, 2, <<Reg(3, a, 1), Claim(4, a, 12)>>)
      [] h = 30 -> B(20, 3, 3, <<Upd(5, a, 1), Drop(6, a, 12)>>)
      [] h = 40 -> B(30, 4, 4, <<Reg(7, a, 2)>>)           \* domain 1 lapses
      [] h = 50 -> B(40, 5, 5, <<Reg(8, a, 1)>>)           \* and comes back
      [] h = 41 -> B(30, 4, 4, <<Reg(8, a, 1)>>)           \* at once
      [] h = 15 -> B(10, 2, 2, <<Reg(7, a, 2)>>)           \* sister of 20
      [] h = 25 -> B(15, 3, 3, <<Reg(3, a, 1)>>)]

MCTxIds == 1..8
MCRank(seed, o) == IF o = a THEN 0 ELSE 1
=============================================================================
