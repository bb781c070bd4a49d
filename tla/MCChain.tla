------------------------------- MODULE MCChain -------------------------------
(* A tree of blocks around one fork of two branches, for TLC.  Its first     *)
(* block stakes four anchors; the branches carry a replayable transaction,   *)
(* a registration that lapses, a slash and a transaction included twice.     *)
EXTENDS Chain

CONSTANTS a1, a2, a3, a4, e, t1, t2, t3, t4, d1

Claim(id, o, t) == [id |-> id, op |-> "RegisterTld", owner |-> o, tld |-> t]
Stakes == <<Claim(1, a1, t1), Claim(2, a2, t2), Claim(3, a3, t3), Claim(4, a4, t4)>>
Open   == [id |-> 5, op |-> "SetTldOpen", owner |-> a1, tld |-> t1, open |-> TRUE]
Shut   == [id |-> 6, op |-> "SetTldOpen", owner |-> a2, tld |-> t2, open |-> FALSE]
Name   == [id |-> 7, op |-> "RegisterDomain", owner |-> e, domain |-> d1]
Ousted == [id |-> 8, op |-> "Slash", owner |-> a4]

B(prev, height, ts, producer, txs) ==
  [prev |-> prev, height |-> height, ts |-> ts, producer |-> producer,
   txs |-> txs, sound |-> TRUE]

Root == B(0, 0, 0, e, <<>>)
First == B(0, 1, 1, a1, Stakes)

MCHashes == {10, 11, 15, 20, 25, 30, 31, 35, 36, 40, 46, 50, 60, 61}
MCBlockOf ==
  [h \in MCHashes \cup {0} |->
    CASE h = 0  -> Root
      [] h = 10 -> First
      [] h = 11 -> [First EXCEPT !.producer = e]         \* open production
      [] h = 20 -> B(10, 2, 2, a2, <<Open>>)
      [] h = 30 -> B(20, 3, 3, a1, <<Name>>)             \* the pool grows
      [] h = 31 -> B(20, 3, 3, a1, <<Shut, Shut>>)
      [] h = 40 -> B(30, 4, 6, a1, <<>>)
      [] h = 50 -> B(40, 5, 7, a2, <<Ousted>>)           \* d1 has lapsed
      [] h = 15 -> B(10, 2, 2, a3, <<>>)                 \* the other branch
      [] h = 25 -> B(15, 3, 3, a4, <<Open>>)
      [] h = 35 -> B(25, 4, 4, a2, <<Open>>)             \* a replay
      [] h = 36 -> B(25, 4, 4, a2, <<>>)
      [] h = 46 -> B(36, 5, 5, a1, <<Open>>)             \* past the window
      [] h = 60 -> B(10, 3, 2, a1, <<>>)                 \* a wrong height
      [] h = 61 -> [B(10, 2, 2, a1, <<>>) EXCEPT !.sound = FALSE]]

MCTxIds == 1..8
MCTldOf == [d \in Domains |-> t1]

Index(o) == CASE o = a1 -> 0 [] o = a2 -> 1 [] o = a3 -> 2 [] o = a4 -> 3 [] o = e -> 4
(* Every seed draws in another order.                                        *)
MCRank(seed, o) ==
  (Index(o) + seed.recovery + (IF seed.of = None THEN 0 ELSE seed.of.data.epoch + 1)) % 5

MCSignerSets == {{a1, a2, a3}, {a1, a2}}
=============================================================================
