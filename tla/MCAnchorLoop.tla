---------------------------- MODULE MCAnchorLoop ----------------------------
(* Two anchors, both needed for a quorum, compete for the second block; a   *)
(* third relay is passive.  The first block, which all have, staked the two. *)
EXTENDS AnchorLoop

CONSTANTS a1, a2, t1, t2, n1, n2, n3

Claim(id, o, t) == [id |-> id, op |-> "RegisterTld", owner |-> o, tld |-> t]
Stakes == <<Claim(1, a1, t1), Claim(2, a2, t2)>>

B(prev, height, producer, txs) ==
  [prev |-> prev, height |-> height, ts |-> height, producer |-> producer,
   txs |-> txs, sound |-> TRUE]

MCHashes == {5, 10, 11}
MCBlockOf ==
  [h \in Hashes \cup {0} |->
    CASE h = 0  -> B(0, 0, a1, <<>>)
      [] h = 5  -> B(0, 1, a1, Stakes)
      [] h = 10 -> B(5, 2, a1, <<>>)
      [] h = 11 -> B(5, 2, a2, <<>>)]
MCCommon == <<5>>

MCTldOf == [d \in Domains |-> t1]
Index(o) == CASE o = a1 -> 0 [] o = a2 -> 1
MCRank(seed, o) == Index(o)

(* The content of the first epoch on block h.                               *)
Content(h) ==
  [epoch |-> 0, height |-> 2, block_hash |-> h, prev |-> None,
   state_root |-> BranchState[h].smt, recovery |-> 0]
MCForeignData == {Content(11)}

MCThree == {n1, n2, n3}
MCFaultyLinks == {<<n1, n2>>}
MCKeys  == [n \in Nodes |-> CASE n = n1 -> a1 [] n = n2 -> a2 [] n = n3 -> None]
=============================================================================
