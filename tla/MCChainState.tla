---------------------------- MODULE MCChainState ----------------------------
(* Small instances of ChainState for TLC. *)
EXTENDS ChainState, TLC

CONSTANTS o1, o2, t1, d1, d2, r1

MCOneDomain  == {d1}
MCTwoDomains == {d1, d2}
MCTldOf      == [d \in Domains |-> t1]
MCTimes      == 0..3
MCShortTimes == {0, 3}
MCExpiries   == 1..5
MCShortExpiries == {3}
OwnerSymmetry == Permutations(Owners)
=============================================================================
