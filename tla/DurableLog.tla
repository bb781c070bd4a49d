------------------------------ MODULE DurableLog ------------------------------
(***************************************************************************)
(* What the store of a node promises about blocks, whatever happens to the  *)
(* process: the block at a height is written once and never replaced, the   *)
(* tip only moves up, one block at a time, and only an empty store may jump *)
(* (to the height of an imported snapshot, whose block arrives later).      *)
(***************************************************************************)
EXTENDS Naturals

CONSTANTS Nodes, Blocks, LogHeights, Absent

VARIABLES height, at

LogTypeOK ==
  /\ height \in [Nodes -> Nat]
  /\ at \in [Nodes -> [LogHeights -> Blocks \cup {Absent}]]

LogInit ==
  /\ height = [n \in Nodes |-> 0]
  /\ at = [n \in Nodes |-> [k \in LogHeights |-> Absent]]

Append1(n) ==
  /\ height[n] + 1 \in LogHeights
  /\ height' = [height EXCEPT ![n] = @ + 1]
  /\ \E b \in Blocks : /\ at[n][height[n] + 1] = Absent
                       /\ at' = [at EXCEPT ![n] = [@ EXCEPT ![height[n] + 1] = b]]

Jump(n) ==
  /\ height[n] = 0
  /\ \E k \in LogHeights : k > 0 /\ height' = [height EXCEPT ![n] = k]
  /\ at' = at

Anchor(n) ==
  /\ height[n] \in LogHeights
  /\ at[n][height[n]] = Absent
  /\ \E b \in Blocks : at' = [at EXCEPT ![n] = [@ EXCEPT ![height[n]] = b]]
  /\ height' = height

LogNext == \E n \in Nodes : Append1(n) \/ Jump(n) \/ Anchor(n)

LogSpec == LogInit /\ [][LogNext]_<<height, at>>
=============================================================================
